SPECIFICATION Spec
CONSTANTS
    Drivers = {"char_dev", "chardev_poll", "chardev_minor", "chardev_sync", "chardrv_lock",
               "chardrv_seqlock", "chardrv_ioctl", "charioctl", "mycharS", "mycharD",
               "mychar_udev", "mychar_reg", "mychar_misc", "mycharPer", "proc_skel",
               "rtc_chardrv", "clock", "rtc_ioctl", "apic_ioctl", "apic_sysfs", "rtc_proc",
               "rtc_sync", "rtc_sysfs", "rtcsysfs_comman"}
    Processes = {p1, p2}
    Size = 2
    MaxCalls = 3
    MaxPortCalls = 2
INVARIANTS ReadsWhole LockedIsWhole OffsetsAdd WaitsForMessage
SYMMETRY ProcessSymmetry
CHECK_DEADLOCK FALSE
