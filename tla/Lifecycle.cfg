CONSTANT
    Chosen = {"char_dev", "chardev_minor", "chardev_sync", "chardrv_lock", "chardrv_seqlock", "chardev_poll", "chardrv_ioctl", "charioctl", "mycharS", "mycharD", "mycharPer", "mychar_udev", "mychar_reg", "mychar_misc", "rtc_chardrv", "clock", "rtc_ioctl", "apic_ioctl", "proc_skel", "rtc_proc", "sysfs_skel", "rtc_sync", "rtc_sysfs", "rtcsysfs_comman", "apic_sysfs", "mmap_skel", "blk_drv", "ramblk_drv", "ramblock_drv", "work_priv", "work_queue", "notifierhook", "input_dev", "ttyled_blink", "rtl8139", "rtl8150", "kbd", "mouse", "btusb", "es1938", "usb_storage"}
SPECIFICATION Spec
INVARIANTS
    NothingLeft
    HeldWhenReleased
    CalledWhenReady
