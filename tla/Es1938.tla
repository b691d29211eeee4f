------------------------------- MODULE Es1938 -------------------------------
(***************************************************************************)
(* The sound driver Sound/es1938.c: three PCM streams over two channels of *)
(* the chip, the mixer controls and the shared interrupt handler.          *)
(*                                                                         *)
(* Every callback is a program, the sequence of its accesses to the chip   *)
(* and to chip->active; the actions below run one access of one thread at  *)
(* a time. Two of the chip's port pairs are indexed, the mixer (address,   *)
(* data) and the controller (command, value): an access selects a register *)
(* and then moves its data, under mixer_lock or reg_lock. Registers        *)
(* hold fields; what a stream writes is named after it. What the FIFOs     *)
(* hold is left out, snd_es1938_reset_fifo with it.                        *)
(***************************************************************************)
EXTENDS Naturals, Sequences, FiniteSets, TLC

CONSTANTS
    Used,        \* the streams that are opened
    CtlThreads,  \* processes that use the mixer controls
    Controls,    \* the controls they use
    MaxBusy      \* callbacks under way at once

AudioOne == {"capture", "playback2"}      \* ADC1, DAC1
Streams == AudioOne \union {"playback1"}  \* DAC2
Threads == Streams \union CtlThreads \union {"irq"}
Levels == {"low", "high"}

\* an entry of each kind of snd_es1938_controls
KnownControls == {"Master Volume", "Master Switch", "Hardware Volume", "Split", "Capture Switch",
                  "Capture Source", "Capture Volume", "Record Monitor", "3D"}

ASSUME UsedAssumption == Used \subseteq Streams
ASSUME ControlsAssumption == Controls \subseteq KnownControls
ASSUME CtlThreadsAssumption == CtlThreads \intersect (Streams \union {"irq", "free"}) = {}

VARIABLES
    \* struct es1938: active; the substreams that are not NULL; whose values
    \* dma1_size, dma1_start and dma1_shift are; the holders of its locks
    active, substreams, dma1, lock,
    \* the chip: selected and stored registers of each port pair, the DMA
    \* controller of channel 1, channel 2's DMA, and its interrupts
    selected, regs, dmac, mode2, dma2, asserted,
    \* the PCM core: the last callback of each stream, its DMA buffer
    pcm, buffer,
    \* per thread: accesses still to do, step within one, and what it has read
    todo, step, seen, loaded,
    \* history: what the accesses meant the registers to hold; streams whose
    \* triggers overlapped another's; periods not yet reported; controls put
    \* by two at once
    meant, raced, owed, mixed

privVars == <<active, substreams, dma1>>
chipVars == <<dmac, mode2, dma2, asserted>>
busVars  == <<lock, selected, regs, meant>>
coreVars == <<pcm, buffer>>
runVars  == <<todo, step, seen, loaded>>
history  == <<raced, owed, mixed>>
vars == <<privVars, chipVars, busVars, coreVars, runVars, history>>

\* setup: sample rate, filter, counter and format of a channel (0x70-0x76; 0xa1,
\* 0xa2, 0xa4, 0xa5, 0xb6, 0xb7)
Fields ==
    [mixer |-> [setup |-> {"all"}, control1 |-> {"all"}, control2 |-> {"format", "irq"},
                left |-> {"level", "mute"}, right |-> {"level", "mute"},
                hwleft |-> {"level", "mute"}, hwright |-> {"level", "mute"},
                recsrc |-> {"mux", "switch"}, spatial |-> {"on"}, split |-> {"on"},
                volumeirq |-> {"all"}],
     command |-> [setup |-> {"all"}, analog |-> {"mono", "monitor"},
                  reclevel |-> {"level"}, dmacontrol |-> {"all"}]]
Buses == DOMAIN Fields

\* snd_es1938_reset leaves the registers at their defaults
Cleared(bus) == [r \in DOMAIN Fields[bus] |->
                   [f \in Fields[bus][r] |-> IF f \in {"level", "mute", "mux", "switch", "on",
                                                       "monitor"} THEN "low" ELSE "none"]]

Init ==
    /\ active = {} /\ substreams = {} /\ dma1 = "none"
    /\ lock = [b \in Buses |-> "free"] /\ selected = [b \in Buses |-> "none"]
    /\ regs = [b \in Buses |-> Cleared(b)] /\ meant = regs
    /\ dmac = [owner |-> "none", masked |-> TRUE]
    /\ mode2 = FALSE /\ dma2 = "none" /\ asserted = {}
    /\ pcm = [s \in Streams |-> "close"] /\ buffer = {}
    /\ todo = [t \in Threads |-> <<>>] /\ step = [t \in Threads |-> "select"]
    /\ seen = [t \in Threads |-> <<>>] /\ loaded = [t \in Threads |-> {}]
    /\ raced = {} /\ owed = {} /\ mixed = {}

-----------------------------------------------------------------------------
(* Accesses.                                                               *)

Access(do, bus, reg, field, val) ==
    [do |-> do, bus |-> bus, reg |-> reg, field |-> field, val |-> val]

mixer_write(reg, val)       == Access("write", "mixer", reg, "none", val)
mixer_read(reg)             == Access("read", "mixer", reg, "none", "none")
mixer_bits(reg, field, val) == Access("bits", "mixer", reg, field, val)
write(reg, val)             == Access("write", "command", reg, "none", val)
read(reg)                   == Access("read", "command", reg, "none", "none")
bits(reg, field, val)       == Access("bits", "command", reg, field, val)

\* the rest of the program only where the field differs
mixer_differs(reg, field, val) == Access("differs", "mixer", reg, field, val)

\* an access to something else
Do(what, s) == Access(what, "none", "none", "none", s)

-----------------------------------------------------------------------------
(* Callbacks of the streams.                                               *)

\* sample rate and filter, counter, format: each two or three registers that
\* only a prepare of the same channel writes, one after the other
rate_set(s) == IF s = "playback1" THEN mixer_write("setup", s) ELSE write("setup", s)

playback1_setdma == <<Do("mode2off", "none"), Do("dma2", "playback1")>>
playback2_setdma == <<Do("mask", "none"), Do("program", "none"), Do("unmask", "none")>>
capture_setdma   == <<Do("mask", "none"), Do("program", "none"), Do("unmask", "none")>>

capture_prepare ==
    <<Do("dma1", "capture"), bits("analog", "mono", "capture"), rate_set("capture"),
      write("setup", "capture"), write("setup", "capture")>> \o capture_setdma

playback2_prepare ==
    <<Do("dma1", "playback2"), bits("analog", "mono", "playback2"), rate_set("playback2"),
      write("setup", "playback2"), write("setup", "playback2")>> \o playback2_setdma

playback1_prepare ==
    <<rate_set("playback1"), mixer_write("setup", "playback1"),
      mixer_write("control2", "none")>> \o playback1_setdma

Prepare(s) == CASE s = "capture" -> capture_prepare
                [] s = "playback1" -> playback1_prepare
                [] s = "playback2" -> playback2_prepare

capture_trigger(start) ==
    <<Do("load", "none"), Do(IF start THEN "or" ELSE "andnot", "capture"),
      write("dmacontrol", IF start THEN "capture" ELSE "none")>>

\* mutant: stopping leaves the bit of active
playback2_triggerKeeps(start) ==
    (IF start THEN <<Do("load", "none"), Do("or", "playback2")>> ELSE <<>>)
      \o <<write("dmacontrol", IF start THEN "playback2" ELSE "none")>>

playback2_trigger(start) ==
    <<Do("load", "none"), Do(IF start THEN "or" ELSE "andnot", "playback2"),
      write("dmacontrol", IF start THEN "playback2" ELSE "none")>>

playback1_trigger(start) ==
    IF start
      THEN <<mixer_write("control1", "settle"), mixer_write("control1", "playback1"),
             Do("mode2on", "none"), Do("load", "none"), Do("or", "playback1")>>
      ELSE <<Do("mode2off", "none"), mixer_write("control1", "none"),
             Do("load", "none"), Do("andnot", "playback1")>>

Trigger(s, start) == CASE s = "capture" -> capture_trigger(start)
                       [] s = "playback1" -> playback1_trigger(start)
                       [] s = "playback2" -> playback2_trigger(start)

-----------------------------------------------------------------------------
(* Callbacks of the controls.                                              *)

\* mutant: the right register only if the left one changed
put_doubleShort(reg1, reg2, field, val) ==
    <<mixer_differs(reg1, field, val), mixer_bits(reg1, field, val), mixer_bits(reg2, field, val)>>

put_double(reg1, reg2, field, val) ==
    <<mixer_bits(reg1, field, val), mixer_bits(reg2, field, val)>>
put_single(reg, field, val) == <<mixer_bits(reg, field, val)>>
put_mux(val) == <<mixer_bits("recsrc", "mux", val)>>
put_spatializer_enable(val) ==
    <<mixer_differs("spatial", "on", val), mixer_write("spatial", val),
      mixer_write("spatial", val)>>

\* analog and reclevel are registers of the controller (reg >= 0xa0)
Put(control, val) ==
    CASE control = "Master Volume"  -> put_double("left", "right", "level", val)
      [] control = "Master Switch"  -> put_double("left", "right", "mute", val)
      [] control = "Split"          -> put_single("split", "on", val)
      [] control = "Capture Switch" -> put_single("recsrc", "switch", val)
      [] control = "Capture Source" -> put_mux(val)
      [] control = "3D"             -> put_spatializer_enable(val)
      [] control = "Record Monitor" -> <<bits("analog", "monitor", val)>>
      [] control = "Capture Volume" -> <<bits("reclevel", "level", val)>>

get_double(reg1, reg2) == <<mixer_read(reg1), mixer_read(reg2)>>
get_hw_volume == <<mixer_read("hwleft"), mixer_read("hwright")>>

Get(control) ==
    CASE control \in {"Record Monitor"} -> <<read("analog")>>
      [] control \in {"Capture Volume"} -> <<read("reclevel")>>
      [] control \in {"Master Volume", "Master Switch"} -> get_double("left", "right")
      [] control = "Hardware Volume" -> get_hw_volume
      [] control \in {"Capture Switch", "Capture Source"} -> <<mixer_read("recsrc")>>
      [] control = "3D"    -> <<mixer_read("spatial")>>
      [] control = "Split" -> <<mixer_read("split")>>

-----------------------------------------------------------------------------
(* The interrupt handler.                                                  *)

Status == asserted \union (IF regs.mixer.control2["irq"] = "set" THEN {"audio2"} ELSE {})

\* mutant: the request is taken back after the stream was told
interruptAcksLate(status) ==
    (IF "audio1" \in status THEN <<Do("test1", "none"), Do("ack1", "none")>> ELSE <<>>)
      \o (IF "audio2" \in status THEN <<mixer_bits("control2", "irq", "none"),
                                        Do("test2", "none")>> ELSE <<>>)
      \o (IF "volume" \in status THEN <<mixer_read("split"),
                                        mixer_write("volumeirq", "none")>> ELSE <<>>)

interrupt(status) ==
    (IF "audio1" \in status THEN <<Do("ack1", "none"), Do("test1", "none")>> ELSE <<>>)
      \o (IF "audio2" \in status THEN <<mixer_bits("control2", "irq", "none"),
                                        Do("test2", "none")>> ELSE <<>>)
      \o (IF "volume" \in status THEN <<mixer_read("split"),
                                        mixer_write("volumeirq", "none")>> ELSE <<>>)

-----------------------------------------------------------------------------
(* Running an access.                                                      *)

Idle(t) == todo[t] = <<>>
OnBus(t) == ~Idle(t) /\ Head(todo[t]).bus # "none"
Next1(t) == Head(todo[t])
Pops(t) == todo' = [todo EXCEPT ![t] = Tail(@)] /\ step' = [step EXCEPT ![t] = "select"]

\* mutant: without the lock
SelectUnlocked(t) ==
    LET b == Next1(t).bus IN
    /\ OnBus(t) /\ step[t] = "select"
    /\ selected' = [selected EXCEPT ![b] = Next1(t).reg]
    /\ step' = [step EXCEPT ![t] = "data"]
    /\ UNCHANGED <<privVars, chipVars, coreVars, history, lock, regs, meant, todo, seen, loaded>>

\* the lock, and the register goes to the address or command port
Select(t) ==
    LET b == Next1(t).bus IN
    /\ OnBus(t) /\ step[t] = "select" /\ lock[b] = "free"
    /\ lock' = [lock EXCEPT ![b] = t]
    /\ selected' = [selected EXCEPT ![b] = Next1(t).reg]
    /\ step' = [step EXCEPT ![t] = "data"]
    /\ UNCHANGED <<privVars, chipVars, coreVars, history, regs, meant, todo, seen, loaded>>

\* the lock; nobody relies on a selection once no access is under way
Release(t) ==
    LET b == Next1(t).bus IN
    /\ lock' = [lock EXCEPT ![b] = "free"]
    /\ selected' = IF \E u \in Threads \ {t} : OnBus(u) /\ Next1(u).bus = b /\ step[u] # "select"
                     THEN selected ELSE [selected EXCEPT ![b] = "none"]

\* a value goes to whatever register is selected
Stores(b, value) == regs' = [regs EXCEPT ![b][selected[b]] = value]
Whole(b, reg, val) == [f \in Fields[b][reg] |-> val]

WriteData(t) ==
    LET a == Next1(t) IN
    /\ OnBus(t) /\ step[t] = "data" /\ a.do = "write"
    /\ Stores(a.bus, Whole(a.bus, selected[a.bus], a.val))
    /\ meant' = [meant EXCEPT ![a.bus][a.reg] = Whole(a.bus, a.reg, a.val)]
    /\ Release(t)
    /\ asserted' = IF a.reg = "volumeirq" THEN asserted \ {"volume"} ELSE asserted
    /\ Pops(t)
    /\ UNCHANGED <<privVars, coreVars, history, dmac, mode2, dma2, seen, loaded>>

\* data of the selected register; a "bits" access stores it back only where the
\* field differs
ReadData(t) ==
    LET a == Next1(t)
        v == regs[a.bus][selected[a.bus]]
        same == a.do # "read" /\ a.field \in DOMAIN v /\ v[a.field] = a.val
        stores == a.do = "bits" /\ ~same IN
    /\ OnBus(t) /\ step[t] = "data" /\ a.do # "write"
    /\ IF stores
         THEN /\ seen' = [seen EXCEPT ![t] = v] /\ step' = [step EXCEPT ![t] = "store"]
              /\ UNCHANGED <<todo, lock, selected>>
         ELSE /\ Release(t)
              /\ step' = [step EXCEPT ![t] = "select"]
              /\ todo' = [todo EXCEPT ![t] = IF a.do = "differs" /\ same THEN <<>> ELSE Tail(@)]
              /\ UNCHANGED seen
    /\ UNCHANGED <<privVars, chipVars, coreVars, history, regs, meant, loaded>>

StoreBits(t) ==
    LET a == Next1(t) IN
    /\ OnBus(t) /\ step[t] = "store"
    /\ Stores(a.bus, [seen[t] EXCEPT ![a.field] = a.val])
    /\ meant' = [meant EXCEPT ![a.bus][a.reg][a.field] = a.val]
    /\ Release(t)
    /\ seen' = [seen EXCEPT ![t] = <<>>]
    /\ Pops(t)
    /\ UNCHANGED <<privVars, chipVars, coreVars, history, loaded>>

Is(t, what) == ~Idle(t) /\ Next1(t).do = what

\* dma1_size, dma1_start and dma1_shift of the stream
SetDma1(t) ==
    /\ Is(t, "dma1") /\ dma1' = Next1(t).val /\ Pops(t)
    /\ UNCHANGED <<active, substreams, chipVars, busVars, coreVars, history, seen, loaded>>

\* the DMA controller of channel 1 takes the values of the driver
ProgramDmac(t) ==
    /\ \/ Is(t, "mask")    /\ dmac' = [dmac EXCEPT !.masked = TRUE]
       \/ Is(t, "program") /\ dmac' = [dmac EXCEPT !.owner = dma1]
       \/ Is(t, "unmask")  /\ dmac' = [dmac EXCEPT !.masked = FALSE]
    /\ Pops(t)
    /\ UNCHANGED <<privVars, mode2, dma2, asserted, busVars, coreVars, history, seen, loaded>>

ProgramDma2(t) ==
    /\ \/ Is(t, "mode2off") /\ mode2' = FALSE /\ UNCHANGED dma2
       \/ Is(t, "mode2on")  /\ mode2' = TRUE  /\ UNCHANGED dma2
       \/ Is(t, "dma2")     /\ dma2' = Next1(t).val /\ UNCHANGED mode2
    /\ Pops(t)
    /\ UNCHANGED <<privVars, dmac, asserted, busVars, coreVars, history, seen, loaded>>

\* chip->active |= bit and &= ~bit: a load and a store, under no lock that the
\* triggers of two streams share
InUpdate == {s \in Streams : Is(s, "or") \/ Is(s, "andnot")}

LoadActive(t) ==
    /\ Is(t, "load") /\ loaded' = [loaded EXCEPT ![t] = active] /\ Pops(t)
    /\ raced' = IF InUpdate = {} THEN raced \ {t} ELSE raced \union InUpdate \union {t}
    /\ UNCHANGED <<privVars, chipVars, busVars, coreVars, owed, mixed, seen>>

StoreActive(t) ==
    /\ \/ Is(t, "or")     /\ active' = loaded[t] \union {Next1(t).val}
       \/ Is(t, "andnot") /\ active' = loaded[t] \ {Next1(t).val}
    /\ loaded' = [loaded EXCEPT ![t] = {}] /\ Pops(t)
    /\ UNCHANGED <<substreams, dma1, chipVars, busVars, coreVars, history, seen>>

-----------------------------------------------------------------------------
(* The handler beside its accesses.                                        *)

Busy == {t \in Threads : ~Idle(t)}
Room == Cardinality(Busy) < MaxBusy
InTrigger(s) == pcm[s] \in {"start", "stop"} /\ ~Idle(s)    \* holds the stream's lock

Starts(t, program) == todo' = [todo EXCEPT ![t] = program]

Interrupt ==
    /\ Idle("irq") /\ Room /\ Status # {}
    /\ Starts("irq", interrupt(Status))
    /\ UNCHANGED <<privVars, chipVars, busVars, coreVars, history, step, seen, loaded>>

\* reading the status port takes the request back
AckAudio1 ==
    /\ Is("irq", "ack1") /\ asserted' = asserted \ {"audio1"} /\ Pops("irq")
    /\ UNCHANGED <<privVars, dmac, mode2, dma2, busVars, coreVars, history, seen, loaded>>

Reporting(s) == Starts("irq", <<Do("elapse", s)>> \o Tail(todo["irq"]))
Ignores == Starts("irq", Tail(todo["irq"]))

TestActive ==
    /\ \/ /\ Is("irq", "test1")
          /\ IF "capture" \in active THEN Reporting("capture")
             ELSE IF "playback2" \in active THEN Reporting("playback2") ELSE Ignores
       \/ /\ Is("irq", "test2")
          /\ IF "playback1" \in active THEN Reporting("playback1") ELSE Ignores
    /\ UNCHANGED <<privVars, chipVars, busVars, coreVars, history, step, seen, loaded>>

\* snd_pcm_period_elapsed of a substream that may be NULL by now
PeriodElapsed ==
    /\ Is("irq", "elapse") /\ ~InTrigger(Next1("irq").val)
    /\ owed' = owed \ (substreams \intersect {Next1("irq").val})
    /\ Pops("irq")
    /\ UNCHANGED <<privVars, chipVars, busVars, coreVars, raced, mixed, seen, loaded>>

-----------------------------------------------------------------------------
(* The PCM core calls the streams. Opens and closes are serialised by its  *)
(* open_mutex, the callbacks of one stream by the stream's own state.      *)

Begins(s, op) == Idle(s) /\ pcm' = [pcm EXCEPT ![s] = op]

capture_open ==
    /\ Begins("capture", "open") /\ pcm["capture"] = "close"
    /\ "playback2" \notin substreams
    /\ substreams' = substreams \union {"capture"}

\* mutant: the second playback stream opens whatever the capture stream does
playback_openAnyway(s) ==
    /\ s # "capture" /\ Begins(s, "open") /\ pcm[s] = "close"
    /\ substreams' = substreams \union {s}

playback_open(s) ==
    /\ s # "capture" /\ Begins(s, "open") /\ pcm[s] = "close"
    /\ s = "playback2" => "capture" \notin substreams
    /\ substreams' = substreams \union {s}

Open(s) ==
    /\ IF s = "capture" THEN capture_open ELSE playback_open(s)
    /\ UNCHANGED <<active, dma1, chipVars, busVars, buffer, runVars, history>>

Close(s) ==
    /\ Begins(s, "close") /\ pcm[s] \in {"open", "hw_free"}
    /\ substreams' = substreams \ {s}
    /\ UNCHANGED <<active, dma1, chipVars, busVars, buffer, runVars, history>>

hw_params(s) ==
    /\ Begins(s, "hw_params") /\ pcm[s] \in {"open", "hw_free"}
    /\ buffer' = buffer \union {s}
    /\ UNCHANGED <<privVars, chipVars, busVars, runVars, history>>

hw_free(s) ==
    /\ Begins(s, "hw_free") /\ pcm[s] \in {"hw_params", "prepare", "stop"}
    /\ buffer' = buffer \ {s}
    /\ UNCHANGED <<privVars, chipVars, busVars, runVars, history>>

CallPrepare(s) ==
    /\ Begins(s, "prepare") /\ pcm[s] \in {"hw_params", "prepare", "stop"}
    /\ Room /\ Starts(s, Prepare(s))
    /\ UNCHANGED <<privVars, chipVars, busVars, buffer, step, seen, loaded, history>>

CallTrigger(s) ==
    /\ \/ Begins(s, "start") /\ pcm[s] = "prepare" /\ UNCHANGED owed
       \/ Begins(s, "stop") /\ pcm[s] = "start" /\ owed' = owed \ {s}
    /\ Room /\ Starts(s, Trigger(s, pcm'[s] = "start"))
    /\ UNCHANGED <<privVars, chipVars, busVars, buffer, step, seen, loaded, raced, mixed>>

-----------------------------------------------------------------------------
(* Processes use the controls.                                             *)

Doubled == {"Master Volume"}              \* the control the history follows
Meanwhile(t) == \E u \in CtlThreads \ {t} : \E i \in DOMAIN todo[u] :
                  todo[u][i].reg \in {"left", "right"} /\ todo[u][i].field = "level"

CallPut(t, control, val) ==
    /\ Idle(t) /\ Room /\ control # "Hardware Volume" /\ Starts(t, Put(control, val))
    /\ mixed' = IF control \notin Doubled THEN mixed
                ELSE IF Meanwhile(t) THEN Doubled ELSE {}
    /\ UNCHANGED <<privVars, chipVars, busVars, coreVars, step, seen, loaded, raced, owed>>

CallGet(t, control) ==
    /\ Idle(t) /\ Room /\ Starts(t, Get(control))
    /\ UNCHANGED <<privVars, chipVars, busVars, coreVars, step, seen, loaded, history>>

-----------------------------------------------------------------------------
(* The chip.                                                               *)

\* the stream in whose direction the channel moves data
Transfers1 == regs.command.dmacontrol["all"]
Transfers2 == mode2 /\ regs.mixer.control1["all"] = "playback1"

Owes(s) == owed' = IF pcm[s] = "start" /\ ~InTrigger(s) THEN owed \union {s} ELSE owed

\* a period ends
PeriodEnds(s) ==
    /\ \/ /\ s = Transfers1
          /\ asserted' = asserted \union {"audio1"} /\ UNCHANGED <<regs, meant>>
       \/ /\ s = "playback1" /\ Transfers2
          /\ regs' = [regs EXCEPT !["mixer"]["control2"]["irq"] = "set"]
          /\ meant' = [meant EXCEPT !["mixer"]["control2"]["irq"] = "set"]
          /\ UNCHANGED asserted
    /\ Owes(s)
    /\ UNCHANGED <<privVars, dmac, mode2, dma2, lock, selected, coreVars, runVars, raced, mixed>>

\* the volume buttons
Buttons ==
    /\ "Hardware Volume" \in Controls /\ asserted' = asserted \union {"volume"}
    /\ UNCHANGED <<privVars, dmac, mode2, dma2, busVars, coreVars, runVars, history>>

-----------------------------------------------------------------------------

Runs(t) ==
    \/ Select(t) \/ WriteData(t) \/ ReadData(t) \/ StoreBits(t)
    \/ SetDma1(t) \/ ProgramDmac(t) \/ ProgramDma2(t) \/ LoadActive(t) \/ StoreActive(t)

Handler == Runs("irq") \/ AckAudio1 \/ TestActive \/ PeriodElapsed

CoreCalls(s) ==
    Open(s) \/ Close(s) \/ hw_params(s) \/ hw_free(s) \/ CallPrepare(s) \/ CallTrigger(s)

Next ==
    \/ Handler \/ Interrupt \/ Buttons
    \/ \E s \in Used : CoreCalls(s) \/ Runs(s) \/ PeriodEnds(s)
    \/ \E t \in CtlThreads :
         \/ Runs(t)
         \/ \E c \in Controls : CallGet(t, c) \/ \E v \in Levels : CallPut(t, c, v)

Spec == Init /\ [][Next]_vars

\* the processes at the mixer are interchangeable
CtlSymmetry == Permutations(CtlThreads)

-----------------------------------------------------------------------------
(* Properties.                                                             *)

TypeOK ==
    /\ active \subseteq Streams /\ substreams \subseteq Streams
    /\ dma1 \in AudioOne \union {"none"}
    /\ lock \in [Buses -> Threads \union {"free"}]
    /\ dmac \in [owner : AudioOne \union {"none"}, masked : BOOLEAN]
    /\ mode2 \in BOOLEAN /\ dma2 \in {"none", "playback1"}
    /\ asserted \subseteq {"audio1", "volume"}
    /\ pcm \in [Streams -> {"close", "open", "hw_params", "prepare", "start", "stop", "hw_free"}]
    /\ buffer \subseteq Streams
    /\ step \in [Threads -> {"select", "data", "store"}]
    /\ loaded \in [Threads -> SUBSET Streams]

\* Whatever two callbacks do at once, a register holds what the last access to
\* it meant it to hold, none is lost or goes to another register.
RegistersMeant == \A b \in Buses : lock[b] = "free" => regs[b] = meant[b]

\* A channel that transfers does so for a stream that is open and started, in
\* that stream's own buffer and with the rate, format and counter of its
\* prepare; for channel 1 that means the stream the driver's dma1 values are of.
TransfersItsOwn ==
    /\ \A s \in AudioOne : Transfers1 = s =>
         /\ pcm[s] \in {"start", "stop"} /\ s \in substreams \intersect buffer
         /\ dmac = [owner |-> s, masked |-> FALSE] /\ dma1 = s
         /\ regs.command.setup["all"] = s /\ regs.command.analog["mono"] = s
    /\ mode2 => /\ pcm["playback1"] \in {"start", "stop"}
                /\ "playback1" \in substreams \intersect buffer /\ dma2 = "playback1"
                /\ regs.mixer.setup["all"] = "playback1"

\* chip->active says which streams run, for those whose trigger overlapped no
\* other; for the others the unlocked update may have lost the bit.
ActiveTellsRunning ==
    \A s \in Streams \ raced :
      ~InTrigger(s) => (s \in active <=> pcm[s] = "start")

\* Once the handler is done no period of a running stream is left unreported:
\* it was reported, or its interrupt is asserted again. The bit of the stream may
\* have been lost, though, and a bit of the other stream of channel 1 left behind
\* takes the reports of both.
NoPeriodMissed ==
    \A s \in owed :
      \/ ~Idle("irq") \/ s \in raced
      \/ s \in AudioOne /\ ("audio1" \in Status \/ raced \intersect AudioOne # {})
      \/ s = "playback1" /\ "audio2" \in Status

\* Left and right of the master volume come from the same put, unless two puts
\* overlapped.
StereoTogether ==
    (mixed = {} /\ \A t \in CtlThreads : Idle(t))
      => regs.mixer.left["level"] = regs.mixer.right["level"]
=============================================================================
