---------------------------- MODULE Es1938Proofs ----------------------------
(***************************************************************************)
(* Proofs about Es1938, for any streams in use, processes at the mixer,    *)
(* controls and callbacks under way: type correctness and the five safety  *)
(* invariants of its runs. A callback is a program whose rest is in todo,  *)
(* so the inductive invariant (IInv) speaks of what that rest still holds: *)
(*   Programs   whose accesses they are, and in which order;               *)
(*   Chip       registers as they are meant, and as a lock's holder read   *)
(*              them (Locked);                                             *)
(*   Core       which streams are open, with which buffer;                 *)
(*   Bits       chip->active, and the copies of it that triggers hold;     *)
(*   Prepared   what a prepare has set up, or has still to set up;         *)
(*   Transfers  a channel that runs, or that a stop has still to halt;     *)
(*   Owed       the way by which each ended period will be reported;       *)
(*   Stereo     at most one put of the master volume under way.            *)
(* First come lemmas on what each callback accesses (StreamMade, IrqMade,  *)
(* CtlMade, together Made), then one on each part: every step keeps it.    *)
(***************************************************************************)
EXTENDS Es1938, SequenceTheorems, TLAPS

\* What a stream accesses in a callback
PrepareAccesses(s) ==
    IF s = "playback1"
      THEN {mixer_write("setup", s), mixer_write("control2", "none"),
            Do("mode2off", "none"), Do("dma2", s)}
      ELSE {Do("dma1", s), bits("analog", "mono", s), write("setup", s),
            Do("mask", "none"), Do("program", "none"), Do("unmask", "none")}
StartAccesses(s) ==
    IF s = "playback1"
      THEN {mixer_write("control1", "settle"), mixer_write("control1", s),
            Do("mode2on", "none"), Do("load", "none"), Do("or", s)}
      ELSE {Do("load", "none"), Do("or", s), write("dmacontrol", s)}
StopAccesses(s) ==
    IF s = "playback1"
      THEN {Do("mode2off", "none"), mixer_write("control1", "none"), Do("load", "none"), Do("andnot", s)}
      ELSE {Do("load", "none"), Do("andnot", s), write("dmacontrol", "none")}

StreamAccesses(s, op) ==
    IF op = "prepare" THEN PrepareAccesses(s)
    ELSE IF op = "start" THEN StartAccesses(s)
    ELSE IF op = "stop" THEN StopAccesses(s) ELSE {}

Callbacks == {"prepare", "start", "stop"}

Updates == {"or", "andnot"}

\* in order: chip->active is loaded right before it is stored, once; the DMA controller is masked before
\* it is unmasked and takes the values of the driver after those are set
StreamOrder(p) ==
    \A i \in 1..Len(p) :
      /\ p[i].do = "load" => i < Len(p) /\ p[i + 1].do \in Updates
      /\ p[i].do \in Updates => /\ i > 1 => p[i - 1].do = "load"
                                /\ \A j \in 1..Len(p) : p[j].do \in Updates => j = i
      /\ p[i].do = "mask" => \E j \in i + 1..Len(p) : p[j].do = "unmask"
      /\ p[i].do = "program" => \A j \in i..Len(p) : p[j].do # "dma1"

IrqAccesses ==
    {Do("ack1", "none"), Do("test1", "none"), Do("test2", "none"), mixer_bits("control2", "irq", "none"),
     mixer_read("split"), mixer_write("volumeirq", "none")}
      \union {Do("elapse", s) : s \in Streams}

IrqOrder(p) ==
    \A i \in 1..Len(p) :
      /\ p[i].do = "ack1" => \E j \in i + 1..Len(p) : p[j].do = "test1"
      /\ p[i].do = "bits" => \E j \in i + 1..Len(p) : p[j].do = "test2"

PutAccesses(v) ==
    {mixer_bits("left", "mute", v), mixer_bits("right", "mute", v), mixer_bits("split", "on", v),
     mixer_bits("recsrc", "mux", v), mixer_bits("recsrc", "switch", v),
     mixer_differs("spatial", "on", v), mixer_write("spatial", v),
     bits("analog", "monitor", v), bits("reclevel", "level", v)}
GetAccesses ==
    {mixer_read("left"), mixer_read("right"), mixer_read("hwleft"), mixer_read("hwright"),
     mixer_read("recsrc"), mixer_read("spatial"), mixer_read("split"),
     read("analog"), read("reclevel")}
CtlAccesses == PutAccesses("low") \union PutAccesses("high") \union GetAccesses

Left(v)  == mixer_bits("left", "level", v)
Right(v) == mixer_bits("right", "level", v)

CtlPrograms == Seq(CtlAccesses) \union {<<Left(v), Right(v)>> : v \in Levels}
                                \union {<<Right(v)>> : v \in Levels}

OnChip == {"read", "write", "bits", "differs"}
Values == {"none", "low", "high", "set", "settle"} \union Streams

AccessesOf(s) == PrepareAccesses(s) \union StartAccesses(s) \union StopAccesses(s)
Accesses ==
    AccessesOf("capture") \union AccessesOf("playback1") \union AccessesOf("playback2")
      \union IrqAccesses \union CtlAccesses
      \union {Left("low"), Left("high"), Right("low"), Right("high")}

\* an access to a register of the chip names one that is there
WellFormed(a) ==
    IF a.bus = "none"
      THEN a.do \notin OnChip
      ELSE /\ a.do \in OnChip /\ a.bus \in Buses /\ a.reg \in DOMAIN Fields[a.bus]
           /\ a.do \in {"write", "bits"} => a.val \in Values
           /\ a.do = "bits" => /\ a.field \in Fields[a.bus][a.reg]
                               /\ a.reg = "control2" => a.field = "irq"

Programs ==
    /\ todo \in [Threads -> Seq(Accesses)]
    /\ \A s \in Streams : todo[s] \in Seq(StreamAccesses(s, pcm[s])) /\ StreamOrder(todo[s])
    /\ todo["irq"] \in Seq(IrqAccesses) /\ IrqOrder(todo["irq"])
    /\ \A t \in CtlThreads : todo[t] \in CtlPrograms

\* The registers
Shaped(r) ==
    /\ r = [b \in Buses |-> [x \in DOMAIN Fields[b] |-> r[b][x]]]
    /\ \A b \in Buses : \A x \in DOMAIN Fields[b] : r[b][x] \in [Fields[b][x] -> Values]

Locked ==
    \A t \in Threads : step[t] # "select" =>
      LET a == Next1(t) IN
      /\ OnBus(t) /\ lock[a.bus] = t /\ selected[a.bus] = a.reg
      /\ step[t] = "store" =>
           /\ a.do = "bits" /\ seen[t] \in [Fields[a.bus][a.reg] -> Values]
           /\ \A f \in Fields[a.bus][a.reg] \ {a.field} : seen[t][f] = regs[a.bus][a.reg][f]

Typed ==
    /\ TypeOK
    /\ DOMAIN seen = Threads /\ DOMAIN selected = Buses
    /\ raced \subseteq Streams

Chip == Shaped(regs) /\ meant = regs /\ Locked

\* Streams
HasDo(p, d) == \E i \in 1..Len(p) : p[i].do = d
HasReg(p, r) == \E i \in 1..Len(p) : p[i].reg = r
Pending(s) == HasDo(todo[s], "or") \/ HasDo(todo[s], "andnot")

Core ==
    /\ substreams = {s \in Streams : pcm[s] # "close"}
    /\ buffer = {s \in Streams : pcm[s] \in {"hw_params", "prepare", "start", "stop"}}
    /\ {"capture", "playback2"} \cap substreams # {"capture", "playback2"}

Bits ==
    /\ \A s \in Streams \ raced : ~Pending(s) => (s \in active <=> pcm[s] = "start")
    /\ \A t \in InUpdate : \A s \in Streams \ raced : s \in loaded[t] <=> s \in active
    /\ \A t, u \in InUpdate : t # u => t \in raced

\* the fields of the registers a stream relies on
Mono(r)     == r["command"]["analog"]["mono"]
Setup1(r)   == r["command"]["setup"]["all"]
Setup2(r)   == r["mixer"]["setup"]["all"]
Control1(r) == r["command"]["dmacontrol"]["all"]
Irq2(r)     == r["mixer"]["control2"]["irq"]

\* a prepare has set its channel up, but for what it still has to do
Ready1(s) ==
    /\ HasDo(todo[s], "dma1") \/ dma1 = s
    /\ HasReg(todo[s], "analog") \/ Mono(regs) = s
    /\ HasReg(todo[s], "setup") \/ Setup1(regs) = s
    /\ HasDo(todo[s], "program") \/ dmac.owner = s
    /\ HasDo(todo[s], "unmask") \/ ~dmac.masked
Ready2 ==
    /\ HasDo(todo["playback1"], "dma2") \/ dma2 = "playback1"
    /\ HasReg(todo["playback1"], "setup") \/ Setup2(regs) = "playback1"

Prepared ==
    /\ \A s \in AudioOne : pcm[s] \in Callbacks => Ready1(s)
    /\ pcm["playback1"] \in Callbacks => Ready2

Transfers ==
    /\ Control1(regs) # "playback1"
    /\ \A s \in AudioOne : Control1(regs) = s =>
         pcm[s] = "start" \/ (pcm[s] = "stop" /\ HasReg(todo[s], "dmacontrol"))
    /\ mode2 => \/ pcm["playback1"] = "start"
                \/ (pcm["playback1"] = "stop" /\ HasDo(todo["playback1"], "mode2off"))

Elapses(s) == \E i \in 1..Len(todo["irq"]) : todo["irq"][i] = Do("elapse", s)

\* the report of a period of s is under way, or the bit it needs was lost
Coming(s) ==
    /\ s \in AudioOne => \/ raced \intersect AudioOne # {}
                         \/ "audio1" \in asserted \/ HasDo(todo["irq"], "test1") \/ Elapses(s)
    /\ s = "playback1" => \/ s \in raced \/ Irq2(regs) = "set"
                          \/ HasDo(todo["irq"], "test2") \/ Elapses(s)

Owed == \A s \in owed : s \in Streams /\ pcm[s] = "start" /\ Idle(s) /\ Coming(s)

\* what is left of a put of the master volume
HasLevel(p) == \E i \in 1..Len(p) : p[i].reg \in {"left", "right"} /\ p[i].field = "level"
Level(t) == HasLevel(todo[t])
LevelL(r) == r["mixer"]["left"]["level"]
LevelR(r) == r["mixer"]["right"]["level"]

Stereo ==
    mixed = {} =>
      /\ \A t, u \in CtlThreads : Level(t) /\ Level(u) => t = u
      /\ (\A t \in CtlThreads : ~Level(t)) => LevelL(regs) = LevelR(regs)
      /\ \A t \in CtlThreads : \A v \in Levels : todo[t] = <<Right(v)>> => LevelL(regs) = v

IInv == Typed /\ Programs /\ Chip /\ Core /\ Bits /\ Prepared /\ Transfers /\ Owed /\ Stereo

-----------------------------------------------------------------------------
(* Programs.                                                               *)

LEMMA TailIs ==
    ASSUME NEW S, NEW p \in Seq(S), p # <<>>
    PROVE  /\ Len(p) \in Nat \ {0} /\ Head(p) = p[1] /\ Head(p) \in S
           /\ Tail(p) \in Seq(S) /\ Len(Tail(p)) = Len(p) - 1
           /\ \A i \in 1..Len(Tail(p)) : Tail(p)[i] = p[i + 1]
  OBVIOUS

LEMMA ConcatIs ==
    ASSUME NEW S, NEW p \in Seq(S), NEW q \in Seq(S)
    PROVE  /\ p \o q \in Seq(S) /\ Len(p \o q) = Len(p) + Len(q)
           /\ \A i \in 1..Len(p) : (p \o q)[i] = p[i]
           /\ \A i \in 1..Len(q) : (p \o q)[Len(p) + i] = q[i]
  OBVIOUS

LEMMA HasTail ==
    ASSUME NEW S, NEW p \in Seq(S), p # <<>>
    PROVE  /\ \A d : HasDo(p, d) <=> (Head(p).do = d \/ HasDo(Tail(p), d))
           /\ \A r : HasReg(p, r) <=> (Head(p).reg = r \/ HasReg(Tail(p), r))
<1>1. /\ Len(p) \in Nat \ {0} /\ Head(p) = p[1] /\ Len(Tail(p)) = Len(p) - 1
      /\ \A i \in 1..Len(Tail(p)) : Tail(p)[i] = p[i + 1]
  BY TailIs
<1>2. \A i \in 1..Len(p) : i = 1 \/ (i - 1 \in 1..Len(Tail(p)) /\ p[i] = Tail(p)[i - 1])
  BY <1>1
<1>3. \A i \in 1..Len(Tail(p)) : i + 1 \in 1..Len(p) /\ p[i + 1] = Tail(p)[i]
  BY <1>1
<1>4. 1 \in 1..Len(p) BY <1>1
<1> QED BY <1>1, <1>2, <1>3, <1>4, ZenonT(60) DEF HasDo, HasReg

LEMMA StreamTail ==
    ASSUME NEW S, NEW p \in Seq(S), p # <<>>, StreamOrder(p)
    PROVE  StreamOrder(Tail(p))
<1> DEFINE q == Tail(p)
<1>1. /\ Len(p) \in Nat \ {0} /\ Len(q) = Len(p) - 1
      /\ \A i \in 1..Len(q) : q[i] = p[i + 1]
  BY TailIs
<1> HIDE DEF q
<1>2. SUFFICES ASSUME NEW i \in 1..Len(q)
               PROVE  /\ q[i].do = "load" => i < Len(q) /\ q[i + 1].do \in Updates
                      /\ q[i].do \in Updates
                           => /\ i > 1 => q[i - 1].do = "load"
                              /\ \A j \in 1..Len(q) : q[j].do \in Updates => j = i
                      /\ q[i].do = "mask" => \E j \in i + 1..Len(q) : q[j].do = "unmask"
                      /\ q[i].do = "program" => \A j \in i..Len(q) : q[j].do # "dma1"
  BY DEF StreamOrder, q
<1>3. i + 1 \in 1..Len(p) /\ q[i] = p[i + 1] BY <1>1
<1>4. /\ q[i].do = "load" => i + 1 < Len(p) /\ p[i + 2].do \in Updates
      /\ q[i].do \in Updates => p[i].do = "load"
      /\ q[i].do \in Updates => \A j \in 1..Len(p) : p[j].do \in Updates => j = i + 1
      /\ q[i].do = "mask" => \E j \in i + 2..Len(p) : p[j].do = "unmask"
      /\ q[i].do = "program" => \A j \in i + 1..Len(p) : p[j].do # "dma1"
  BY <1>1, <1>3 DEF StreamOrder
<1>5. q[i].do = "load" => i < Len(q) /\ q[i + 1].do \in Updates BY <1>1, <1>4, SMTT(30)
<1>6. q[i].do \in Updates => (i > 1 => q[i - 1].do = "load") BY <1>1, <1>4
<1>7. q[i].do \in Updates => \A j \in 1..Len(q) : q[j].do \in Updates => j = i BY <1>1, <1>4,
     SMTT(30)
<1>8. q[i].do = "mask" => \E j \in i + 1..Len(q) : q[j].do = "unmask"
  <2>1. \A j \in i + 2..Len(p) : j - 1 \in i + 1..Len(q) /\ q[j - 1] = p[j] BY <1>1
  <2> QED BY <1>4, <2>1
<1>9. q[i].do = "program" => \A j \in i..Len(q) : q[j].do # "dma1"
  <2>1. \A j \in i..Len(q) : j + 1 \in i + 1..Len(p) /\ q[j] = p[j + 1] BY <1>1
  <2> QED BY <1>4, <2>1
<1> QED BY <1>5, <1>6, <1>7, <1>8, <1>9

LEMMA IrqTail ==
    ASSUME NEW S, NEW p \in Seq(S), p # <<>>, IrqOrder(p)
    PROVE  IrqOrder(Tail(p))
<1> DEFINE q == Tail(p)
<1>1. /\ Len(p) \in Nat \ {0} /\ Len(q) = Len(p) - 1
      /\ \A i \in 1..Len(q) : q[i] = p[i + 1]
  BY TailIs
<1> HIDE DEF q
<1>2. \A i \in 1..Len(q) : \A j \in i + 2..Len(p) : j - 1 \in i + 1..Len(q) /\ q[j - 1] = p[j]
  BY <1>1
<1>3. ASSUME NEW i \in 1..Len(q)
      PROVE  /\ q[i].do = "ack1" => \E j \in i + 2..Len(p) : p[j].do = "test1"
             /\ q[i].do = "bits" => \E j \in i + 2..Len(p) : p[j].do = "test2"
  <2>1. i + 1 \in 1..Len(p) /\ (i + 1) + 1 = i + 2 /\ q[i] = p[i + 1] BY <1>1
  <2>2. /\ p[i + 1].do = "ack1" => \E j \in (i + 1) + 1..Len(p) : p[j].do = "test1"
        /\ p[i + 1].do = "bits" => \E j \in (i + 1) + 1..Len(p) : p[j].do = "test2"
    BY <2>1, Zenon DEF IrqOrder
  <2> QED BY <2>1, <2>2
<1>4. ASSUME NEW i \in 1..Len(q), NEW d \in {"test1", "test2"}, \E j \in i + 2..Len(p) : p[j].do = d
      PROVE  \E j \in i + 1..Len(q) : q[j].do = d
  <2>1. PICK j \in i + 2..Len(p) : p[j].do = d BY <1>4
  <2>2. j - 1 \in i + 1..Len(q) /\ q[j - 1].do = d BY <1>2, <2>1
  <2> QED BY <2>2
<1>5. \A i \in 1..Len(q) :
        /\ q[i].do = "ack1" => \E j \in i + 1..Len(q) : q[j].do = "test1"
        /\ q[i].do = "bits" => \E j \in i + 1..Len(q) : q[j].do = "test2"
  <2>1. ASSUME NEW i \in 1..Len(q), q[i].do = "ack1"
        PROVE  \E j \in i + 1..Len(q) : q[j].do = "test1"
    BY <1>3, <1>4, <2>1
  <2>2. ASSUME NEW i \in 1..Len(q), q[i].do = "bits"
        PROVE  \E j \in i + 1..Len(q) : q[j].do = "test2"
    BY <1>3, <1>4, <2>2
  <2> QED BY <2>1, <2>2
<1> QED BY <1>5 DEF IrqOrder, q

LEMMA StreamPrograms ==
    /\ \A s \in Streams : /\ Prepare(s) \in Seq(StreamAccesses(s, "prepare"))
                          /\ StreamOrder(Prepare(s)) /\ Prepare(s) # <<>>
    /\ \A s \in Streams : /\ Trigger(s, TRUE) \in Seq(StreamAccesses(s, "start"))
                          /\ StreamOrder(Trigger(s, TRUE)) /\ Trigger(s, TRUE) # <<>>
    /\ \A s \in Streams : /\ Trigger(s, FALSE) \in Seq(StreamAccesses(s, "stop"))
                          /\ StreamOrder(Trigger(s, FALSE)) /\ Trigger(s, FALSE) # <<>>
<1> USE DEF mixer_write, write, bits, Do, Access
<1>1. /\ Prepare("capture") = capture_prepare /\ Prepare("playback1") = playback1_prepare
      /\ Prepare("playback2") = playback2_prepare
  BY DEF Prepare
<1>2. ASSUME NEW start \in BOOLEAN
      PROVE  /\ Trigger("capture", start) = capture_trigger(start)
             /\ Trigger("playback1", start) = playback1_trigger(start)
             /\ Trigger("playback2", start) = playback2_trigger(start)
  BY DEF Trigger
<1>3. ASSUME NEW s \in AudioOne
      PROVE  LET p == <<Do("dma1", s), bits("analog", "mono", s), write("setup", s),
                        write("setup", s), write("setup", s)>>
                       \o <<Do("mask", "none"), Do("program", "none"), Do("unmask", "none")>>
             IN  StreamOrder(p) /\ p # <<>>
  <2> DEFINE S == {Do("dma1", s), bits("analog", "mono", s), write("setup", s),
                   Do("mask", "none"), Do("program", "none"), Do("unmask", "none")}
             p == <<Do("dma1", s), bits("analog", "mono", s), write("setup", s),
                    write("setup", s), write("setup", s)>>
             q == <<Do("mask", "none"), Do("program", "none"), Do("unmask", "none")>>
             r == p \o q
  <2>1. /\ Len(p) = 5 /\ p[1].do = "dma1" /\ p[2].do = "bits" /\ p[3].do = "write"
        /\ p[4].do = "write" /\ p[5].do = "write"
    OBVIOUS
  <2>2. Len(q) = 3 /\ q[1].do = "mask" /\ q[2].do = "program" /\ q[3].do = "unmask"
    OBVIOUS
  <2>3. p \in Seq(S) /\ q \in Seq(S) OBVIOUS
  <2> HIDE DEF S, p, q
  <2>4. /\ r \in Seq(S) /\ Len(r) = 8
        /\ r[1] = p[1] /\ r[2] = p[2] /\ r[3] = p[3] /\ r[4] = p[4]
        /\ r[5] = p[5] /\ r[6] = q[1] /\ r[7] = q[2] /\ r[8] = q[3]
    <3>1. /\ r \in Seq(S) /\ Len(r) = Len(p) + Len(q)
          /\ \A i \in 1..Len(p) : r[i] = p[i]
          /\ \A i \in 1..Len(q) : r[Len(p) + i] = q[i]
      BY <2>3, ConcatIs
    <3> HIDE DEF r
    <3> QED BY <2>1, <2>2, <3>1
  <2> HIDE DEF r
  <2>5. /\ Len(r) = 8 /\ r[1].do = "dma1" /\ r[2].do = "bits" /\ r[3].do = "write"
        /\ r[4].do = "write" /\ r[5].do = "write" /\ r[6].do = "mask"
        /\ r[7].do = "program" /\ r[8].do = "unmask"
    BY <2>1, <2>2, <2>4
  <2>6. StreamOrder(r) BY <2>5 DEF StreamOrder, Updates
  <2>7. r # <<>>
    <3>1. Len(<<>>) = 0 BY EmptySeq
    <3>2. ASSUME r = <<>> PROVE Len(r) = Len(<<>>) BY <3>2, Zenon
    <3>3. Len(r) # 0 BY <2>5
    <3> QED BY <3>1, <3>2, <3>3, Zenon
  <2> QED BY <2>6, <2>7 DEF p, q, r
<1>4. StreamOrder(playback1_prepare) /\ playback1_prepare # <<>>
  <2> DEFINE S == {mixer_write("setup", "playback1"), mixer_write("control2", "none"),
                   Do("mode2off", "none"), Do("dma2", "playback1")}
             p == <<mixer_write("setup", "playback1"), mixer_write("setup", "playback1"),
                    mixer_write("control2", "none")>>
             q == <<Do("mode2off", "none"), Do("dma2", "playback1")>>
             r == p \o q
  <2>1. Len(p) = 3 /\ p[1].do = "write" /\ p[2].do = "write" /\ p[3].do = "write" OBVIOUS
  <2>2. Len(q) = 2 /\ q[1].do = "mode2off" /\ q[2].do = "dma2" OBVIOUS
  <2>3. p \in Seq(S) /\ q \in Seq(S) OBVIOUS
  <2>4. r = playback1_prepare
    BY Zenon DEF playback1_prepare, playback1_setdma, rate_set
  <2> HIDE DEF S, p, q
  <2>5. /\ r \in Seq(S) /\ Len(r) = 5
        /\ r[1] = p[1] /\ r[2] = p[2] /\ r[3] = p[3] /\ r[4] = q[1] /\ r[5] = q[2]
    <3>1. /\ r \in Seq(S) /\ Len(r) = Len(p) + Len(q)
          /\ \A i \in 1..Len(p) : r[i] = p[i]
          /\ \A i \in 1..Len(q) : r[Len(p) + i] = q[i]
      BY <2>3, ConcatIs
    <3> HIDE DEF r
    <3> QED BY <2>1, <2>2, <3>1
  <2> HIDE DEF r
  <2>6. /\ Len(r) = 5 /\ r[1].do = "write" /\ r[2].do = "write" /\ r[3].do = "write"
        /\ r[4].do = "mode2off" /\ r[5].do = "dma2"
    BY <2>1, <2>2, <2>5
  <2>7. StreamOrder(r) BY <2>6 DEF StreamOrder, Updates
  <2>8. r # <<>> BY <2>5, EmptySeq, SMTT(30)
  <2> QED BY <2>4, <2>7, <2>8
<1>5. ASSUME NEW s \in AudioOne, NEW d \in Updates, NEW v, NEW p,
             p = <<Do("load", "none"), Do(d, s), write("dmacontrol", v)>>
      PROVE  StreamOrder(p) /\ p # <<>>
  <2>1. Len(p) = 3 /\ p[1].do = "load" /\ p[2].do \in Updates /\ p[3].do = "write"
    BY <1>5
  <2>2. StreamOrder(p) BY <2>1 DEF StreamOrder, Updates
  <2>3. p # <<>> BY <1>5
  <2> QED BY <2>2, <2>3
<1>6. ASSUME NEW start \in BOOLEAN
      PROVE  StreamOrder(playback1_trigger(start)) /\ playback1_trigger(start) # <<>>
  <2> DEFINE p == playback1_trigger(start)
  <2>1. CASE start
    <3>1. /\ Len(p) = 5 /\ p[1].do = "write" /\ p[2].do = "write" /\ p[3].do = "mode2on"
          /\ p[4].do = "load" /\ p[5].do \in Updates
      BY <2>1 DEF playback1_trigger, Updates
    <3> HIDE DEF p
    <3>2. StreamOrder(p) BY <3>1 DEF StreamOrder, Updates
    <3> QED BY <3>1, <3>2, EmptySeq DEF p
  <2>2. CASE ~start
    <3>1. /\ Len(p) = 4 /\ p[1].do = "mode2off" /\ p[2].do = "write"
          /\ p[3].do = "load" /\ p[4].do \in Updates
      BY <2>2 DEF playback1_trigger, Updates
    <3> HIDE DEF p
    <3>2. StreamOrder(p) BY <3>1 DEF StreamOrder, Updates
    <3> QED BY <3>1, <3>2, EmptySeq, SMTT(30) DEF p
  <2> QED BY <2>1, <2>2
<1>7. \A s \in Streams : StreamOrder(Prepare(s)) /\ Prepare(s) # <<>>
  <2>1. StreamOrder(capture_prepare) /\ capture_prepare # <<>>
    BY <1>3, Zenon DEF capture_prepare, capture_setdma, rate_set, AudioOne
  <2>2. StreamOrder(playback2_prepare) /\ playback2_prepare # <<>>
    BY <1>3, Zenon DEF playback2_prepare, playback2_setdma, rate_set, AudioOne
  <2>3. StreamOrder(playback1_prepare) /\ playback1_prepare # <<>>
    BY <1>4
  <2> QED BY <1>1, <2>1, <2>2, <2>3 DEF Streams, AudioOne
<1>8. \A s \in Streams : \A start \in BOOLEAN :
        StreamOrder(Trigger(s, start)) /\ Trigger(s, start) # <<>>
  <2> SUFFICES ASSUME NEW start \in BOOLEAN
               PROVE  \A s \in Streams : StreamOrder(Trigger(s, start)) /\ Trigger(s, start) # <<>>
    OBVIOUS
  <2>1. StreamOrder(capture_trigger(start)) /\ capture_trigger(start) # <<>>
    BY <1>5 DEF capture_trigger, AudioOne, Updates
  <2>2. StreamOrder(playback2_trigger(start)) /\ playback2_trigger(start) # <<>>
    BY <1>5 DEF playback2_trigger, AudioOne, Updates
  <2> QED BY <1>2, <1>6, <2>1, <2>2 DEF Streams, AudioOne
<1>9. \A s \in Streams : Prepare(s) \in Seq(StreamAccesses(s, "prepare"))
  <2>1. /\ capture_prepare \in Seq(StreamAccesses("capture", "prepare"))
        /\ playback2_prepare \in Seq(StreamAccesses("playback2", "prepare"))
        /\ playback1_prepare \in Seq(StreamAccesses("playback1", "prepare"))
    BY DEF StreamAccesses, PrepareAccesses, capture_prepare, capture_setdma, playback2_prepare,
           playback2_setdma, playback1_prepare, playback1_setdma, rate_set
  <2> QED BY <1>1, <2>1 DEF Streams, AudioOne
<1>10. \A s \in Streams : /\ Trigger(s, TRUE) \in Seq(StreamAccesses(s, "start"))
                          /\ Trigger(s, FALSE) \in Seq(StreamAccesses(s, "stop"))
  <2>1. /\ capture_trigger(TRUE) \in Seq(StreamAccesses("capture", "start"))
        /\ playback2_trigger(TRUE) \in Seq(StreamAccesses("playback2", "start"))
        /\ playback1_trigger(TRUE) \in Seq(StreamAccesses("playback1", "start"))
    BY DEF StreamAccesses, StartAccesses, StopAccesses, capture_trigger, playback2_trigger,
       playback1_trigger
  <2>2. /\ capture_trigger(FALSE) \in Seq(StreamAccesses("capture", "stop"))
        /\ playback2_trigger(FALSE) \in Seq(StreamAccesses("playback2", "stop"))
        /\ playback1_trigger(FALSE) \in Seq(StreamAccesses("playback1", "stop"))
    BY DEF StreamAccesses, StartAccesses, StopAccesses, capture_trigger, playback2_trigger,
       playback1_trigger
  <2> QED BY <1>2, <2>1, <2>2 DEF Streams, AudioOne
<1> QED BY <1>7, <1>8, <1>9, <1>10

LEMMA IrqConcat ==
    ASSUME NEW S, NEW p \in Seq(S), NEW q \in Seq(S), IrqOrder(p), IrqOrder(q)
    PROVE  p \o q \in Seq(S) /\ IrqOrder(p \o q)
<1> DEFINE r == p \o q
<1>1. /\ Len(p) \in Nat /\ Len(q) \in Nat /\ r \in Seq(S) /\ Len(r) = Len(p) + Len(q)
      /\ \A i \in 1..Len(p) : r[i] = p[i]
      /\ \A i \in 1..Len(q) : r[Len(p) + i] = q[i]
  BY ConcatIs
<1> HIDE DEF r
<1>2. ASSUME NEW i \in 1..Len(r), NEW d \in {"ack1", "bits"}, r[i].do = d
      PROVE  \E j \in i + 1..Len(r) : r[j].do = IF d = "ack1" THEN "test1" ELSE "test2"
  <2>1. CASE i \in 1..Len(p)
    <3>1. p[i].do = d BY <1>1, <1>2, <2>1
    <3>2. PICK j \in i + 1..Len(p) : p[j].do = IF d = "ack1" THEN "test1" ELSE "test2"
      BY <1>2, <2>1, <3>1 DEF IrqOrder
    <3>3. j \in i + 1..Len(r) /\ r[j] = p[j] BY <1>1, <2>1
    <3> QED BY <3>2, <3>3
  <2>2. CASE i \notin 1..Len(p)
    <3> DEFINE k == i - Len(p)
    <3>1. k \in 1..Len(q) /\ i = Len(p) + k BY <1>1, <2>2
    <3>2. q[k].do = d BY <1>1, <1>2, <3>1
    <3>3. PICK j \in k + 1..Len(q) : q[j].do = IF d = "ack1" THEN "test1" ELSE "test2"
      BY <1>2, <3>1, <3>2 DEF IrqOrder
    <3>4. Len(p) + j \in i + 1..Len(r) /\ r[Len(p) + j] = q[j] BY <1>1, <3>1
    <3> QED BY <3>3, <3>4
  <2> QED BY <2>1, <2>2
<1>3. \A i \in 1..Len(r) :
        /\ r[i].do = "ack1" => \E j \in i + 1..Len(r) : r[j].do = "test1"
        /\ r[i].do = "bits" => \E j \in i + 1..Len(r) : r[j].do = "test2"
  <2>1. ASSUME NEW i \in 1..Len(r), r[i].do = "ack1"
        PROVE  \E j \in i + 1..Len(r) : r[j].do = "test1"
    BY <1>2, <2>1
  <2>2. ASSUME NEW i \in 1..Len(r), r[i].do = "bits"
        PROVE  \E j \in i + 1..Len(r) : r[j].do = "test2"
    BY <1>2, <2>2
  <2> QED BY <2>1, <2>2
<1> QED BY <1>1, <1>3 DEF IrqOrder, r

LEMMA IrqPrograms ==
    /\ \A status : interrupt(status) \in Seq(IrqAccesses) /\ IrqOrder(interrupt(status))
    /\ \A s \in Streams : /\ <<Do("elapse", s)>> \in Seq(IrqAccesses)
                          /\ IrqOrder(<<Do("elapse", s)>>)
<1> USE DEF mixer_write, mixer_read, mixer_bits, Do, Access
<1> DEFINE audio1 == <<Do("ack1", "none"), Do("test1", "none")>>
           audio2 == <<mixer_bits("control2", "irq", "none"), Do("test2", "none")>>
           volume == <<mixer_read("split"), mixer_write("volumeirq", "none")>>
<1>1. /\ audio1 \in Seq(IrqAccesses) /\ audio2 \in Seq(IrqAccesses) /\ volume \in Seq(IrqAccesses)
      /\ <<>> \in Seq(IrqAccesses)
  BY DEF IrqAccesses
<1>2. IrqOrder(audio1)
  <2>1. Len(audio1) = 2 /\ audio1[1].do = "ack1" /\ audio1[2].do = "test1" OBVIOUS
  <2> HIDE DEF audio1
  <2> QED BY <2>1 DEF IrqOrder
<1>3. IrqOrder(audio2)
  <2>1. Len(audio2) = 2 /\ audio2[1].do = "bits" /\ audio2[2].do = "test2" OBVIOUS
  <2> HIDE DEF audio2
  <2> QED BY <2>1 DEF IrqOrder
<1>4. IrqOrder(volume) /\ IrqOrder(<<>>)
  <2>1. Len(volume) = 2 /\ volume[1].do = "read" /\ volume[2].do = "write" OBVIOUS
  <2> HIDE DEF volume
  <2> QED BY <2>1, EmptySeq DEF IrqOrder
<1>5. ASSUME NEW status PROVE interrupt(status) \in Seq(IrqAccesses) /\ IrqOrder(interrupt(status))
  <2> DEFINE p == IF "audio1" \in status THEN audio1 ELSE <<>>
             q == IF "audio2" \in status THEN audio2 ELSE <<>>
             r == IF "volume" \in status THEN volume ELSE <<>>
  <2>1. interrupt(status) = (p \o q) \o r BY Zenon DEF interrupt
  <2>2. p \in Seq(IrqAccesses) /\ q \in Seq(IrqAccesses) /\ r \in Seq(IrqAccesses)
    BY <1>1, Zenon
  <2>3. IrqOrder(p) /\ IrqOrder(q) /\ IrqOrder(r) BY <1>2, <1>3, <1>4, Zenon
  <2> HIDE DEF p, q, r
  <2>4. p \o q \in Seq(IrqAccesses) /\ IrqOrder(p \o q) BY <2>2, <2>3, IrqConcat
  <2>5. (p \o q) \o r \in Seq(IrqAccesses) /\ IrqOrder((p \o q) \o r)
    BY <2>2, <2>3, <2>4, IrqConcat
  <2> QED BY <2>1, <2>5
<1>6. ASSUME NEW s \in Streams
      PROVE  <<Do("elapse", s)>> \in Seq(IrqAccesses) /\ IrqOrder(<<Do("elapse", s)>>)
  <2>1. <<Do("elapse", s)>> \in Seq(IrqAccesses)
    <3>1. Do("elapse", s) \in IrqAccesses BY Zenon DEF IrqAccesses
    <3>2. \A x \in IrqAccesses : <<x>> \in Seq(IrqAccesses) OBVIOUS
    <3> QED BY <3>1, <3>2, Zenon
  <2> DEFINE p == <<Do("elapse", s)>>
  <2>2. Len(p) = 1 /\ p[1].do = "elapse" OBVIOUS
  <2> HIDE DEF p
  <2>3. IrqOrder(p) BY <2>2 DEF IrqOrder
  <2> QED BY <2>1, <2>3 DEF p
<1> QED BY <1>5, <1>6

LEMMA CtlTail == ASSUME NEW p \in CtlPrograms, p # <<>> PROVE Tail(p) \in CtlPrograms
<1>1. CASE p \in Seq(CtlAccesses)
  <2>1. Tail(p) \in Seq(CtlAccesses) BY <1>1, TailIs
  <2> QED BY <2>1 DEF CtlPrograms
<1>2. ASSUME NEW v \in Levels, p = <<Left(v), Right(v)>> PROVE Tail(p) = <<Right(v)>>
  BY <1>2
<1>3. ASSUME NEW v \in Levels, p = <<Right(v)>> PROVE Tail(p) = <<>>
  BY <1>3
<1>4. <<>> \in Seq(CtlAccesses) BY EmptySeq
<1> QED BY <1>1, <1>2, <1>3, <1>4 DEF CtlPrograms

LEMMA CtlProgramsAre ==
    /\ \A c \in KnownControls \ {"Hardware Volume", "Master Volume"} : \A v \in Levels :
         Put(c, v) \in Seq(CtlAccesses)
    /\ \A v \in Levels : Put("Master Volume", v) = <<Left(v), Right(v)>>
    /\ \A c \in KnownControls : Get(c) \in Seq(CtlAccesses)
<1>0. /\ \A x \in CtlAccesses : <<x>> \in Seq(CtlAccesses)
      /\ \A x, y \in CtlAccesses : <<x, y>> \in Seq(CtlAccesses)
      /\ \A x, y, z \in CtlAccesses : <<x, y, z>> \in Seq(CtlAccesses)
  OBVIOUS
<1>1. ASSUME NEW v \in Levels, NEW c \in KnownControls \ {"Hardware Volume", "Master Volume"}
      PROVE  Put(c, v) \in Seq(CtlAccesses)
  <2>2. c = "Master Switch" => Put(c, v) \in Seq(CtlAccesses)
    <3>1. c = "Master Switch"
            => Put(c, v) = <<mixer_bits("left", "mute", v), mixer_bits("right", "mute", v)>>
      BY Zenon DEF Put, put_double
    <3>2. {mixer_bits("left", "mute", v), mixer_bits("right", "mute", v)} \subseteq CtlAccesses
      BY DEF CtlAccesses, PutAccesses, GetAccesses, Levels
    <3> QED BY <1>0, <3>1, <3>2
  <2>3. c = "Split" => Put(c, v) \in Seq(CtlAccesses)
    <3>1. c = "Split" => Put(c, v) = <<mixer_bits("split", "on", v)>>
      BY Zenon DEF Put, put_single
    <3>2. mixer_bits("split", "on", v) \in CtlAccesses BY DEF CtlAccesses, PutAccesses,
         GetAccesses, Levels
    <3> QED BY <1>0, <3>1, <3>2
  <2>4. c = "Capture Switch" => Put(c, v) \in Seq(CtlAccesses)
    <3>1. c = "Capture Switch" => Put(c, v) = <<mixer_bits("recsrc", "switch", v)>>
      BY Zenon DEF Put, put_single
    <3>2. mixer_bits("recsrc", "switch", v) \in CtlAccesses BY DEF CtlAccesses, PutAccesses,
         GetAccesses, Levels
    <3> QED BY <1>0, <3>1, <3>2
  <2>5. c = "Capture Source" => Put(c, v) \in Seq(CtlAccesses)
    <3>1. c = "Capture Source" => Put(c, v) = <<mixer_bits("recsrc", "mux", v)>>
      BY Zenon DEF Put, put_mux
    <3>2. mixer_bits("recsrc", "mux", v) \in CtlAccesses BY DEF CtlAccesses, PutAccesses,
         GetAccesses, Levels
    <3> QED BY <1>0, <3>1, <3>2
  <2>6. c = "3D" => Put(c, v) \in Seq(CtlAccesses)
    <3>1. c = "3D" => Put(c, v) = <<mixer_differs("spatial", "on", v),
                                    mixer_write("spatial", v), mixer_write("spatial", v)>>
      BY Zenon DEF Put, put_spatializer_enable
    <3>2. {mixer_differs("spatial", "on", v), mixer_write("spatial", v)} \subseteq CtlAccesses
      BY DEF CtlAccesses, PutAccesses, GetAccesses, Levels
    <3> QED BY <1>0, <3>1, <3>2
  <2>7. c = "Record Monitor" => Put(c, v) \in Seq(CtlAccesses)
    <3>1. c = "Record Monitor" => Put(c, v) = <<bits("analog", "monitor", v)>>
      BY Zenon DEF Put
    <3>2. bits("analog", "monitor", v) \in CtlAccesses BY DEF CtlAccesses, PutAccesses,
         GetAccesses, Levels
    <3> QED BY <1>0, <3>1, <3>2
  <2>8. c = "Capture Volume" => Put(c, v) \in Seq(CtlAccesses)
    <3>1. c = "Capture Volume" => Put(c, v) = <<bits("reclevel", "level", v)>>
      BY Zenon DEF Put
    <3>2. bits("reclevel", "level", v) \in CtlAccesses BY DEF CtlAccesses, PutAccesses,
         GetAccesses, Levels
    <3> QED BY <1>0, <3>1, <3>2
  <2> QED BY <1>1, <2>2, <2>3, <2>4, <2>5, <2>6, <2>7, <2>8 DEF KnownControls
<1>2. ASSUME NEW v \in Levels PROVE Put("Master Volume", v) = <<Left(v), Right(v)>>
  BY Zenon DEF Put, put_double, Left, Right
<1>3. ASSUME NEW c \in KnownControls PROVE Get(c) \in Seq(CtlAccesses)
  <2>1. \A r \in {"left", "right", "hwleft", "hwright", "recsrc", "spatial", "split"} :
          mixer_read(r) \in CtlAccesses
    BY DEF CtlAccesses, PutAccesses, GetAccesses, Levels
  <2>2. read("analog") \in CtlAccesses /\ read("reclevel") \in CtlAccesses BY DEF CtlAccesses,
       PutAccesses, GetAccesses, Levels
  <2>3. \/ Get(c) = <<read("analog")>> \/ Get(c) = <<read("reclevel")>>
        \/ Get(c) = <<mixer_read("left"), mixer_read("right")>>
        \/ Get(c) = <<mixer_read("hwleft"), mixer_read("hwright")>>
        \/ Get(c) = <<mixer_read("recsrc")>> \/ Get(c) = <<mixer_read("spatial")>>
        \/ Get(c) = <<mixer_read("split")>>
    BY <1>3, Zenon DEF Get, get_double, get_hw_volume, KnownControls
  <2> QED BY <1>0, <2>1, <2>2, <2>3
<1> QED BY <1>1, <1>2, <1>3

LEMMA CtlCalls ==
    /\ \A c \in KnownControls \ {"Hardware Volume"} : \A v \in Levels : Put(c, v) \in CtlPrograms
    /\ \A c \in KnownControls : Get(c) \in CtlPrograms
  BY CtlProgramsAre DEF CtlPrograms

LEMMA FieldsAre ==
    /\ Buses = {"mixer", "command"}
    /\ DOMAIN Fields["mixer"] = {"setup", "control1", "control2", "left", "right", "hwleft",
                                 "hwright", "recsrc", "spatial", "split", "volumeirq"}
    /\ DOMAIN Fields["command"] = {"setup", "analog", "reclevel", "dmacontrol"}
    /\ Fields["mixer"]["setup"] = {"all"} /\ Fields["mixer"]["control1"] = {"all"}
    /\ Fields["mixer"]["control2"] = {"format", "irq"}
    /\ Fields["mixer"]["left"] = {"level", "mute"} /\ Fields["mixer"]["right"] = {"level", "mute"}
    /\ Fields["mixer"]["recsrc"] = {"mux", "switch"}
    /\ Fields["mixer"]["spatial"] = {"on"} /\ Fields["mixer"]["split"] = {"on"}
    /\ Fields["command"]["setup"] = {"all"} /\ Fields["command"]["analog"] = {"mono", "monitor"}
    /\ Fields["command"]["reclevel"] = {"level"} /\ Fields["command"]["dmacontrol"] = {"all"}
  BY DEF Fields, Buses

LEMMA AccessesWellFormed == \A a \in Accesses : WellFormed(a)
<1>1. \A d, v : d \notin OnChip => WellFormed(Do(d, v))
  BY DEF Do, Access, WellFormed
<1>2. \A x : x \in DOMAIN Fields["mixer"] => WellFormed(mixer_read(x))
  BY FieldsAre DEF mixer_read, Access, WellFormed, OnChip
<1>3. \A x, v : x \in DOMAIN Fields["mixer"] /\ v \in Values => WellFormed(mixer_write(x, v))
  BY FieldsAre DEF mixer_write, Access, WellFormed, OnChip
<1>4. \A x, f, v : x \in DOMAIN Fields["mixer"] /\ f \in Fields["mixer"][x] /\ v \in Values
                     /\ (x = "control2" => f = "irq")
        => WellFormed(mixer_bits(x, f, v)) /\ WellFormed(mixer_differs(x, f, v))
  BY FieldsAre DEF mixer_bits, mixer_differs, Access, WellFormed, OnChip
<1>5. \A x : x \in DOMAIN Fields["command"] => WellFormed(read(x))
  BY FieldsAre DEF read, Access, WellFormed, OnChip
<1>6. \A x, v : x \in DOMAIN Fields["command"] /\ v \in Values => WellFormed(write(x, v))
  BY FieldsAre DEF write, Access, WellFormed, OnChip
<1>7. \A x, f, v : x \in DOMAIN Fields["command"] /\ f \in Fields["command"][x] /\ v \in Values
                     /\ (x = "control2" => f = "irq")
        => WellFormed(bits(x, f, v))
  BY FieldsAre DEF bits, Access, WellFormed, OnChip
<1>8. ASSUME NEW s \in Streams, NEW a \in AccessesOf(s) PROVE WellFormed(a)
  <2>1. s \in Values BY DEF Values
  <2>2. \A d \in {"load", "or", "andnot", "dma1", "dma2", "mask", "program", "unmask",
                  "mode2on", "mode2off"} : \A v : WellFormed(Do(d, v))
    BY <1>1 DEF OnChip
  <2>3. \A v \in {s, "none", "settle"} :
          /\ WellFormed(mixer_write("setup", v)) /\ WellFormed(mixer_write("control1", v))
          /\ WellFormed(mixer_write("control2", v))
    BY <1>3, <2>1, FieldsAre DEF Values
  <2>4. \A v \in {s, "none"} : /\ WellFormed(write("setup", v)) /\ WellFormed(write("dmacontrol", v))
                               /\ WellFormed(bits("analog", "mono", v))
    BY <1>6, <1>7, <2>1, FieldsAre DEF Values
  <2>5. \A x \in PrepareAccesses(s) : WellFormed(x) BY <2>2, <2>3, <2>4 DEF PrepareAccesses
  <2>6. \A x \in StartAccesses(s) : WellFormed(x) BY <2>2, <2>3, <2>4 DEF StartAccesses
  <2>7. \A x \in StopAccesses(s) : WellFormed(x) BY <2>2, <2>3, <2>4 DEF StopAccesses
  <2> QED BY <2>5, <2>6, <2>7 DEF AccessesOf
<1>9. ASSUME NEW a \in IrqAccesses PROVE WellFormed(a)
  <2>1. CASE a \in {Do("elapse", s) : s \in Streams} BY <1>1, <2>1 DEF OnChip
  <2>2. CASE a \in {Do("ack1", "none"), Do("test1", "none"), Do("test2", "none")}
    BY <1>1, <2>2 DEF OnChip
  <2>3. WellFormed(mixer_bits("control2", "irq", "none"))
    BY <1>4, FieldsAre DEF Values
  <2>4. WellFormed(mixer_read("split")) BY <1>2, FieldsAre
  <2>5. WellFormed(mixer_write("volumeirq", "none")) BY <1>3, FieldsAre DEF Values
  <2> QED BY <1>9, <2>1, <2>2, <2>3, <2>4, <2>5 DEF IrqAccesses
<1>10. ASSUME NEW v \in Levels, NEW a \in PutAccesses(v) PROVE WellFormed(a)
  BY <1>3, <1>4, <1>7, <1>10, FieldsAre DEF PutAccesses, Values, Levels
<1>11. ASSUME NEW a \in CtlAccesses PROVE WellFormed(a)
  <2>1. ASSUME a \in GetAccesses PROVE WellFormed(a)
    BY <1>2, <1>5, <2>1, FieldsAre DEF GetAccesses
  <2> QED BY <1>10, <1>11, <2>1 DEF CtlAccesses, Levels
<1>12. \A v \in Levels : WellFormed(Left(v)) /\ WellFormed(Right(v))
  BY <1>4, FieldsAre DEF Left, Right, Levels, Values
<1>13. {"capture", "playback1", "playback2"} \subseteq Streams /\ {"low", "high"} \subseteq Levels
  BY DEF Streams, AudioOne, Levels
<1> QED BY <1>8, <1>9, <1>11, <1>12, <1>13 DEF Accesses


-----------------------------------------------------------------------------
(* Who makes which access.                                                 *)

LEMMA AccessFields ==
    /\ \A d, v : /\ Do(d, v).do = d /\ Do(d, v).bus = "none" /\ Do(d, v).reg = "none"
                 /\ Do(d, v).field = "none" /\ Do(d, v).val = v
    /\ \A r, v : /\ mixer_write(r, v).do = "write" /\ mixer_write(r, v).bus = "mixer"
                 /\ mixer_write(r, v).reg = r /\ mixer_write(r, v).field = "none"
                 /\ mixer_write(r, v).val = v
    /\ \A r, v : /\ write(r, v).do = "write" /\ write(r, v).bus = "command"
                 /\ write(r, v).reg = r /\ write(r, v).field = "none" /\ write(r, v).val = v
    /\ \A r : /\ mixer_read(r).do = "read" /\ mixer_read(r).bus = "mixer"
              /\ mixer_read(r).reg = r /\ mixer_read(r).field = "none"
    /\ \A r : /\ read(r).do = "read" /\ read(r).bus = "command"
              /\ read(r).reg = r /\ read(r).field = "none"
    /\ \A r, f, v : /\ mixer_bits(r, f, v).do = "bits" /\ mixer_bits(r, f, v).bus = "mixer"
                    /\ mixer_bits(r, f, v).reg = r /\ mixer_bits(r, f, v).field = f
                    /\ mixer_bits(r, f, v).val = v
    /\ \A r, f, v : /\ bits(r, f, v).do = "bits" /\ bits(r, f, v).bus = "command"
                    /\ bits(r, f, v).reg = r /\ bits(r, f, v).field = f /\ bits(r, f, v).val = v
    /\ \A r, f, v : /\ mixer_differs(r, f, v).do = "differs" /\ mixer_differs(r, f, v).reg = r
                    /\ mixer_differs(r, f, v).bus = "mixer" /\ mixer_differs(r, f, v).field = f
  BY DEF Do, mixer_write, write, mixer_read, read, mixer_bits, bits, mixer_differs, Access

\* What a stream, the interrupt handler and the controls access
StreamMade(s, op, a) ==
    /\ op \in Callbacks
    /\ a.do \in {"write", "bits", "dma1", "mask", "program", "unmask", "mode2on", "mode2off",
                 "dma2", "load", "or", "andnot"}
    /\ a.do \in {"dma1", "mask", "program", "unmask"} => s \in AudioOne /\ op = "prepare"
    /\ a.do \in {"dma1", "dma2", "or", "andnot"} => a.val = s
    /\ a.do = "dma2" => s = "playback1" /\ op = "prepare"
    /\ a.do = "mode2on" => s = "playback1" /\ op = "start"
    /\ a.do = "mode2off" => s = "playback1" /\ op \in {"prepare", "stop"}
    /\ a.do = "load" => op \in {"start", "stop"}
    /\ a.do = "or" => op = "start"
    /\ a.do = "andnot" => op = "stop"
    /\ a.do = "bits" => /\ s \in AudioOne /\ op = "prepare" /\ a.bus = "command"
                        /\ a.reg = "analog" /\ a.field = "mono" /\ a.val = s
    /\ a.do = "write" =>
         /\ a.bus = IF s = "playback1" THEN "mixer" ELSE "command"
         /\ a.reg \in {"setup", "control1", "control2", "dmacontrol"}
         /\ a.reg = "setup" => op = "prepare" /\ a.val = s
         /\ a.reg = "control2" => s = "playback1" /\ op = "prepare"
         /\ a.reg = "dmacontrol" => /\ s \in AudioOne /\ op \in {"start", "stop"}
                                    /\ a.val = IF op = "start" THEN s ELSE "none"
    /\ a.do \notin {"write", "bits"} => a.bus = "none" /\ a.reg = "none"

LEMMA StreamMakes ==
    ASSUME NEW s \in Streams, NEW op, NEW a \in StreamAccesses(s, op)
    PROVE  StreamMade(s, op, a)
<1> USE DEF StreamMade
<1>1. CASE op = "prepare" /\ s = "playback1"
  BY <1>1, AccessFields DEF StreamAccesses, PrepareAccesses, Callbacks, Streams
<1>2. CASE op = "prepare" /\ s # "playback1"
  BY <1>2, AccessFields DEF StreamAccesses, PrepareAccesses, Callbacks, Streams
<1>3. CASE op = "start" /\ s = "playback1"
  BY <1>3, AccessFields DEF StreamAccesses, StartAccesses, Callbacks, Streams
<1>4. CASE op = "start" /\ s # "playback1"
  BY <1>4, AccessFields DEF StreamAccesses, StartAccesses, Callbacks, Streams
<1>5. CASE op = "stop" /\ s = "playback1"
  BY <1>5, AccessFields DEF StreamAccesses, StopAccesses, Callbacks, Streams
<1>6. CASE op = "stop" /\ s # "playback1"
  BY <1>6, AccessFields DEF StreamAccesses, StopAccesses, Callbacks, Streams
<1>7. CASE op \notin Callbacks BY <1>7 DEF StreamAccesses, Callbacks
<1> QED BY <1>1, <1>2, <1>3, <1>4, <1>5, <1>6, <1>7 DEF Callbacks

IrqMade(a) ==
    /\ a.do \in {"ack1", "test1", "test2", "elapse", "read", "write", "bits"}
    /\ a.do = "elapse" => a.val \in Streams /\ a = Do("elapse", a.val)
    /\ a.do = "write" => a.bus = "mixer" /\ a.reg = "volumeirq"
    /\ a.do = "bits" => /\ a.bus = "mixer" /\ a.reg = "control2" /\ a.field = "irq"
                        /\ a.val = "none"
    /\ a.do \in {"ack1", "test1", "test2", "elapse"} => a.bus = "none" /\ a.reg = "none"

LEMMA IrqMakes == ASSUME NEW a \in IrqAccesses PROVE IrqMade(a)
<1> USE DEF IrqMade
<1>1. CASE a \in {Do("elapse", s) : s \in Streams} BY <1>1, AccessFields
<1>2. CASE a \in {Do("ack1", "none"), Do("test1", "none"), Do("test2", "none")} BY <1>2,
     AccessFields
<1>3. CASE a \in {mixer_bits("control2", "irq", "none"), mixer_read("split"),
                  mixer_write("volumeirq", "none")}
  BY <1>3, AccessFields
<1> QED BY <1>1, <1>2, <1>3 DEF IrqAccesses

CtlMade(a) ==
    /\ a.do \in {"read", "write", "bits", "differs"} /\ a.bus \in {"mixer", "command"}
    /\ a.do = "write" => a.bus = "mixer" /\ a.reg = "spatial"
    /\ a.do = "bits" => a.field # "mono" /\ a.reg # "control2" /\ a.val \in Levels
    /\ a.do = "bits" => a.reg \notin {"setup", "control1", "dmacontrol"}
    /\ a.do = "differs" => a.reg = "spatial"

LEMMA CtlMakes ==
    /\ \A a \in CtlAccesses \union {Left("low"), Left("high"), Right("low"), Right("high")} :
         CtlMade(a)
    /\ \A a \in CtlAccesses : a.reg \in {"left", "right"} => a.field # "level"
<1>1. ASSUME NEW a \in PutAccesses("low") \union PutAccesses("high")
      PROVE  CtlMade(a) /\ (a.reg \in {"left", "right"} => a.field # "level")
  BY <1>1, AccessFields DEF PutAccesses, Levels, CtlMade
<1>2. ASSUME NEW a \in GetAccesses PROVE CtlMade(a) /\ a.field # "level"
  BY <1>2, AccessFields DEF GetAccesses, CtlMade
<1>3. ASSUME NEW v \in Levels, NEW a \in {Left(v), Right(v)} PROVE CtlMade(a)
  BY <1>3, AccessFields DEF Left, Right, CtlMade
<1>4. {"low", "high"} \subseteq Levels BY DEF Levels
<1> QED BY <1>1, <1>2, <1>3, <1>4 DEF CtlAccesses

LEMMA AllAccesses ==
    /\ \A s \in Streams : \A op : Seq(StreamAccesses(s, op)) \subseteq Seq(Accesses)
    /\ Seq(IrqAccesses) \subseteq Seq(Accesses)
    /\ CtlPrograms \subseteq Seq(Accesses)
<1>1. ASSUME NEW s \in Streams, NEW op PROVE StreamAccesses(s, op) \subseteq Accesses
  <2>1. StreamAccesses(s, op) \subseteq AccessesOf(s) BY DEF StreamAccesses, AccessesOf
  <2> QED BY <2>1 DEF Accesses, Streams, AudioOne
<1>2. IrqAccesses \subseteq Accesses /\ CtlAccesses \subseteq Accesses BY DEF Accesses
<1>3. ASSUME NEW v \in Levels
      PROVE  <<Left(v), Right(v)>> \in Seq(Accesses) /\ <<Right(v)>> \in Seq(Accesses)
  <2>1. Left(v) \in Accesses /\ Right(v) \in Accesses BY DEF Accesses, Levels
  <2> QED BY <2>1
<1>4. \A A, B : A \subseteq B => Seq(A) \subseteq Seq(B) OBVIOUS
<1>5. Seq(CtlAccesses) \subseteq Seq(Accesses) /\ Seq(IrqAccesses) \subseteq Seq(Accesses)
  BY <1>2, <1>4
<1>6. \A s \in Streams : \A op : Seq(StreamAccesses(s, op)) \subseteq Seq(Accesses)
  BY <1>1, <1>4
<1> QED BY <1>3, <1>5, <1>6 DEF CtlPrograms

LEMMA Heads ==
    ASSUME Programs, NEW t \in Threads, ~Idle(t)
    PROVE  /\ todo[t] \in Seq(Accesses) /\ todo[t] # <<>> /\ WellFormed(Next1(t))
           /\ t \in Streams => Next1(t) \in StreamAccesses(t, pcm[t])
           /\ t = "irq" => Next1(t) \in IrqAccesses
           /\ t \in CtlThreads =>
                Next1(t) \in CtlAccesses \union {Left("low"), Left("high"), Right("low"), Right("high")}
<1>1. todo[t] \in Seq(Accesses) /\ todo[t] # <<>> /\ Next1(t) \in Accesses
  BY TailIs DEF Programs, Idle, Next1
<1>2. ASSUME t \in Streams PROVE Next1(t) \in StreamAccesses(t, pcm[t])
  BY <1>1, <1>2, TailIs DEF Programs, Next1
<1>3. ASSUME t = "irq" PROVE Next1(t) \in IrqAccesses
  BY <1>1, <1>3, TailIs DEF Programs, Next1
<1>4. ASSUME t \in CtlThreads
      PROVE  Next1(t) \in CtlAccesses \union {Left("low"), Left("high"), Right("low"), Right("high")}
  <2>1. CASE todo[t] \in Seq(CtlAccesses) BY <1>1, <2>1, TailIs DEF Next1
  <2>2. ASSUME NEW v \in Levels, todo[t] = <<Left(v), Right(v)>> \/ todo[t] = <<Right(v)>>
        PROVE  Next1(t) \in {Left(v), Right(v)}
    BY <2>2 DEF Next1
  <2> QED BY <1>4, <2>1, <2>2 DEF Programs, CtlPrograms, Levels
<1> QED BY <1>1, <1>2, <1>3, <1>4, AccessesWellFormed

\* Who makes which access, in which callback
Made(t, a) ==
    /\ t \in Streams => pcm[t] \in Callbacks
    /\ t \in Streams /\ a.do = "bits" => /\ a.bus = "command" /\ a.reg = "analog"
                                        /\ a.field = "mono"
    /\ a.do \in {"dma1", "mask", "program", "unmask"} => t \in AudioOne /\ pcm[t] = "prepare"
    /\ a.do \in {"dma1", "dma2", "or", "andnot"} => a.val = t
    /\ a.do = "dma2" => t = "playback1" /\ pcm[t] = "prepare"
    /\ a.do = "mode2on" => t = "playback1" /\ pcm[t] = "start"
    /\ a.do = "mode2off" => t = "playback1" /\ pcm[t] \in {"prepare", "stop"}
    /\ a.do = "load" => t \in Streams /\ pcm[t] \in {"start", "stop"}
    /\ a.do = "or" => t \in Streams /\ pcm[t] = "start"
    /\ a.do = "andnot" => t \in Streams /\ pcm[t] = "stop"
    /\ a.do \in {"ack1", "test1", "test2", "elapse"} => t = "irq"
    /\ a.do = "elapse" => a.val \in Streams
    /\ a.do = "bits" =>
         /\ a.field = "mono" => /\ t \in AudioOne /\ pcm[t] = "prepare" /\ a.val = t
         /\ a.reg = "control2" => t = "irq" /\ a.val = "none"
         /\ a.reg # "setup" /\ a.reg # "control1" /\ a.reg # "dmacontrol"
         /\ a.reg \in {"left", "right"} => t \in CtlThreads
    /\ a.do = "write" =>
         /\ a.bus = "mixer" => t \notin AudioOne
         /\ a.bus = "command" => t \in AudioOne
         /\ a.reg \in {"setup", "control1", "control2", "dmacontrol", "spatial", "volumeirq"}
         /\ a.reg = "setup" => t \in Streams /\ pcm[t] = "prepare" /\ a.val = t
         /\ a.reg = "control2" => t = "playback1" /\ pcm[t] = "prepare"
         /\ a.reg = "dmacontrol" => /\ t \in AudioOne /\ pcm[t] \in {"start", "stop"}
                                    /\ a.val = IF pcm[t] = "start" THEN t ELSE "none"
    /\ a.do \in {"read", "differs"} => t \notin Streams
    /\ a.do \notin OnChip => a.bus = "none" /\ a.reg = "none"

LEMMA Makes == ASSUME Programs, NEW t \in Threads, ~Idle(t) PROVE Made(t, Next1(t))
<1>1. ASSUME t \in Streams, NEW a, StreamMade(t, pcm[t], a) PROVE Made(t, a)
  BY <1>1, CtlThreadsAssumption DEF StreamMade, Made, Streams, AudioOne, Callbacks, OnChip
<1>2. ASSUME t = "irq", NEW a, IrqMade(a) PROVE Made(t, a)
  BY <1>2, CtlThreadsAssumption DEF IrqMade, Made, Streams, AudioOne, OnChip
<1>3. ASSUME t \in CtlThreads, NEW a, CtlMade(a) PROVE Made(t, a)
  BY <1>3, CtlThreadsAssumption DEF CtlMade, Made, Streams, AudioOne, OnChip
<1>4. ASSUME t \in Streams PROVE StreamMade(t, pcm[t], Next1(t)) BY <1>4, Heads, StreamMakes
<1>5. ASSUME t = "irq" PROVE IrqMade(Next1(t)) BY <1>5, Heads, IrqMakes
<1>6. ASSUME t \in CtlThreads PROVE CtlMade(Next1(t)) BY <1>6, Heads, CtlMakes
<1> QED BY <1>1, <1>2, <1>3, <1>4, <1>5, <1>6 DEF Threads


-----------------------------------------------------------------------------
(* A step of the program keeps the programs.                               *)

LEMMA EmptyPrograms ==
    /\ StreamOrder(<<>>) /\ IrqOrder(<<>>) /\ <<>> \in CtlPrograms
    /\ \A S : <<>> \in Seq(S)
<1>1. Len(<<>>) = 0 /\ \A S : <<>> \in Seq(S) BY EmptySeq
<1> QED BY <1>1 DEF StreamOrder, IrqOrder, CtlPrograms

\* thread t goes on with p
LEMMA ProgramsChange ==
    ASSUME Programs, NEW t \in Threads, NEW p,
           todo' = [todo EXCEPT ![t] = p],
           \A s \in Streams \ {t} : pcm'[s] = pcm[s],
           t \in Streams => p \in Seq(StreamAccesses(t, pcm'[t])) /\ StreamOrder(p),
           t = "irq" => p \in Seq(IrqAccesses) /\ IrqOrder(p),
           t \in CtlThreads => p \in CtlPrograms
    PROVE  Programs'
<1>1. p \in Seq(Accesses) BY AllAccesses DEF Threads
<1>2. todo' \in [Threads -> Seq(Accesses)] BY <1>1 DEF Programs
<1>3. \A u \in Threads : todo'[u] = IF u = t THEN p ELSE todo[u] BY DEF Programs
<1>4. ASSUME NEW s \in Streams
      PROVE  todo'[s] \in Seq(StreamAccesses(s, pcm'[s])) /\ StreamOrder(todo'[s])
  <2>1. todo[s] \in Seq(StreamAccesses(s, pcm[s])) /\ StreamOrder(todo[s]) BY DEF Programs
  <2>2. s \in Threads BY DEF Threads
  <2> QED BY <1>3, <2>1, <2>2
<1>5. todo'["irq"] \in Seq(IrqAccesses) /\ IrqOrder(todo'["irq"])
  BY <1>3 DEF Programs, Threads
<1>6. \A u \in CtlThreads : todo'[u] \in CtlPrograms
  BY <1>3 DEF Programs, Threads
<1>7. Programs'
      <=> /\ todo' \in [Threads -> Seq(Accesses)]
          /\ \A s \in Streams : todo'[s] \in Seq(StreamAccesses(s, pcm'[s])) /\ StreamOrder(todo'[s])
          /\ todo'["irq"] \in Seq(IrqAccesses) /\ IrqOrder(todo'["irq"])
          /\ \A u \in CtlThreads : todo'[u] \in CtlPrograms
  BY DEF Programs
<1> QED BY <1>2, <1>4, <1>5, <1>6, <1>7

LEMMA ProgramsPop ==
    ASSUME Programs, NEW t \in Threads, ~Idle(t), Pops(t), UNCHANGED pcm
    PROVE  Programs'
<1> DEFINE p == Tail(todo[t])
<1>1. todo' = [todo EXCEPT ![t] = p] BY DEF Pops
<1>2. todo[t] # <<>> BY DEF Idle
<1>3. t \in Streams => p \in Seq(StreamAccesses(t, pcm[t])) /\ StreamOrder(p)
  BY <1>2, TailIs, StreamTail DEF Programs
<1>4. t = "irq" => p \in Seq(IrqAccesses) /\ IrqOrder(p)
  BY <1>2, TailIs, IrqTail DEF Programs
<1>5. t \in CtlThreads => p \in CtlPrograms
  BY <1>2, CtlTail DEF Programs
<1> HIDE DEF p
<1> QED BY <1>1, <1>3, <1>4, <1>5, ProgramsChange

LEMMA ProgramsKept == ASSUME Typed, Programs, [Next]_vars PROVE Programs'
<1>1. ASSUME UNCHANGED <<todo, pcm>> PROVE Programs' BY <1>1 DEF Programs
<1>2. ASSUME NEW t \in Threads, Runs(t) PROVE Programs'
  <2>1. CASE Select(t) BY <1>1, <2>1 DEF Select, coreVars
  <2>2. CASE WriteData(t) BY <2>2, ProgramsPop DEF WriteData, OnBus, coreVars
  <2>3. CASE ReadData(t)
    <3>1. ~Idle(t) /\ UNCHANGED pcm BY <2>3 DEF ReadData, OnBus, coreVars
    <3>2. \/ UNCHANGED todo \/ todo' = [todo EXCEPT ![t] = Tail(@)]
          \/ todo' = [todo EXCEPT ![t] = <<>>]
      BY <2>3 DEF ReadData
    <3>3. CASE UNCHANGED todo BY <1>1, <3>1, <3>3
    <3>4. CASE todo' = [todo EXCEPT ![t] = Tail(@)]
      <4>1. todo[t] # <<>> BY <3>1 DEF Idle
      <4>2. /\ t \in Streams => /\ Tail(todo[t]) \in Seq(StreamAccesses(t, pcm[t]))
                                /\ StreamOrder(Tail(todo[t]))
            /\ t = "irq" => Tail(todo[t]) \in Seq(IrqAccesses) /\ IrqOrder(Tail(todo[t]))
            /\ t \in CtlThreads => Tail(todo[t]) \in CtlPrograms
        BY <4>1, TailIs, StreamTail, IrqTail, CtlTail DEF Programs
      <4> QED BY <3>1, <3>4, <4>2, ProgramsChange
    <3>5. CASE todo' = [todo EXCEPT ![t] = <<>>]
      BY <3>1, <3>5, EmptyPrograms, ProgramsChange
    <3> QED BY <3>2, <3>3, <3>4, <3>5
  <2>4. CASE StoreBits(t) BY <2>4, ProgramsPop DEF StoreBits, OnBus, coreVars
  <2>5. CASE SetDma1(t) BY <2>5, ProgramsPop DEF SetDma1, Is, coreVars
  <2>6. CASE ProgramDmac(t) BY <2>6, ProgramsPop DEF ProgramDmac, Is, coreVars
  <2>7. CASE ProgramDma2(t) BY <2>7, ProgramsPop DEF ProgramDma2, Is, coreVars
  <2>8. CASE LoadActive(t) BY <2>8, ProgramsPop DEF LoadActive, Is, coreVars
  <2>9. CASE StoreActive(t) BY <2>9, ProgramsPop DEF StoreActive, Is, coreVars
  <2> QED BY <1>2, <2>1, <2>2, <2>3, <2>4, <2>5, <2>6, <2>7, <2>8, <2>9 DEF Runs
<1>3. "irq" \in Threads BY DEF Threads
<1>4. CASE AckAudio1 BY <1>3, <1>4, ProgramsPop DEF AckAudio1, Is, coreVars
<1>5. CASE PeriodElapsed BY <1>3, <1>5, ProgramsPop DEF PeriodElapsed, Is, coreVars
<1>6. CASE TestActive
  <2> DEFINE q == Tail(todo["irq"])
  <2>1. todo["irq"] # <<>> /\ UNCHANGED pcm BY <1>6 DEF TestActive, Is, Idle, coreVars
  <2>2. q \in Seq(IrqAccesses) /\ IrqOrder(q) BY <2>1, TailIs, IrqTail DEF Programs
  <2> HIDE DEF q
  <2>3. \/ todo' = [todo EXCEPT !["irq"] = q]
        \/ \E s \in Streams : todo' = [todo EXCEPT !["irq"] = <<Do("elapse", s)>> \o q]
    BY <1>6 DEF TestActive, Reporting, Ignores, Starts, Streams, AudioOne, q
  <2>4. \A s \in Streams : /\ <<Do("elapse", s)>> \o q \in Seq(IrqAccesses)
                           /\ IrqOrder(<<Do("elapse", s)>> \o q)
    BY <2>2, IrqPrograms, IrqConcat
  <2>5. "irq" \notin Streams /\ "irq" \notin CtlThreads
    BY CtlThreadsAssumption DEF Streams, AudioOne
  <2>6. CASE todo' = [todo EXCEPT !["irq"] = q] BY <1>3, <2>1, <2>2, <2>5, <2>6, ProgramsChange
  <2>7. ASSUME NEW s \in Streams, todo' = [todo EXCEPT !["irq"] = <<Do("elapse", s)>> \o q]
        PROVE  Programs'
    BY <1>3, <2>1, <2>4, <2>5, <2>7, ProgramsChange
  <2> QED BY <2>3, <2>6, <2>7
<1>7. CASE Interrupt
  <2>1. todo' = [todo EXCEPT !["irq"] = interrupt(Status)] /\ UNCHANGED pcm
    BY <1>7 DEF Interrupt, Starts, coreVars
  <2>2. "irq" \notin Streams /\ "irq" \notin CtlThreads
    BY CtlThreadsAssumption DEF Streams, AudioOne
  <2> QED BY <1>3, <2>1, <2>2, IrqPrograms, ProgramsChange
<1>8. ASSUME NEW s \in Used, CoreCalls(s) PROVE Programs'
  <2>1. s \in Streams /\ s \in Threads /\ s # "irq" /\ s \notin CtlThreads
    BY UsedAssumption, CtlThreadsAssumption DEF Threads, Streams, AudioOne
  <2>2. ASSUME NEW op, Begins(s, op), UNCHANGED todo PROVE Programs'
    <3>1. todo[s] = <<>> BY <2>2 DEF Begins, Idle
    <3>2. todo' = [todo EXCEPT ![s] = <<>>] BY <2>1, <2>2, <3>1 DEF Programs
    <3>3. \A u \in Streams \ {s} : pcm'[u] = pcm[u] BY <2>2 DEF Begins
    <3> QED BY <2>1, <3>2, <3>3, EmptyPrograms, ProgramsChange
  <2>3. CASE Open(s) \/ Close(s) \/ hw_params(s) \/ hw_free(s)
    BY <2>2, <2>3 DEF Open, capture_open, playback_open, Close, hw_params, hw_free, runVars
  <2>4. CASE CallPrepare(s)
    <3>1. todo' = [todo EXCEPT ![s] = Prepare(s)] BY <2>4 DEF CallPrepare, Starts
    <3>2. pcm'[s] = "prepare" /\ \A u \in Streams \ {s} : pcm'[u] = pcm[u]
      BY <2>1, <2>4 DEF CallPrepare, Begins, Typed, TypeOK
    <3> QED BY <2>1, <3>1, <3>2, StreamPrograms, ProgramsChange
  <2>5. CASE CallTrigger(s)
    <3>1. \A u \in Streams \ {s} : pcm'[u] = pcm[u] BY <2>5 DEF CallTrigger, Begins, Typed, TypeOK
    <3>2. CASE pcm' = [pcm EXCEPT ![s] = "start"]
      <4>1. pcm'[s] = "start" BY <2>1, <3>2 DEF Typed, TypeOK
      <4>2. todo' = [todo EXCEPT ![s] = Trigger(s, TRUE)] BY <2>5, <4>1 DEF CallTrigger, Starts
      <4> QED BY <2>1, <3>1, <4>1, <4>2, StreamPrograms, ProgramsChange
    <3>3. CASE pcm' = [pcm EXCEPT ![s] = "stop"]
      <4>1. pcm'[s] = "stop" BY <2>1, <3>3 DEF Typed, TypeOK
      <4>2. (pcm'[s] = "start") = FALSE BY <4>1
      <4>3. todo' = [todo EXCEPT ![s] = Trigger(s, FALSE)] BY <2>5, <4>2 DEF CallTrigger, Starts
      <4> QED BY <2>1, <3>1, <4>1, <4>3, StreamPrograms, ProgramsChange
    <3> QED BY <2>5, <3>2, <3>3 DEF CallTrigger, Begins
  <2> QED BY <1>8, <2>3, <2>4, <2>5 DEF CoreCalls
<1>9. ASSUME NEW t \in CtlThreads, NEW c \in Controls,
             CallGet(t, c) \/ \E v \in Levels : CallPut(t, c, v)
      PROVE  Programs'
  <2>1. t \in Threads /\ t \notin Streams /\ t # "irq" /\ c \in KnownControls
    BY CtlThreadsAssumption, ControlsAssumption DEF Threads
  <2>2. UNCHANGED pcm BY <1>9 DEF CallGet, CallPut, coreVars
  <2>3. CASE CallGet(t, c)
    BY <2>1, <2>2, <2>3, CtlCalls, ProgramsChange DEF CallGet, Starts
  <2>4. ASSUME NEW v \in Levels, CallPut(t, c, v) PROVE Programs'
    BY <2>1, <2>2, <2>4, CtlCalls, ProgramsChange DEF CallPut, Starts
  <2> QED BY <1>9, <2>3, <2>4
<1>10. ASSUME NEW s \in Used, PeriodEnds(s) PROVE Programs'
  BY <1>1, <1>10 DEF PeriodEnds, coreVars, runVars
<1>11. CASE Buttons BY <1>1, <1>11 DEF Buttons, coreVars, runVars
<1>12. CASE UNCHANGED vars BY <1>1, <1>12 DEF vars, coreVars, runVars
<1>13. Used \subseteq Threads /\ CtlThreads \subseteq Threads BY UsedAssumption DEF Threads
<1> QED
  BY <1>2, <1>3, <1>4, <1>5, <1>6, <1>7, <1>8, <1>9, <1>10, <1>11, <1>12, <1>13 DEF Next, Handler

-----------------------------------------------------------------------------
(* The types.                                                              *)

\* The steps
LEMMA Steps ==
    ASSUME [Next]_vars
    PROVE  \/ \E t \in Threads : Runs(t)
           \/ AckAudio1 \/ TestActive \/ PeriodElapsed \/ Interrupt \/ Buttons
           \/ \E s \in Streams : CoreCalls(s) \/ PeriodEnds(s)
           \/ \E t \in CtlThreads : \E c \in KnownControls :
                CallGet(t, c) \/ \E v \in Levels : CallPut(t, c, v)
           \/ UNCHANGED vars
  BY UsedAssumption, ControlsAssumption, Zenon DEF Next, Handler, Threads

LEMMA ReleaseTyped ==
    ASSUME Typed, NEW t \in Threads, Release(t), Next1(t).bus \in Buses
    PROVE  /\ lock' \in [Buses -> Threads \union {"free"}] /\ DOMAIN selected' = Buses
  BY DEF Release, Typed, TypeOK

LEMMA RunsTyped == ASSUME Typed, Programs, NEW t \in Threads, Runs(t) PROVE Typed'
<1>1. OnBus(t) => Next1(t).bus \in Buses BY Heads DEF OnBus, Next1, WellFormed
<1>2. ~Idle(t) => Made(t, Next1(t)) BY Makes
<1>3. CASE Select(t)
  BY <1>1, <1>3 DEF Select, Typed, TypeOK, privVars, chipVars, coreVars, history
<1>4. CASE WriteData(t)
  BY <1>1, <1>4, ReleaseTyped DEF WriteData, Pops, Typed, TypeOK, privVars, coreVars, history
<1>5. CASE ReadData(t)
  <2>1. OnBus(t) BY <1>5 DEF ReadData
  <2>2. /\ lock' \in [Buses -> Threads \union {"free"}] /\ DOMAIN selected' = Buses
        /\ step' \in [Threads -> {"select", "data", "store"}] /\ DOMAIN seen' = Threads
    BY <1>1, <1>5, <2>1, ReleaseTyped DEF ReadData, Typed, TypeOK
  <2> QED BY <1>5, <2>2 DEF ReadData, Typed, TypeOK, privVars, chipVars, coreVars, history
<1>6. CASE StoreBits(t)
  BY <1>1, <1>6, ReleaseTyped DEF StoreBits, Pops, Typed, TypeOK, privVars, chipVars,
     coreVars, history
<1>7. CASE SetDma1(t)
  BY <1>2, <1>7 DEF SetDma1, Is, Made, Pops, Typed, TypeOK, chipVars, busVars, coreVars, history
<1>8. CASE ProgramDmac(t)
  BY <1>8 DEF ProgramDmac, Pops, Typed, TypeOK, privVars, busVars, coreVars, history
<1>9. CASE ProgramDma2(t)
  BY <1>2, <1>9, ZenonT(60) DEF ProgramDma2, Is, Made, Pops, Typed, TypeOK, privVars, busVars,
     coreVars, history
<1>10. CASE LoadActive(t)
  BY <1>2, <1>10
  DEF LoadActive, InUpdate, Is, Made, Pops, Typed, TypeOK, privVars, chipVars, busVars, coreVars
<1>11. CASE StoreActive(t)
  BY <1>2, <1>11 DEF StoreActive, Is, Made, Pops, Typed, TypeOK, chipVars, busVars, coreVars,
     history
<1> QED BY <1>3, <1>4, <1>5, <1>6, <1>7, <1>8, <1>9, <1>10, <1>11 DEF Runs

LEMMA TypedKept == ASSUME Typed, Programs, [Next]_vars PROVE Typed'
<1> USE DEF Typed, TypeOK
<1>1. CASE AckAudio1
  BY <1>1 DEF AckAudio1, Pops, Threads, privVars, busVars, coreVars, history
<1>2. CASE TestActive
  BY <1>2 DEF TestActive, privVars, chipVars, busVars, coreVars, history
<1>3. CASE PeriodElapsed
  BY <1>3 DEF PeriodElapsed, Pops, Threads, privVars, chipVars, busVars, coreVars
<1>4. CASE Interrupt
  BY <1>4 DEF Interrupt, privVars, chipVars, busVars, coreVars, history
<1>5. CASE Buttons
  BY <1>5 DEF Buttons, privVars, busVars, coreVars, runVars, history
<1>6. ASSUME NEW s \in Streams, CoreCalls(s) PROVE Typed'
  <2>1. CASE Open(s) \/ Close(s)
    <3>1. \E op \in {"open", "close"} : Begins(s, op)
      BY <2>1 DEF Open, capture_open, playback_open, Close
    <3>2. substreams' = substreams \union {s} \/ substreams' = substreams \ {s}
      BY <2>1 DEF Open, capture_open, playback_open, Close
    <3>3. UNCHANGED <<active, dma1, chipVars, busVars, buffer, runVars, history>>
      BY <2>1 DEF Open, Close
    <3> QED BY <1>6, <3>1, <3>2, <3>3 DEF Begins, chipVars, busVars, runVars, history
  <2>2. CASE hw_params(s) \/ hw_free(s)
    BY <1>6, <2>2, ZenonT(60) DEF hw_params, hw_free, Begins, privVars, chipVars, busVars,
       runVars, history
  <2>3. CASE CallPrepare(s)
    BY <1>6, <2>3 DEF CallPrepare, Begins, privVars, chipVars, busVars, history
  <2>4. CASE CallTrigger(s)
    BY <1>6, <2>4 DEF CallTrigger, Begins, privVars, chipVars, busVars
  <2> QED BY <1>6, <2>1, <2>2, <2>3, <2>4 DEF CoreCalls
<1>7. ASSUME NEW s \in Streams, PeriodEnds(s) PROVE Typed'
  BY <1>7 DEF PeriodEnds, privVars, coreVars, runVars
<1>8. ASSUME NEW t \in CtlThreads, NEW c, CallGet(t, c) \/ \E v \in Levels : CallPut(t, c, v)
      PROVE  Typed'
  BY <1>8 DEF CallGet, CallPut, privVars, chipVars, busVars, coreVars, history
<1>9. CASE UNCHANGED vars
  BY <1>9 DEF vars, privVars, chipVars, busVars, coreVars, runVars, history
<1> QED BY <1>1, <1>2, <1>3, <1>4, <1>5, <1>6, <1>7, <1>8, <1>9, Steps, RunsTyped

-----------------------------------------------------------------------------
(* The registers.                                                          *)

\* what an access does to the registers: fields fs of register x on bus b are v now
Wrote(b, x, fs, v) ==
    \A c \in Buses : \A y \in DOMAIN Fields[c] : \A f \in Fields[c][y] :
      regs'[c][y][f] = IF c = b /\ y = x /\ f \in fs THEN v ELSE regs[c][y][f]

LEMMA WriteWrites ==
    ASSUME Programs, Chip, NEW t \in Threads, WriteData(t)
    PROVE  /\ Wrote(Next1(t).bus, Next1(t).reg, Fields[Next1(t).bus][Next1(t).reg], Next1(t).val)
           /\ Shaped(regs') /\ meant' = regs'
           /\ \A c \in Buses : c # Next1(t).bus => regs'[c] = regs[c]
<1> DEFINE a == Next1(t)
<1>1. /\ ~Idle(t) /\ a.bus # "none" /\ step[t] = "data" /\ a.do = "write"
      /\ regs' = [regs EXCEPT ![a.bus][selected[a.bus]] = Whole(a.bus, selected[a.bus], a.val)]
      /\ meant' = [meant EXCEPT ![a.bus][a.reg] = Whole(a.bus, a.reg, a.val)]
  BY DEF WriteData, OnBus, Next1, Stores
<1>2. WellFormed(a) BY <1>1, Heads
<1>3. a.bus \in Buses /\ a.reg \in DOMAIN Fields[a.bus] /\ a.val \in Values
  BY <1>1, <1>2 DEF WellFormed
<1>4. selected[a.bus] = a.reg BY <1>1 DEF Chip, Locked
<1>5. Shaped(regs) /\ meant = regs BY DEF Chip
<1> HIDE DEF a
<1>6. regs' = [regs EXCEPT ![a.bus][a.reg] = [f \in Fields[a.bus][a.reg] |-> a.val]]
  BY <1>1, <1>4 DEF Whole
<1>7. meant' = regs' BY <1>1, <1>4, <1>5
<1>8. \A c \in Buses : \A y \in DOMAIN Fields[c] :
        regs'[c][y] = IF c = a.bus /\ y = a.reg
                        THEN [f \in Fields[a.bus][a.reg] |-> a.val] ELSE regs[c][y]
  BY <1>3, <1>5, <1>6 DEF Shaped
<1>9. Shaped(regs')
  <2>1. regs' = [b \in Buses |-> [x \in DOMAIN Fields[b] |-> regs'[b][x]]]
    BY <1>3, <1>5, <1>6 DEF Shaped
  <2>2. ASSUME NEW b \in Buses, NEW x \in DOMAIN Fields[b]
        PROVE  regs'[b][x] \in [Fields[b][x] -> Values]
    <3>1. CASE b = a.bus /\ x = a.reg
      <4>1. regs'[b][x] = [f \in Fields[b][x] |-> a.val] BY <1>8, <3>1
      <4> QED BY <1>3, <4>1
    <3>2. CASE ~(b = a.bus /\ x = a.reg)
      <4>1. regs'[b][x] = regs[b][x] BY <1>8, <3>2
      <4> QED BY <1>5, <4>1 DEF Shaped
    <3> QED BY <3>1, <3>2
  <2> QED BY <2>1, <2>2 DEF Shaped
<1>10. Wrote(a.bus, a.reg, Fields[a.bus][a.reg], a.val) BY <1>3, <1>8 DEF Wrote
<1>11. \A c \in Buses : c # a.bus => regs'[c] = regs[c] BY <1>3, <1>5, <1>6 DEF Shaped
<1> QED BY <1>7, <1>9, <1>10, <1>11 DEF a

LEMMA StoreWrites ==
    ASSUME Programs, Chip, NEW t \in Threads, StoreBits(t)
    PROVE  /\ Next1(t).do = "bits"
           /\ Wrote(Next1(t).bus, Next1(t).reg, {Next1(t).field}, Next1(t).val)
           /\ Shaped(regs') /\ meant' = regs'
           /\ \A c \in Buses : c # Next1(t).bus => regs'[c] = regs[c]
<1> DEFINE a == Next1(t)
           v == regs[a.bus][a.reg]
<1>1. /\ ~Idle(t) /\ a.bus # "none" /\ step[t] = "store"
      /\ regs' = [regs EXCEPT ![a.bus][selected[a.bus]] = [seen[t] EXCEPT ![a.field] = a.val]]
      /\ meant' = [meant EXCEPT ![a.bus][a.reg][a.field] = a.val]
  BY DEF StoreBits, OnBus, Next1, Stores
<1>2. /\ selected[a.bus] = a.reg /\ a.do = "bits" /\ seen[t] \in [Fields[a.bus][a.reg] -> Values]
      /\ \A f \in Fields[a.bus][a.reg] \ {a.field} : seen[t][f] = v[f]
  BY <1>1 DEF Chip, Locked
<1>3. /\ a.bus \in Buses /\ a.reg \in DOMAIN Fields[a.bus] /\ a.val \in Values
      /\ a.field \in Fields[a.bus][a.reg]
  BY <1>1, <1>2, Heads DEF WellFormed
<1>4. Shaped(regs) /\ meant = regs BY DEF Chip
<1>5. v \in [Fields[a.bus][a.reg] -> Values] BY <1>3, <1>4 DEF Shaped
<1> HIDE DEF a
<1>6. [seen[t] EXCEPT ![a.field] = a.val] = [v EXCEPT ![a.field] = a.val]
  <2> HIDE DEF v
  <2> QED BY <1>2, <1>3, <1>5
<1>7. regs' = [regs EXCEPT ![a.bus][a.reg] = [v EXCEPT ![a.field] = a.val]]
  BY <1>1, <1>2, <1>6
<1>8. meant' = regs'
  BY <1>1, <1>4, <1>7
<1>9. \A c \in Buses : \A y \in DOMAIN Fields[c] :
        regs'[c][y] = IF c = a.bus /\ y = a.reg THEN [v EXCEPT ![a.field] = a.val] ELSE regs[c][y]
  <2> HIDE DEF v
  <2> QED BY <1>3, <1>4, <1>7 DEF Shaped
<1>10. Shaped(regs')
  <2>1. regs' = [b \in Buses |-> [x \in DOMAIN Fields[b] |-> regs'[b][x]]]
    <3> HIDE DEF v
    <3> QED BY <1>3, <1>4, <1>7 DEF Shaped
  <2>2. [v EXCEPT ![a.field] = a.val] \in [Fields[a.bus][a.reg] -> Values] BY <1>3, <1>5
  <2>3. ASSUME NEW b \in Buses, NEW x \in DOMAIN Fields[b]
        PROVE  regs'[b][x] \in [Fields[b][x] -> Values]
    <3> HIDE DEF v
    <3>1. CASE b = a.bus /\ x = a.reg BY <1>9, <2>2, <3>1
    <3>2. CASE ~(b = a.bus /\ x = a.reg)
      <4>1. regs'[b][x] = regs[b][x] BY <1>9, <3>2
      <4> QED BY <1>4, <4>1 DEF Shaped
    <3> QED BY <3>1, <3>2
  <2> QED BY <2>1, <2>3 DEF Shaped
<1>11. Wrote(a.bus, a.reg, {a.field}, a.val)
  <2>1. \A f \in Fields[a.bus][a.reg] :
          [v EXCEPT ![a.field] = a.val][f] = IF f = a.field THEN a.val ELSE v[f]
    <3> HIDE DEF v
    <3> QED BY <1>3, <1>5
  <2> QED BY <1>9, <2>1, ZenonT(60) DEF Wrote
<1>12. \A c \in Buses : c # a.bus => regs'[c] = regs[c]
  <2> HIDE DEF v
  <2> QED BY <1>3, <1>4, <1>7 DEF Shaped
<1> QED BY <1>2, <1>8, <1>10, <1>11, <1>12 DEF a

LEMMA PeriodWrites ==
    ASSUME Chip, NEW s, PeriodEnds(s)
    PROVE  /\ Shaped(regs') /\ meant' = regs'
           /\ \/ UNCHANGED regs
              \/ Wrote("mixer", "control2", {"irq"}, "set") /\ s = "playback1" /\ Transfers2
<1>1. Shaped(regs) /\ meant = regs BY DEF Chip
<1>2. CASE UNCHANGED <<regs, meant>> BY <1>1, <1>2
<1>3. CASE /\ regs' = [regs EXCEPT !["mixer"]["control2"]["irq"] = "set"]
           /\ meant' = [meant EXCEPT !["mixer"]["control2"]["irq"] = "set"]
           /\ s = "playback1" /\ Transfers2
  <2> DEFINE v == regs["mixer"]["control2"]
             w == [v EXCEPT !["irq"] = "set"]
  <2>1. v \in [Fields["mixer"]["control2"] -> Values]
    BY <1>1, FieldsAre DEF Shaped
  <2>2. /\ w \in [Fields["mixer"]["control2"] -> Values]
        /\ \A f \in Fields["mixer"]["control2"] : w[f] = IF f = "irq" THEN "set" ELSE v[f]
    BY <2>1 DEF Values
  <2>3. regs' = [regs EXCEPT !["mixer"]["control2"] = w] BY <1>3
  <2> HIDE DEF v, w
  <2>4. \A c \in Buses : \A y \in DOMAIN Fields[c] :
          regs'[c][y] = IF c = "mixer" /\ y = "control2" THEN w ELSE regs[c][y]
    BY <1>1, <2>3, FieldsAre DEF Shaped
  <2>5. regs' = [b \in Buses |-> [x \in DOMAIN Fields[b] |-> regs'[b][x]]]
    <3>1. "mixer" \in Buses /\ "control2" \in DOMAIN Fields["mixer"] BY FieldsAre
    <3> QED BY <1>1, <2>3, <3>1 DEF Shaped
  <2>6. ASSUME NEW b \in Buses, NEW x \in DOMAIN Fields[b]
        PROVE  regs'[b][x] \in [Fields[b][x] -> Values]
    <3>1. CASE b = "mixer" /\ x = "control2" BY <2>2, <2>4, <3>1
    <3>2. CASE ~(b = "mixer" /\ x = "control2")
      <4>1. regs'[b][x] = regs[b][x] BY <2>4, <3>2
      <4> QED BY <1>1, <4>1 DEF Shaped
    <3> QED BY <3>1, <3>2
  <2>7. Wrote("mixer", "control2", {"irq"}, "set") BY <2>2, <2>4 DEF Wrote, v
  <2> QED BY <1>1, <1>3, <2>5, <2>6, <2>7 DEF Shaped
<1> QED BY <1>2, <1>3 DEF PeriodEnds

\* A thread whose next access is none of the chip's holds no lock, nor does an idle one
LEMMA Unlocked ==
    ASSUME Typed, Locked, NEW t \in Threads, Idle(t) \/ Next1(t).bus = "none"
    PROVE  step[t] = "select"
  BY DEF Locked, OnBus, Next1

\* thread t ends an access, or does something else
LEMMA LockedChange ==
    ASSUME Typed, Locked, NEW t,
           \A u \in Threads \ {t} : /\ todo'[u] = todo[u] /\ step'[u] = step[u]
                                    /\ seen'[u] = seen[u],
           t \in Threads => step'[t] = "select",
           \A u \in Threads \ {t} : step[u] # "select" =>
             LET a == Next1(u) IN
             /\ lock'[a.bus] = lock[a.bus] /\ selected'[a.bus] = selected[a.bus]
             /\ step[u] = "store" =>
                  \A f \in Fields[a.bus][a.reg] \ {a.field} :
                    regs'[a.bus][a.reg][f] = regs[a.bus][a.reg][f]
    PROVE  Locked'
<1> SUFFICES ASSUME NEW u \in Threads, step'[u] # "select"
             PROVE  (LET a == Next1(u) IN
                     /\ OnBus(u) /\ lock[a.bus] = u /\ selected[a.bus] = a.reg
                     /\ step[u] = "store" =>
                          /\ a.do = "bits" /\ seen[u] \in [Fields[a.bus][a.reg] -> Values]
                          /\ \A f \in Fields[a.bus][a.reg] \ {a.field} :
                               seen[u][f] = regs[a.bus][a.reg][f])'
  BY DEF Locked
<1>1. u # t /\ todo'[u] = todo[u] /\ step'[u] = step[u] /\ seen'[u] = seen[u] OBVIOUS
<1>2. step[u] # "select" BY <1>1
<1>3. Next1(u)' = Next1(u) /\ OnBus(u)' = OnBus(u) BY <1>1 DEF Next1, OnBus, Idle
<1>4. LET a == Next1(u) IN
      /\ OnBus(u) /\ lock[a.bus] = u /\ selected[a.bus] = a.reg
      /\ step[u] = "store" =>
           /\ a.do = "bits" /\ seen[u] \in [Fields[a.bus][a.reg] -> Values]
           /\ \A f \in Fields[a.bus][a.reg] \ {a.field} : seen[u][f] = regs[a.bus][a.reg][f]
  BY <1>2 DEF Locked
<1>5. LET a == Next1(u) IN
      /\ lock'[a.bus] = lock[a.bus] /\ selected'[a.bus] = selected[a.bus]
      /\ step[u] = "store" =>
           \A f \in Fields[a.bus][a.reg] \ {a.field} :
             regs'[a.bus][a.reg][f] = regs[a.bus][a.reg][f]
  BY <1>1, <1>2
<1> DEFINE a == Next1(u)
<1>6. OnBus(u)' BY <1>3, <1>4
<1>7. lock'[a.bus] = u /\ selected'[a.bus] = a.reg BY <1>4, <1>5
<1>8. step'[u] = "store" =>
        /\ a.do = "bits" /\ seen'[u] \in [Fields[a.bus][a.reg] -> Values]
        /\ \A f \in Fields[a.bus][a.reg] \ {a.field} : seen'[u][f] = regs'[a.bus][a.reg][f]
  BY <1>1, <1>4, <1>5
<1> HIDE DEF a
<1>9. Next1(u)' = a BY <1>3 DEF a
<1> QED BY <1>6, <1>7, <1>8, <1>9

\* thread t ends its access to the chip
LEMMA LockedRelease ==
    ASSUME Typed, Programs, Locked, NEW t \in Threads, step[t] # "select", Release(t),
           \A u \in Threads \ {t} : /\ todo'[u] = todo[u] /\ step'[u] = step[u]
                                    /\ seen'[u] = seen[u],
           step'[t] = "select",
           \A c \in Buses : c # Next1(t).bus => regs'[c] = regs[c]
    PROVE  Locked'
<1> DEFINE b == Next1(t).bus
<1>1. lock[b] = t BY DEF Locked
<1>2. ASSUME NEW u \in Threads \ {t}, step[u] # "select"
      PROVE  /\ lock[Next1(u).bus] = u /\ Next1(u).bus # b
             /\ lock'[Next1(u).bus] = lock[Next1(u).bus]
             /\ selected'[Next1(u).bus] = selected[Next1(u).bus]
  <2>1. lock[Next1(u).bus] = u BY <1>2 DEF Locked
  <2>2. Next1(u).bus # b BY <1>1, <2>1
  <2> HIDE DEF b
  <2> QED BY <2>1, <2>2 DEF Release, Typed, TypeOK, b
<1>3. ASSUME NEW u \in Threads \ {t}, step[u] # "select", step[u] = "store"
      PROVE  regs'[Next1(u).bus] = regs[Next1(u).bus]
  <2>1. OnBus(u) BY <1>3 DEF Locked
  <2>2. Next1(u).bus \in Buses BY <1>3, <2>1, Heads DEF OnBus, Next1, WellFormed
  <2> QED BY <1>2, <1>3, <2>2
<1> QED BY <1>2, <1>3, LockedChange

LEMMA LockedSelect ==
    ASSUME Typed, Programs, Locked, NEW t \in Threads, Select(t)
    PROVE  Locked'
<1> DEFINE b == Next1(t).bus
<1>1. /\ OnBus(t) /\ step[t] = "select" /\ lock[b] = "free" /\ b \in Buses
      /\ lock' = [lock EXCEPT ![b] = t] /\ selected' = [selected EXCEPT ![b] = Next1(t).reg]
      /\ step' = [step EXCEPT ![t] = "data"] /\ UNCHANGED <<regs, todo, seen>>
  BY Heads DEF Select, OnBus, Next1, WellFormed
<1>2. "free" \notin Threads BY CtlThreadsAssumption DEF Threads, Streams, AudioOne
<1>3. SUFFICES ASSUME NEW u \in Threads, step'[u] # "select"
               PROVE  (LET a == Next1(u) IN
                       /\ OnBus(u) /\ lock[a.bus] = u /\ selected[a.bus] = a.reg
                       /\ step[u] = "store" =>
                            /\ a.do = "bits" /\ seen[u] \in [Fields[a.bus][a.reg] -> Values]
                            /\ \A f \in Fields[a.bus][a.reg] \ {a.field} :
                                 seen[u][f] = regs[a.bus][a.reg][f])'
  BY DEF Locked
<1>4. Next1(u)' = Next1(u) /\ OnBus(u)' = OnBus(u) BY <1>1 DEF Next1, OnBus, Idle
<1>5. CASE u = t
  <2>1. step'[u] = "data" BY <1>1, <1>5 DEF Typed, TypeOK
  <2>2. lock'[b] = t /\ selected'[b] = Next1(t).reg BY <1>1 DEF Typed, TypeOK
  <2> QED BY <1>1, <1>4, <1>5, <2>1, <2>2
<1>6. CASE u # t
  <2>1. step[u] # "select" /\ step'[u] = step[u] BY <1>1, <1>3, <1>6 DEF Typed, TypeOK
  <2>2. lock[Next1(u).bus] = u BY <2>1 DEF Locked
  <2>3. Next1(u).bus # b BY <1>1, <1>2, <2>2
  <2>4. /\ lock'[Next1(u).bus] = lock[Next1(u).bus]
        /\ selected'[Next1(u).bus] = selected[Next1(u).bus]
    <3> HIDE DEF b
    <3> QED BY <1>1, <2>3 DEF Typed, TypeOK
  <2>5. LET a == Next1(u) IN
        /\ OnBus(u) /\ lock[a.bus] = u /\ selected[a.bus] = a.reg
        /\ step[u] = "store" =>
             /\ a.do = "bits" /\ seen[u] \in [Fields[a.bus][a.reg] -> Values]
             /\ \A f \in Fields[a.bus][a.reg] \ {a.field} : seen[u][f] = regs[a.bus][a.reg][f]
    BY <2>1 DEF Locked
  <2> QED BY <1>1, <1>4, <2>1, <2>4, <2>5
<1> QED BY <1>5, <1>6

LEMMA LockedRead ==
    ASSUME Typed, Programs, Chip, NEW t \in Threads, ReadData(t)
    PROVE  Locked'
<1> DEFINE a == Next1(t)
           v == regs[a.bus][selected[a.bus]]
           same == a.do # "read" /\ a.field \in DOMAIN v /\ v[a.field] = a.val
<1> USE DEF Chip
<1>1. OnBus(t) /\ step[t] = "data" /\ UNCHANGED regs BY DEF ReadData
<1>2. CASE /\ a.do = "bits" /\ seen' = [seen EXCEPT ![t] = v]
           /\ step' = [step EXCEPT ![t] = "store"] /\ UNCHANGED <<todo, lock, selected>>
  <2>1. /\ lock[a.bus] = t /\ selected[a.bus] = a.reg
    BY <1>1 DEF Locked
  <2>2. a.bus \in Buses /\ a.reg \in DOMAIN Fields[a.bus]
    BY <1>1, Heads DEF OnBus, Next1, WellFormed
  <2>3. v = regs[a.bus][a.reg] /\ v \in [Fields[a.bus][a.reg] -> Values]
    BY <2>1, <2>2 DEF Shaped
  <2>4. seen'[t] = v BY <1>2 DEF Typed
  <2>5. SUFFICES ASSUME NEW u \in Threads, step'[u] # "select"
                 PROVE  (LET c == Next1(u) IN
                         /\ OnBus(u) /\ lock[c.bus] = u /\ selected[c.bus] = c.reg
                         /\ step[u] = "store" =>
                              /\ c.do = "bits" /\ seen[u] \in [Fields[c.bus][c.reg] -> Values]
                              /\ \A f \in Fields[c.bus][c.reg] \ {c.field} :
                                   seen[u][f] = regs[c.bus][c.reg][f])'
    BY DEF Locked
  <2>6. Next1(u)' = Next1(u) /\ OnBus(u)' = OnBus(u) BY <1>2 DEF Next1, OnBus, Idle
  <2>7. CASE u = t
    <3> HIDE DEF a, v
    <3>1. Next1(u)' = a BY <2>6, <2>7 DEF a
    <3> QED BY <1>1, <1>2, <2>1, <2>3, <2>4, <2>6, <2>7, <3>1
  <2>8. CASE u # t
    <3> HIDE DEF a, v
    <3>1. step[u] # "select" /\ step'[u] = step[u] /\ seen'[u] = seen[u]
      BY <1>2, <2>5, <2>8 DEF Typed, TypeOK
    <3>2. LET c == Next1(u) IN
          /\ OnBus(u) /\ lock[c.bus] = u /\ selected[c.bus] = c.reg
          /\ step[u] = "store" =>
               /\ c.do = "bits" /\ seen[u] \in [Fields[c.bus][c.reg] -> Values]
               /\ \A f \in Fields[c.bus][c.reg] \ {c.field} : seen[u][f] = regs[c.bus][c.reg][f]
      BY <3>1 DEF Locked
    <3> QED BY <1>1, <1>2, <2>6, <3>1, <3>2
  <2> QED BY <2>7, <2>8
<1>3. CASE /\ Release(t) /\ step' = [step EXCEPT ![t] = "select"] /\ UNCHANGED seen
           /\ \E p : todo' = [todo EXCEPT ![t] = p]
  <2>1. \A u \in Threads \ {t} : todo'[u] = todo[u] /\ step'[u] = step[u] /\ seen'[u] = seen[u]
    BY <1>3 DEF Typed, TypeOK, Programs
  <2>2. step'[t] = "select" BY <1>3 DEF Typed, TypeOK
  <2> QED BY <1>1, <1>3, <2>1, <2>2, LockedRelease
<1>4. \/ /\ a.do = "bits" /\ seen' = [seen EXCEPT ![t] = v]
         /\ step' = [step EXCEPT ![t] = "store"] /\ UNCHANGED <<todo, lock, selected>>
      \/ /\ Release(t) /\ step' = [step EXCEPT ![t] = "select"] /\ UNCHANGED seen
         /\ todo' = [todo EXCEPT ![t] = IF a.do = "differs" /\ same THEN <<>> ELSE Tail(@)]
  BY DEF ReadData
<1>5. ASSUME todo' = [todo EXCEPT ![t] = IF a.do = "differs" /\ same THEN <<>> ELSE Tail(@)]
      PROVE  \E p : todo' = [todo EXCEPT ![t] = p]
  <2> HIDE DEF a, same
  <2>1. todo' = [todo EXCEPT ![t] = IF a.do = "differs" /\ same THEN <<>> ELSE Tail(todo[t])]
    BY <1>5
  <2> QED BY <2>1
<1> QED BY <1>2, <1>3, <1>4, <1>5

\* what thread t does beside the chip's registers
LEMMA LockedBeside ==
    ASSUME Typed, Locked, NEW t \in Threads, Idle(t) \/ Next1(t).bus = "none",
           UNCHANGED <<lock, selected, regs, seen>>,
           \A u \in Threads \ {t} : todo'[u] = todo[u] /\ step'[u] = step[u],
           step'[t] \in {step[t], "select"}
    PROVE  Locked'
<1>1. step'[t] = "select" BY Unlocked
<1> QED BY <1>1, LockedChange

LEMMA ChipRuns ==
    ASSUME Typed, Programs, Chip, NEW t \in Threads, Runs(t)
    PROVE  Chip'
<1>1. Shaped(regs) /\ meant = regs /\ Locked BY DEF Chip
<1>2. ASSUME Is(t, "dma1") \/ Is(t, "mask") \/ Is(t, "program") \/ Is(t, "unmask")
             \/ Is(t, "mode2off") \/ Is(t, "mode2on") \/ Is(t, "dma2")
             \/ Is(t, "load") \/ Is(t, "or") \/ Is(t, "andnot"),
             Pops(t), UNCHANGED <<busVars, seen>>
      PROVE  Chip'
  <2>1. ~Idle(t) /\ Next1(t).do \notin OnChip BY <1>2 DEF Is, OnChip
  <2>2. Next1(t).bus = "none" BY <2>1, Makes DEF Made
  <2>3. UNCHANGED <<lock, selected, regs, meant, seen>> BY <1>2 DEF busVars
  <2>4. \A u \in Threads \ {t} : todo'[u] = todo[u] /\ step'[u] = step[u]
    BY <1>2 DEF Pops, Typed, TypeOK, Programs
  <2>5. step'[t] = "select" BY <1>2 DEF Pops, Typed, TypeOK
  <2>6. Locked' BY <1>1, <2>2, <2>3, <2>4, <2>5, LockedBeside
  <2> QED BY <1>1, <2>3, <2>6 DEF Chip, Shaped
<1>3. CASE Select(t)
  <2>1. Locked' BY <1>1, <1>3, LockedSelect
  <2> QED BY <1>1, <1>3, <2>1 DEF Select, Chip, Shaped
<1>4. CASE WriteData(t)
  <2>1. step[t] = "data" /\ Release(t) /\ Pops(t) /\ UNCHANGED seen BY <1>4 DEF WriteData
  <2>2. /\ \A u \in Threads \ {t} : todo'[u] = todo[u] /\ step'[u] = step[u]
        /\ step'[t] = "select"
    BY <2>1 DEF Pops, Typed, TypeOK, Programs
  <2>3. Locked' BY <1>1, <1>4, <2>1, <2>2, WriteWrites, LockedRelease
  <2> QED BY <1>4, <2>3, WriteWrites DEF Chip, Shaped
<1>5. CASE ReadData(t)
  <2>1. Locked' BY <1>5, LockedRead
  <2> QED BY <1>1, <1>5, <2>1 DEF ReadData, Chip, Shaped
<1>6. CASE StoreBits(t)
  <2>1. step[t] = "store" /\ Release(t) /\ Pops(t) /\ seen' = [seen EXCEPT ![t] = <<>>]
    BY <1>6 DEF StoreBits
  <2>2. /\ \A u \in Threads \ {t} : todo'[u] = todo[u] /\ step'[u] = step[u] /\ seen'[u] = seen[u]
        /\ step'[t] = "select"
    BY <2>1 DEF Pops, Typed, TypeOK, Programs
  <2>3. Locked' BY <1>1, <1>6, <2>1, <2>2, StoreWrites, LockedRelease
  <2> QED BY <1>6, <2>3, StoreWrites DEF Chip, Shaped
<1>7. CASE SetDma1(t) BY <1>2, <1>7 DEF SetDma1
<1>8. CASE ProgramDmac(t) BY <1>2, <1>8 DEF ProgramDmac
<1>9. CASE ProgramDma2(t) BY <1>2, <1>9 DEF ProgramDma2
<1>10. CASE LoadActive(t) BY <1>2, <1>10 DEF LoadActive
<1>11. CASE StoreActive(t) BY <1>2, <1>11 DEF StoreActive
<1> QED BY <1>3, <1>4, <1>5, <1>6, <1>7, <1>8, <1>9, <1>10, <1>11 DEF Runs

LEMMA ChipKept == ASSUME Typed, Programs, Chip, [Next]_vars PROVE Chip'
<1>1. Shaped(regs) /\ meant = regs /\ Locked BY DEF Chip
<1>2. ASSUME NEW t \in Threads, Idle(t) \/ Next1(t).bus = "none",
             UNCHANGED <<busVars, seen>>,
             \E p : todo' = [todo EXCEPT ![t] = p],
             UNCHANGED step \/ step' = [step EXCEPT ![t] = "select"]
      PROVE  Chip'
  <2>1. UNCHANGED <<lock, selected, regs, meant, seen>> BY <1>2 DEF busVars
  <2>2. \A u \in Threads \ {t} : todo'[u] = todo[u] /\ step'[u] = step[u]
    BY <1>2 DEF Typed, TypeOK, Programs
  <2>3. step'[t] \in {step[t], "select"} BY <1>2 DEF Typed, TypeOK
  <2>4. Locked' BY <1>1, <1>2, <2>1, <2>2, <2>3, LockedBeside
  <2> QED BY <1>1, <2>1, <2>4 DEF Chip, Shaped
<1>3. ASSUME UNCHANGED <<lock, selected, regs, meant, seen, todo, step>> PROVE Chip'
  <2>1. "free" \notin Threads BY CtlThreadsAssumption DEF Threads, Streams, AudioOne
  <2>2. Locked' BY <1>1, <1>3, <2>1, LockedChange
  <2> QED BY <1>1, <1>3, <2>2 DEF Chip, Shaped
<1>4. "irq" \in Threads BY DEF Threads
<1>5. CASE AckAudio1 \/ TestActive \/ PeriodElapsed
  <2>1. ~Idle("irq") /\ Next1("irq").do \notin OnChip
    BY <1>5 DEF AckAudio1, TestActive, PeriodElapsed, Is, OnChip
  <2>2. Next1("irq").bus = "none" BY <1>4, <2>1, Makes DEF Made
  <2>3. \E p : todo' = [todo EXCEPT !["irq"] = p]
    BY <1>5 DEF AckAudio1, TestActive, PeriodElapsed, Pops, Reporting, Ignores, Starts
  <2>4. /\ UNCHANGED <<busVars, seen>>
        /\ UNCHANGED step \/ step' = [step EXCEPT !["irq"] = "select"]
    BY <1>5 DEF AckAudio1, TestActive, PeriodElapsed, Pops
  <2> QED BY <1>2, <1>4, <2>2, <2>3, <2>4
<1>6. CASE Interrupt BY <1>2, <1>4, <1>6 DEF Interrupt, Starts
<1>7. CASE Buttons BY <1>3, <1>7 DEF Buttons, busVars, runVars
<1>8. ASSUME NEW s \in Streams, CoreCalls(s) PROVE Chip'
  <2>1. CASE Open(s) \/ Close(s) \/ hw_params(s) \/ hw_free(s)
    BY <1>3, <2>1 DEF Open, Close, hw_params, hw_free, busVars, runVars
  <2>2. CASE CallPrepare(s) \/ CallTrigger(s)
    <3>1. s \in Threads BY DEF Threads
    <3>2. Idle(s) /\ UNCHANGED <<busVars, seen, step>>
      BY <2>2 DEF CallPrepare, CallTrigger, Begins
    <3>3. \E p : todo' = [todo EXCEPT ![s] = p] BY <2>2 DEF CallPrepare, CallTrigger, Starts
    <3> QED BY <1>2, <3>1, <3>2, <3>3
  <2> QED BY <1>8, <2>1, <2>2 DEF CoreCalls
<1>9. ASSUME NEW s \in Streams, PeriodEnds(s) PROVE Chip'
  <2>1. UNCHANGED <<lock, selected, todo, step, seen>> BY <1>9 DEF PeriodEnds, runVars
  <2>2. /\ Shaped(regs') /\ meant' = regs'
        /\ \/ UNCHANGED regs
           \/ Wrote("mixer", "control2", {"irq"}, "set")
    BY <1>9, PeriodWrites
  <2>3. CASE UNCHANGED regs BY <1>1, <1>3, <2>1, <2>2, <2>3
  <2>4. CASE Wrote("mixer", "control2", {"irq"}, "set")
    <3>1. ASSUME NEW u \in Threads, step[u] = "store"
          PROVE  LET a == Next1(u) IN
                 \A f \in Fields[a.bus][a.reg] \ {a.field} :
                   regs'[a.bus][a.reg][f] = regs[a.bus][a.reg][f]
      <4> DEFINE a == Next1(u)
      <4>1. OnBus(u) /\ a.do = "bits" BY <1>1, <3>1 DEF Locked
      <4>2. WellFormed(a) /\ a.bus # "none" BY <4>1, Heads DEF OnBus, Next1
      <4>3. /\ a.bus \in Buses /\ a.reg \in DOMAIN Fields[a.bus]
            /\ a.reg = "control2" => a.field = "irq"
        BY <4>1, <4>2 DEF WellFormed
      <4> HIDE DEF a
      <4>4. \A f \in Fields[a.bus][a.reg] \ {a.field} :
              regs'[a.bus][a.reg][f] = regs[a.bus][a.reg][f]
        BY <2>4, <4>3 DEF Wrote
      <4> QED BY <4>4 DEF a
    <3>2. Locked'
      <4>1. "free" \notin Threads BY CtlThreadsAssumption DEF Threads, Streams, AudioOne
      <4>2. \A u \in Threads \ {"free"} :
              /\ todo'[u] = todo[u] /\ step'[u] = step[u] /\ seen'[u] = seen[u]
        BY <2>1
      <4> QED BY <1>1, <2>1, <3>1, <4>1, <4>2, LockedChange
    <3> QED BY <2>2, <3>2 DEF Chip, Shaped
  <2> QED BY <2>2, <2>3, <2>4
<1>10. ASSUME NEW t \in CtlThreads, NEW c, CallGet(t, c) \/ \E v \in Levels : CallPut(t, c, v)
       PROVE  Chip'
  <2>1. t \in Threads BY DEF Threads
  <2>2. Idle(t) /\ UNCHANGED <<busVars, seen, step>> BY <1>10 DEF CallGet, CallPut
  <2>3. \E p : todo' = [todo EXCEPT ![t] = p] BY <1>10 DEF CallGet, CallPut, Starts
  <2> QED BY <1>2, <2>1, <2>2, <2>3
<1>11. CASE UNCHANGED vars BY <1>3, <1>11 DEF vars, busVars, runVars
<1> QED BY <1>5, <1>6, <1>7, <1>8, <1>9, <1>10, <1>11, Steps, ChipRuns

-----------------------------------------------------------------------------
(* The streams.                                                            *)

LEMMA CoreKept == ASSUME Typed, Core, [Next]_vars PROVE Core'
<1>1. ASSUME UNCHANGED <<substreams, buffer, pcm>> PROVE Core' BY <1>1 DEF Core
<1>2. ASSUME NEW t \in Threads, Runs(t) PROVE UNCHANGED <<substreams, buffer, pcm>>
  BY <1>2
  DEF Runs, Select, WriteData, ReadData, StoreBits, SetDma1, ProgramDmac, ProgramDma2, LoadActive,
      StoreActive, privVars, coreVars
<1>3. CASE AckAudio1 \/ TestActive \/ PeriodElapsed \/ Interrupt \/ Buttons
  BY <1>1, <1>3 DEF AckAudio1, TestActive, PeriodElapsed, Interrupt, Buttons, privVars, coreVars
<1>4. ASSUME NEW s \in Streams, CoreCalls(s) PROVE Core'
  <2>1. ASSUME NEW op, pcm' = [pcm EXCEPT ![s] = op]
        PROVE  \A u \in Streams : pcm'[u] = IF u = s THEN op ELSE pcm[u]
    BY <2>1 DEF Typed, TypeOK
  <2>2. CASE Open(s)
    <3>1. /\ pcm' = [pcm EXCEPT ![s] = "open"] /\ pcm[s] = "close" /\ UNCHANGED buffer
          /\ substreams' = substreams \union {s}
          /\ s = "capture" => "playback2" \notin substreams
          /\ s = "playback2" => "capture" \notin substreams
      BY <2>2 DEF Open, capture_open, playback_open, Begins
    <3>2. substreams' = {u \in Streams : pcm'[u] # "close"} BY <2>1, <3>1, ZenonT(60) DEF Core
    <3>3. buffer' = {u \in Streams : pcm'[u] \in {"hw_params", "prepare", "start", "stop"}}
      BY <2>1, <3>1 DEF Core
    <3>4. {"capture", "playback2"} \cap substreams' # {"capture", "playback2"}
      BY <3>1 DEF Core
    <3> QED BY <3>2, <3>3, <3>4 DEF Core
  <2>3. CASE Close(s)
    <3>1. /\ pcm' = [pcm EXCEPT ![s] = "close"] /\ pcm[s] \in {"open", "hw_free"}
          /\ UNCHANGED buffer /\ substreams' = substreams \ {s}
      BY <2>3 DEF Close, Begins
    <3>2. \A u : u \in substreams' <=> u \in Streams /\ pcm'[u] # "close"
      BY <2>1, <3>1 DEF Core
    <3>3. buffer' = {u \in Streams : pcm'[u] \in {"hw_params", "prepare", "start", "stop"}}
      BY <2>1, <3>1 DEF Core
    <3>4. {"capture", "playback2"} \cap substreams' # {"capture", "playback2"}
      BY <3>1 DEF Core
    <3> QED BY <3>2, <3>3, <3>4 DEF Core
  <2>4. CASE hw_params(s)
    <3>1. /\ pcm' = [pcm EXCEPT ![s] = "hw_params"] /\ pcm[s] \in {"open", "hw_free"}
          /\ UNCHANGED substreams /\ buffer' = buffer \union {s}
      BY <2>4 DEF hw_params, Begins, privVars
    <3>2. substreams' = {u \in Streams : pcm'[u] # "close"} BY <2>1, <3>1 DEF Core
    <3>3. \A u : u \in buffer'
                 <=> u \in Streams /\ pcm'[u] \in {"hw_params", "prepare", "start", "stop"}
      <4>1. \A u : u \in buffer
                     <=> u \in Streams /\ pcm[u] \in {"hw_params", "prepare", "start", "stop"}
        BY DEF Core
      <4>2. \A u \in Streams : pcm'[u] = IF u = s THEN "hw_params" ELSE pcm[u] BY <2>1, <3>1
      <4> QED BY <3>1, <4>1, <4>2
    <3>4. buffer' = {u \in Streams : pcm'[u] \in {"hw_params", "prepare", "start", "stop"}}
      BY <3>3
    <3> QED BY <3>1, <3>2, <3>4 DEF Core
  <2>5. CASE hw_free(s)
    <3>1. /\ pcm' = [pcm EXCEPT ![s] = "hw_free"] /\ pcm[s] \in {"hw_params", "prepare", "stop"}
          /\ UNCHANGED substreams /\ buffer' = buffer \ {s}
      BY <2>5 DEF hw_free, Begins, privVars
    <3>2. substreams' = {u \in Streams : pcm'[u] # "close"} BY <2>1, <3>1 DEF Core
    <3>3. \A u : u \in buffer'
                 <=> u \in Streams /\ pcm'[u] \in {"hw_params", "prepare", "start", "stop"}
      <4>1. \A u : u \in buffer
                     <=> u \in Streams /\ pcm[u] \in {"hw_params", "prepare", "start", "stop"}
        BY DEF Core
      <4>2. \A u \in Streams : pcm'[u] = IF u = s THEN "hw_free" ELSE pcm[u] BY <2>1, <3>1
      <4> QED BY <3>1, <4>1, <4>2
    <3>4. buffer' = {u \in Streams : pcm'[u] \in {"hw_params", "prepare", "start", "stop"}}
      BY <3>3
    <3> QED BY <3>1, <3>2, <3>4 DEF Core
  <2>6. CASE CallPrepare(s)
    <3>1. /\ pcm' = [pcm EXCEPT ![s] = "prepare"] /\ pcm[s] \in {"hw_params", "prepare", "stop"}
          /\ UNCHANGED <<substreams, buffer>>
      BY <2>6 DEF CallPrepare, Begins, privVars
    <3>2. substreams' = {u \in Streams : pcm'[u] # "close"} BY <2>1, <3>1 DEF Core
    <3>3. \A u : u \in buffer'
                 <=> u \in Streams /\ pcm'[u] \in {"hw_params", "prepare", "start", "stop"}
      BY <2>1, <3>1 DEF Core
    <3>4. buffer' = {u \in Streams : pcm'[u] \in {"hw_params", "prepare", "start", "stop"}}
      BY <3>3
    <3> QED BY <3>1, <3>2, <3>4 DEF Core
  <2>7. CASE CallTrigger(s)
    <3>1. /\ \E op \in {"start", "stop"} : pcm' = [pcm EXCEPT ![s] = op]
          /\ pcm[s] \in {"prepare", "start"} /\ UNCHANGED <<substreams, buffer>>
      BY <2>7 DEF CallTrigger, Begins, privVars
    <3> QED BY <2>1, <3>1 DEF Core
  <2> QED BY <1>4, <2>2, <2>3, <2>4, <2>5, <2>6, <2>7 DEF CoreCalls
<1>5. ASSUME NEW s \in Streams, PeriodEnds(s) PROVE Core'
  BY <1>1, <1>5 DEF PeriodEnds, privVars, coreVars
<1>6. ASSUME NEW t, NEW c, CallGet(t, c) \/ \E v \in Levels : CallPut(t, c, v) PROVE Core'
  BY <1>1, <1>6 DEF CallGet, CallPut, privVars, coreVars
<1>7. CASE UNCHANGED vars BY <1>1, <1>7 DEF vars, privVars, coreVars
<1> QED BY <1>1, <1>2, <1>3, <1>4, <1>5, <1>6, <1>7, Steps

-----------------------------------------------------------------------------
(* chip->active.                                                           *)

LEMMA PopsHas ==
    ASSUME Programs, NEW t \in Threads, ~Idle(t), todo' = [todo EXCEPT ![t] = Tail(@)]
    PROVE  /\ todo'[t] = Tail(todo[t]) /\ \A u \in Threads \ {t} : todo'[u] = todo[u]
           /\ \A d : HasDo(todo[t], d) <=> (Next1(t).do = d \/ HasDo(todo'[t], d))
           /\ \A r : HasReg(todo[t], r) <=> (Next1(t).reg = r \/ HasReg(todo'[t], r))
<1>1. todo'[t] = Tail(todo[t]) /\ \A u \in Threads \ {t} : todo'[u] = todo[u] BY DEF Programs
<1>2. todo[t] \in Seq(Accesses) /\ todo[t] # <<>> BY DEF Programs, Idle
<1> QED BY <1>1, <1>2, HasTail DEF Next1

LEMMA UpdateFollows ==
    ASSUME NEW S, NEW p \in Seq(S), p # <<>>, StreamOrder(p)
    PROVE  /\ Head(p).do = "load" => Tail(p) # <<>> /\ Head(Tail(p)).do \in Updates
           /\ Head(p).do # "load" => Tail(p) = <<>> \/ Head(Tail(p)).do \notin Updates
           /\ Head(p).do \in Updates => ~HasDo(Tail(p), "or") /\ ~HasDo(Tail(p), "andnot")
<1> DEFINE q == Tail(p)
<1>1. /\ Len(p) \in Nat \ {0} /\ Head(p) = p[1] /\ Len(q) = Len(p) - 1 /\ q \in Seq(S)
      /\ \A i \in 1..Len(q) : q[i] = p[i + 1]
  BY TailIs
<1> HIDE DEF q
<1>2. q # <<>> => Len(q) >= 1 /\ Head(q) = p[2] /\ Len(p) >= 2
  <2>1. q # <<>> => Len(q) \in Nat \ {0} /\ Head(q) = q[1] BY <1>1, TailIs
  <2> QED BY <1>1, <2>1
<1>3. Len(p) >= 2 => q # <<>>
  <2>1. Len(<<>>) = 0 BY EmptySeq
  <2>2. q = <<>> => Len(q) = 0 BY <2>1, Zenon
  <2> QED BY <1>1, <2>2
<1>4. Head(p).do = "load" => Len(p) >= 2 /\ p[2].do \in Updates BY <1>1 DEF StreamOrder
<1>5. Len(p) >= 2 /\ p[2].do \in Updates => p[1].do = "load" BY <1>1 DEF StreamOrder
<1>6. ASSUME Head(p).do \in Updates, NEW i \in 1..Len(q) PROVE q[i].do \notin Updates
  BY <1>1, <1>6 DEF StreamOrder
<1> QED BY <1>1, <1>2, <1>3, <1>4, <1>5, <1>6 DEF HasDo, Updates, q

\* an access of t that is not to chip->active
LEMMA BesideActive ==
    ASSUME Programs, NEW t \in Threads, ~Idle(t), Next1(t).do \notin Updates \union {"load"},
           todo' = [todo EXCEPT ![t] = Tail(@)]
    PROVE  /\ \A s \in Streams : Pending(s)' <=> Pending(s)
           /\ InUpdate' = InUpdate
<1>1. /\ todo'[t] = Tail(todo[t]) /\ \A u \in Threads \ {t} : todo'[u] = todo[u]
      /\ \A d : HasDo(todo[t], d) <=> (Next1(t).do = d \/ HasDo(todo'[t], d))
  BY PopsHas
<1>2. ASSUME NEW s \in Streams
      PROVE  /\ Pending(s)' <=> Pending(s)
             /\ (Is(s, "or") \/ Is(s, "andnot"))' <=> (Is(s, "or") \/ Is(s, "andnot"))
  <2>1. s \in Threads BY DEF Threads
  <2>2. CASE s = t
    <3>1. /\ todo[s] \in Seq(Accesses) /\ todo[s] # <<>> /\ StreamOrder(todo[s])
      BY <2>1, <2>2 DEF Programs, Idle
    <3>2. Tail(todo[s]) = <<>> \/ Head(Tail(todo[s])).do \notin Updates
      BY <2>2, <3>1, UpdateFollows DEF Next1
    <3>3. ~(Is(s, "or") \/ Is(s, "andnot"))' BY <1>1, <2>2, <3>2 DEF Is, Next1, Idle, Updates
    <3>4. ~(Is(s, "or") \/ Is(s, "andnot")) BY <2>2 DEF Is, Updates
    <3>5. Pending(s)' <=> Pending(s) BY <1>1, <2>2 DEF Pending, Updates
    <3> QED BY <3>3, <3>4, <3>5
  <2>3. CASE s # t
    <3>1. todo'[s] = todo[s] BY <1>1, <2>1, <2>3
    <3> QED BY <3>1 DEF Pending, Is, Next1, Idle
  <2> QED BY <2>2, <2>3
<1> QED BY <1>2 DEF InUpdate

\* a callback of stream s begins
LEMMA CallbackBits ==
    ASSUME Programs, NEW s \in Streams, Idle(s), NEW p, todo' = [todo EXCEPT ![s] = p],
           p # <<>> => Head(p).do \notin Updates
    PROVE  /\ ~Pending(s) /\ \A u \in Streams \ {s} : Pending(u)' <=> Pending(u)
           /\ InUpdate' = InUpdate
<1>1. s \in Threads /\ todo'[s] = p /\ \A u \in Streams \ {s} : todo'[u] = todo[u]
  BY DEF Programs, Threads
<1>2. ~Pending(s)
  <2>1. todo[s] = <<>> /\ Len(<<>>) = 0 BY EmptySeq DEF Idle
  <2>2. Len(todo[s]) = 0 BY <2>1, Zenon
  <2> QED BY <2>2 DEF Pending, HasDo
<1>3. \A u \in Streams \ {s} : Pending(u)' <=> Pending(u) BY <1>1 DEF Pending
<1>4. ASSUME NEW u \in Streams
      PROVE  (Is(u, "or") \/ Is(u, "andnot"))' <=> (Is(u, "or") \/ Is(u, "andnot"))
  <2>1. CASE u = s BY <1>1, <2>1 DEF Is, Next1, Idle, Updates
  <2>2. CASE u # s BY <1>1, <2>2 DEF Is, Next1, Idle
  <2> QED BY <2>1, <2>2
<1> QED BY <1>2, <1>3, <1>4 DEF InUpdate

LEMMA BitsChange ==
    ASSUME Bits, UNCHANGED <<active, loaded, raced>>, InUpdate' = InUpdate,
           \A s \in Streams : \/ Pending(s)'
                              \/ ~Pending(s) /\ (pcm'[s] = "start" <=> pcm[s] = "start")
    PROVE  Bits'
<1>1. \A s \in Streams \ raced' : ~Pending(s)' => (s \in active' <=> pcm'[s] = "start")
  BY DEF Bits
<1>2. \A t \in InUpdate' : \A s \in Streams \ raced' : s \in loaded'[t] <=> s \in active'
  BY DEF Bits
<1>3. \A t, u \in InUpdate' : t # u => t \in raced' BY DEF Bits
<1> QED BY <1>1, <1>2, <1>3 DEF Bits

\* What a callback does before it is over
LEMMA CallbackHas ==
    /\ \A s \in AudioOne :
         /\ HasDo(Prepare(s), "dma1") /\ HasDo(Prepare(s), "program") /\ HasDo(Prepare(s), "unmask")
         /\ HasReg(Prepare(s), "analog") /\ HasReg(Prepare(s), "setup")
         /\ HasReg(Trigger(s, FALSE), "dmacontrol")
    /\ HasDo(Prepare("playback1"), "dma2") /\ HasReg(Prepare("playback1"), "setup")
    /\ HasDo(Trigger("playback1", FALSE), "mode2off")
    /\ \A s \in Streams : /\ HasDo(Trigger(s, TRUE), "or") /\ HasDo(Trigger(s, FALSE), "andnot")
                          /\ Head(Prepare(s)).do \notin Updates
                          /\ \A start \in BOOLEAN : Head(Trigger(s, start)).do \notin Updates
<1>1. ASSUME NEW s \in AudioOne, NEW r,
             r = <<Do("dma1", s), bits("analog", "mono", s), write("setup", s),
                   write("setup", s), write("setup", s)>>
                  \o <<Do("mask", "none"), Do("program", "none"), Do("unmask", "none")>>
      PROVE  /\ HasDo(r, "dma1") /\ HasDo(r, "program") /\ HasDo(r, "unmask")
             /\ HasReg(r, "analog") /\ HasReg(r, "setup") /\ Head(r).do \notin Updates
  <2> DEFINE S == {Do("dma1", s), bits("analog", "mono", s), write("setup", s),
                   Do("mask", "none"), Do("program", "none"), Do("unmask", "none")}
             p == <<Do("dma1", s), bits("analog", "mono", s), write("setup", s),
                    write("setup", s), write("setup", s)>>
             q == <<Do("mask", "none"), Do("program", "none"), Do("unmask", "none")>>
  <2>1. /\ Len(p) = 5 /\ p[1].do = "dma1" /\ p[2].reg = "analog" /\ p[3].reg = "setup"
        /\ Len(q) = 3 /\ q[2].do = "program" /\ q[3].do = "unmask"
    BY AccessFields
  <2>2. p \in Seq(S) /\ q \in Seq(S) /\ r = p \o q BY <1>1
  <2> HIDE DEF S, p, q
  <2>3. /\ r \in Seq(S) /\ Len(r) = Len(p) + Len(q)
        /\ \A i \in 1..Len(p) : r[i] = p[i]
        /\ \A i \in 1..Len(q) : r[Len(p) + i] = q[i]
    BY <2>2, ConcatIs
  <2>4. /\ Len(r) = 8 /\ r[1].do = "dma1" /\ r[2].reg = "analog" /\ r[3].reg = "setup"
        /\ r[7].do = "program" /\ r[8].do = "unmask"
    BY <2>1, <2>3
  <2>5. Head(r) = r[1] BY <2>3, <2>4, EmptySeq, TailIs
  <2> QED BY <2>4, <2>5 DEF HasDo, HasReg, Updates
<1>2. ASSUME NEW s \in AudioOne PROVE Prepare(s) = <<Do("dma1", s), bits("analog", "mono", s),
                                                     write("setup", s), write("setup", s),
                                                     write("setup", s)>>
                    \o <<Do("mask", "none"), Do("program", "none"), Do("unmask", "none")>>
  <2>1. Prepare("capture") = capture_prepare /\ Prepare("playback2") = playback2_prepare
    BY DEF Prepare
  <2>2. s = "capture" \/ s = "playback2" BY DEF AudioOne
  <2>3. rate_set("capture") = write("setup", "capture") /\ rate_set("playback2") = write("setup", "playback2")
    BY DEF rate_set
  <2>4. CASE s = "capture"
    BY <2>1, <2>3, <2>4, Zenon DEF capture_prepare, capture_setdma
  <2>5. CASE s = "playback2"
    BY <2>1, <2>3, <2>5, Zenon DEF playback2_prepare, playback2_setdma
  <2> QED BY <2>2, <2>4, <2>5
<1>3. /\ HasDo(Prepare("playback1"), "dma2") /\ HasReg(Prepare("playback1"), "setup")
      /\ Head(Prepare("playback1")).do \notin Updates
  <2> DEFINE S == {mixer_write("setup", "playback1"), mixer_write("control2", "none"),
                   Do("mode2off", "none"), Do("dma2", "playback1")}
             p == <<mixer_write("setup", "playback1"), mixer_write("setup", "playback1"),
                    mixer_write("control2", "none")>>
             q == <<Do("mode2off", "none"), Do("dma2", "playback1")>>
             r == Prepare("playback1")
  <2>1. /\ Len(p) = 3 /\ p[1].do = "write" /\ p[1].reg = "setup"
        /\ Len(q) = 2 /\ q[2].do = "dma2"
    BY AccessFields
  <2>2. p \in Seq(S) /\ q \in Seq(S) OBVIOUS
  <2>3. r = p \o q
    <3>1. r = playback1_prepare BY DEF Prepare
    <3>2. rate_set("playback1") = mixer_write("setup", "playback1") BY DEF rate_set
    <3> QED BY <3>1, <3>2, Zenon DEF playback1_prepare, playback1_setdma
  <2> HIDE DEF S, p, q, r
  <2>4. /\ r \in Seq(S) /\ Len(r) = Len(p) + Len(q)
        /\ \A i \in 1..Len(p) : r[i] = p[i]
        /\ \A i \in 1..Len(q) : r[Len(p) + i] = q[i]
    BY <2>2, <2>3, ConcatIs
  <2>5. Len(r) = 5 /\ r[1].do = "write" /\ r[1].reg = "setup" /\ r[5].do = "dma2" BY <2>1, <2>4
  <2>6. Head(r) = r[1] BY <2>4, <2>5, EmptySeq, TailIs
  <2> QED BY <2>5, <2>6 DEF HasDo, HasReg, Updates, r
<1>4. ASSUME NEW s \in AudioOne, NEW start \in BOOLEAN
      PROVE  /\ HasDo(Trigger(s, start), IF start THEN "or" ELSE "andnot")
             /\ HasReg(Trigger(s, start), "dmacontrol")
             /\ Head(Trigger(s, start)).do \notin Updates
  <2> DEFINE d == IF start THEN "or" ELSE "andnot"
             v == IF start THEN s ELSE "none"
             p == <<Do("load", "none"), Do(d, s), write("dmacontrol", v)>>
  <2>1. Trigger(s, start) = p
    <3>1. /\ Trigger("capture", start) = capture_trigger(start)
          /\ Trigger("playback2", start) = playback2_trigger(start)
      BY DEF Trigger
    <3>2. CASE s = "capture" BY <3>1, <3>2, Zenon DEF capture_trigger
    <3>3. CASE s = "playback2" BY <3>1, <3>3, Zenon DEF playback2_trigger
    <3> QED BY <3>2, <3>3 DEF AudioOne
  <2>2. Len(p) = 3 /\ Head(p).do = "load" /\ p[2].do = d /\ p[3].reg = "dmacontrol"
    BY AccessFields
  <2> HIDE DEF p, d
  <2>3. HasDo(p, d) /\ HasReg(p, "dmacontrol") BY <2>2 DEF HasDo, HasReg
  <2> QED BY <2>1, <2>2, <2>3 DEF Updates, d
<1>5. /\ HasDo(Trigger("playback1", TRUE), "or") /\ HasDo(Trigger("playback1", FALSE), "andnot")
      /\ HasDo(Trigger("playback1", FALSE), "mode2off")
      /\ \A start \in BOOLEAN : Head(Trigger("playback1", start)).do \notin Updates
  <2> DEFINE p == playback1_trigger(TRUE)
             q == playback1_trigger(FALSE)
  <2>1. Trigger("playback1", TRUE) = p /\ Trigger("playback1", FALSE) = q BY DEF Trigger
  <2>2. Len(p) = 5 /\ p[5].do = "or" /\ Head(p).do = "write"
    BY AccessFields DEF playback1_trigger
  <2>3. Len(q) = 4 /\ q[4].do = "andnot" /\ q[1].do = "mode2off" /\ Head(q).do = "mode2off"
    BY AccessFields DEF playback1_trigger
  <2> HIDE DEF p, q
  <2>4. ASSUME NEW start \in BOOLEAN PROVE Head(Trigger("playback1", start)).do \notin Updates
    <3>1. CASE start = TRUE BY <2>1, <2>2, <3>1 DEF Updates
    <3>2. CASE start = FALSE BY <2>1, <2>3, <3>2 DEF Updates
    <3> QED BY <3>1, <3>2
  <2>5. HasDo(p, "or") /\ HasDo(q, "andnot") /\ HasDo(q, "mode2off") BY <2>2, <2>3 DEF HasDo
  <2> QED BY <2>1, <2>4, <2>5
<1>6. Streams = AudioOne \union {"playback1"} BY DEF Streams
<1> QED BY <1>1, <1>2, <1>3, <1>4, <1>5, <1>6

LEMMA LoadBits ==
    ASSUME Typed, Programs, Bits, NEW t \in Threads, LoadActive(t)
    PROVE  Bits'
<1>1. ~Idle(t) /\ Next1(t).do = "load" BY DEF LoadActive, Is
<1>2. t \in Streams BY <1>1, Makes DEF Made
<1>3. /\ loaded' = [loaded EXCEPT ![t] = active] /\ todo' = [todo EXCEPT ![t] = Tail(@)]
      /\ raced' = IF InUpdate = {} THEN raced \ {t} ELSE raced \union InUpdate \union {t}
      /\ UNCHANGED <<active, pcm>>
  BY DEF LoadActive, Pops, privVars, coreVars
<1>4. loaded'[t] = active /\ \A u \in Threads \ {t} : loaded'[u] = loaded[u]
  BY <1>3 DEF Typed, TypeOK
<1>5. /\ todo'[t] = Tail(todo[t]) /\ \A u \in Threads \ {t} : todo'[u] = todo[u]
      /\ \A d : HasDo(todo[t], d) <=> (Next1(t).do = d \/ HasDo(todo'[t], d))
  BY <1>1, <1>3, PopsHas
<1>6. Is(t, "or")' \/ Is(t, "andnot")'
  <2>1. todo[t] \in Seq(Accesses) /\ todo[t] # <<>> /\ StreamOrder(todo[t])
    BY <1>1, <1>2 DEF Programs, Idle
  <2>2. Tail(todo[t]) # <<>> /\ Head(Tail(todo[t])).do \in Updates
    BY <1>1, <2>1, UpdateFollows DEF Next1
  <2> QED BY <1>5, <2>2 DEF Is, Idle, Next1, Updates
<1>7. InUpdate' = InUpdate \union {t}
  <2>1. \A s \in Streams \ {t} : /\ Is(s, "or")' <=> Is(s, "or")
                                 /\ Is(s, "andnot")' <=> Is(s, "andnot")
    BY <1>5 DEF Is, Idle, Next1, Threads
  <2> QED BY <1>2, <1>6, <2>1 DEF InUpdate
<1>8. Pending(t)'
  <2>1. todo'[t] \in Seq(Accesses) /\ todo'[t] # <<>>
    BY <1>1, <1>5, <1>6, TailIs DEF Programs, Idle, Is
  <2>2. HasDo(todo'[t], Head(todo'[t]).do) BY <2>1, HasTail
  <2> QED BY <1>6, <2>2 DEF Pending, Is, Next1
<1>9. \A s \in Streams \ {t} : Pending(s)' <=> Pending(s) BY <1>5 DEF Pending, Threads
<1>10. \A s \in Streams \ raced' : ~Pending(s)' => (s \in active' <=> pcm'[s] = "start")
  BY <1>3, <1>8, <1>9 DEF Bits
<1>11. ASSUME NEW u \in InUpdate', NEW s \in Streams \ raced'
       PROVE  s \in loaded'[u] <=> s \in active'
  <2>1. CASE u = t BY <1>3, <1>4, <2>1
  <2>2. CASE u # t
    <3>1. u \in InUpdate /\ u \in Threads BY <1>7, <2>2 DEF InUpdate, Threads
    <3>2. s \notin raced BY <1>3, <3>1
    <3> QED BY <1>3, <1>4, <2>2, <3>1, <3>2 DEF Bits
  <2> QED BY <2>1, <2>2
<1>12. \A u, v \in InUpdate' : u # v => u \in raced' BY <1>3, <1>7
<1> QED BY <1>10, <1>11, <1>12 DEF Bits

LEMMA StoreActiveBits ==
    ASSUME Typed, Programs, Bits, NEW t \in Threads, StoreActive(t)
    PROVE  Bits'
<1>1. ~Idle(t) /\ Next1(t).do \in Updates BY DEF StoreActive, Is, Updates
<1>2. /\ t \in Streams /\ Next1(t).val = t
      /\ Next1(t).do = "or" => pcm[t] = "start"
      /\ Next1(t).do = "andnot" => pcm[t] = "stop"
  BY <1>1, Makes DEF Made, Updates
<1>3. /\ loaded' = [loaded EXCEPT ![t] = {}] /\ todo' = [todo EXCEPT ![t] = Tail(@)]
      /\ UNCHANGED <<raced, pcm>>
  BY DEF StoreActive, Pops, coreVars, history
<1>4. \/ Next1(t).do = "or" /\ active' = loaded[t] \union {t}
      \/ Next1(t).do = "andnot" /\ active' = loaded[t] \ {t}
  BY <1>2 DEF StoreActive, Is
<1>5. /\ todo'[t] = Tail(todo[t]) /\ \A u \in Threads \ {t} : todo'[u] = todo[u]
      /\ todo[t] \in Seq(Accesses) /\ todo[t] # <<>> /\ StreamOrder(todo[t])
  BY <1>1, <1>2, <1>3, PopsHas DEF Programs, Idle
<1>6. /\ Tail(todo[t]) = <<>> \/ Head(Tail(todo[t])).do \notin Updates
      /\ ~HasDo(Tail(todo[t]), "or") /\ ~HasDo(Tail(todo[t]), "andnot")
  BY <1>1, <1>5, UpdateFollows DEF Next1, Updates
<1>7. t \in InUpdate BY <1>1, <1>2 DEF InUpdate, Is, Updates
<1>8. InUpdate' = InUpdate \ {t}
  <2>1. \A s \in Streams \ {t} : /\ Is(s, "or")' <=> Is(s, "or")
                                 /\ Is(s, "andnot")' <=> Is(s, "andnot")
    BY <1>5 DEF Is, Idle, Next1, Threads
  <2>2. ~Is(t, "or")' /\ ~Is(t, "andnot")' BY <1>5, <1>6 DEF Is, Idle, Next1, Updates
  <2> QED BY <1>2, <2>1, <2>2 DEF InUpdate
<1>9. \A s \in Streams \ {t} : Pending(s)' <=> Pending(s) BY <1>5 DEF Pending, Threads
<1>10. \A s \in Streams \ {t} : s \in loaded[t] <=> s \in active' BY <1>4
<1>11. \A s \in Streams \ raced : s \in loaded[t] <=> s \in active BY <1>7 DEF Bits
<1>12. ASSUME NEW s \in Streams \ raced', ~Pending(s)'
       PROVE  s \in active' <=> pcm'[s] = "start"
  <2>1. CASE s = t BY <1>2, <1>3, <1>4, <2>1
  <2>2. CASE s # t BY <1>3, <1>9, <1>10, <1>11, <1>12, <2>2 DEF Bits
  <2> QED BY <2>1, <2>2
<1>13. ASSUME NEW u \in InUpdate', NEW s \in Streams \ raced'
       PROVE  s \in loaded'[u] <=> s \in active'
  <2>1. u \in InUpdate /\ u # t /\ u \in Threads /\ s \notin raced
    BY <1>3, <1>8 DEF InUpdate, Threads
  <2>2. loaded'[u] = loaded[u] BY <1>3, <2>1 DEF Typed, TypeOK
  <2>3. t \in raced BY <1>7, <2>1 DEF Bits
  <2>4. s \in active <=> s \in active' BY <1>10, <1>11, <2>1, <2>3
  <2> QED BY <2>1, <2>2, <2>4 DEF Bits
<1>14. \A u, v \in InUpdate' : u # v => u \in raced' BY <1>3, <1>8 DEF Bits
<1> QED BY <1>12, <1>13, <1>14 DEF Bits

LEMMA BitsKept == ASSUME Typed, Programs, Bits, [Next]_vars PROVE Bits'
<1>1. ASSUME UNCHANGED <<active, loaded, raced, pcm>>,
             \A s \in Streams : todo'[s] = todo[s]
      PROVE  Bits'
  <2>1. \A s \in Streams : Pending(s)' <=> Pending(s) BY <1>1 DEF Pending
  <2>2. InUpdate' = InUpdate
    <3>1. \A s \in Streams : Is(s, "or")' <=> Is(s, "or") BY <1>1 DEF Is, Idle, Next1
    <3>2. \A s \in Streams : Is(s, "andnot")' <=> Is(s, "andnot") BY <1>1 DEF Is, Idle, Next1
    <3> QED BY <3>1, <3>2 DEF InUpdate
  <2> QED BY <1>1, <2>1, <2>2, BitsChange
<1>2. ASSUME NEW t \in Threads, ~Idle(t), Next1(t).do \notin Updates \union {"load"},
             todo' = [todo EXCEPT ![t] = Tail(@)], UNCHANGED <<active, loaded, raced, pcm>>
      PROVE  Bits'
  BY <1>2, BesideActive, BitsChange
<1>3. ASSUME NEW t \in Threads, t \notin Streams, NEW p, todo' = [todo EXCEPT ![t] = p],
             UNCHANGED <<active, loaded, raced, pcm>>
      PROVE  Bits'
  <2>1. \A s \in Streams : todo'[s] = todo[s] BY <1>3 DEF Programs, Threads
  <2> QED BY <1>1, <1>3, <2>1
<1>4. ASSUME NEW t \in Threads, Runs(t) PROVE Bits'
  <2>1. ASSUME NEW d, Is(t, d), d \notin Updates \union {"load"}, Pops(t),
               UNCHANGED <<active, loaded, raced, pcm>>
        PROVE  Bits'
    BY <1>2, <2>1 DEF Is, Pops
  <2>2. CASE Select(t)
    BY <1>1, <2>2 DEF Select, privVars, coreVars, history
  <2>3. CASE WriteData(t)
    <3>1. ~Idle(t) /\ Next1(t).do = "write" /\ Pops(t) /\ UNCHANGED <<active, loaded, raced, pcm>>
      BY <2>3 DEF WriteData, OnBus, privVars, coreVars, history
    <3> QED BY <1>2, <3>1 DEF Pops, Updates
  <2>4. CASE ReadData(t)
    <3>1. ~Idle(t) /\ UNCHANGED <<active, loaded, raced, pcm>>
      BY <2>4 DEF ReadData, OnBus, privVars, coreVars, history
    <3>2. \/ UNCHANGED todo \/ todo' = [todo EXCEPT ![t] = Tail(@)]
          \/ Next1(t).do = "differs" /\ todo' = [todo EXCEPT ![t] = <<>>]
      BY <2>4 DEF ReadData
    <3>3. Next1(t).do \in OnChip
      <4>1. WellFormed(Next1(t)) /\ Next1(t).bus # "none" BY <2>4, Heads DEF ReadData, OnBus, Next1
      <4> QED BY <4>1 DEF WellFormed
    <3>4. Next1(t).do \notin Updates \union {"load"} BY <3>3 DEF OnChip, Updates
    <3>5. Next1(t).do = "differs" => t \notin Streams BY <3>1, Makes DEF Made
    <3>6. CASE UNCHANGED todo BY <1>1, <3>1, <3>6
    <3>7. CASE todo' = [todo EXCEPT ![t] = Tail(@)] BY <1>2, <3>1, <3>4, <3>7
    <3>8. CASE Next1(t).do = "differs" /\ todo' = [todo EXCEPT ![t] = <<>>]
      BY <1>3, <3>1, <3>5, <3>8
    <3> QED BY <3>2, <3>6, <3>7, <3>8
  <2>5. CASE StoreBits(t)
    <3>1. ~Idle(t) /\ Pops(t) /\ UNCHANGED <<active, loaded, raced, pcm>>
      BY <2>5 DEF StoreBits, OnBus, privVars, coreVars, history
    <3>2. WellFormed(Next1(t)) /\ Next1(t).bus # "none"
      BY <2>5, Heads DEF StoreBits, OnBus, Next1
    <3>3. Next1(t).do \notin Updates \union {"load"} BY <3>2 DEF WellFormed, OnChip, Updates
    <3> QED BY <1>2, <3>1, <3>3 DEF Pops
  <2>6. CASE SetDma1(t)
    BY <2>1, <2>6 DEF SetDma1, Updates, coreVars, history
  <2>7. CASE ProgramDmac(t)
    BY <2>1, <2>7 DEF ProgramDmac, Updates, privVars, coreVars, history
  <2>8. CASE ProgramDma2(t)
    BY <2>1, <2>8 DEF ProgramDma2, Updates, privVars, coreVars, history
  <2> QED BY <1>4, <2>2, <2>3, <2>4, <2>5, <2>6, <2>7, <2>8, LoadBits, StoreActiveBits DEF Runs
<1>5. "irq" \in Threads /\ "irq" \notin Streams BY DEF Threads, Streams, AudioOne
<1>6. CASE AckAudio1 \/ TestActive \/ PeriodElapsed \/ Interrupt
  <2>1. \E p : todo' = [todo EXCEPT !["irq"] = p]
    BY <1>6 DEF AckAudio1, TestActive, PeriodElapsed, Interrupt, Pops, Reporting, Ignores, Starts
  <2>2. UNCHANGED <<active, loaded, raced, pcm>>
    BY <1>6 DEF AckAudio1, TestActive, PeriodElapsed, Interrupt, privVars, coreVars, history
  <2> QED BY <1>3, <1>5, <2>1, <2>2
<1>7. CASE Buttons BY <1>1, <1>7 DEF Buttons, privVars, coreVars, runVars, history
<1>8. ASSUME NEW s \in Streams, CoreCalls(s) PROVE Bits'
  <2>1. ASSUME NEW op, Begins(s, op) PROVE \A u \in Streams : pcm'[u] = IF u = s THEN op ELSE pcm[u]
    BY <2>1 DEF Begins, Typed, TypeOK
  <2>2. ASSUME NEW op, Begins(s, op), op # "start", pcm[s] # "start", UNCHANGED todo
        PROVE  /\ \A u \in Streams : Pending(u)' <=> Pending(u)
               /\ InUpdate' = InUpdate /\ ~Pending(s)
               /\ \A u \in Streams : pcm'[u] = "start" <=> pcm[u] = "start"
    <3>1. Idle(s) BY <2>2 DEF Begins
    <3>2. todo[s] = <<>> /\ todo' = [todo EXCEPT ![s] = <<>>]
      BY <2>2, <3>1 DEF Idle, Programs
    <3>3. ~Pending(s) /\ InUpdate' = InUpdate BY <3>1, <3>2, CallbackBits
    <3>4. \A u \in Streams : Pending(u)' <=> Pending(u) BY <2>2 DEF Pending
    <3> QED BY <2>1, <2>2, <3>3, <3>4
  <2>3. CASE Open(s) \/ Close(s) \/ hw_params(s) \/ hw_free(s)
    <3>1. \E op \in {"open", "close", "hw_params", "hw_free"} : Begins(s, op)
      BY <2>3 DEF Open, capture_open, playback_open, Close, hw_params, hw_free
    <3>2. pcm[s] # "start" BY <2>3 DEF Open, capture_open, playback_open, Close, hw_params, hw_free
    <3>3. UNCHANGED <<active, loaded, raced, todo>>
      BY <2>3 DEF Open, Close, hw_params, hw_free, privVars, runVars, history
    <3> QED BY <2>2, <3>1, <3>2, <3>3, BitsChange
  <2>4. CASE CallPrepare(s)
    <3>1. /\ Begins(s, "prepare") /\ Idle(s) /\ pcm[s] # "start"
          /\ todo' = [todo EXCEPT ![s] = Prepare(s)] /\ UNCHANGED <<active, loaded, raced>>
      BY <2>4 DEF CallPrepare, Begins, Starts, privVars, history
    <3>2. /\ ~Pending(s) /\ \A u \in Streams \ {s} : Pending(u)' <=> Pending(u)
          /\ InUpdate' = InUpdate
      BY <3>1, CallbackHas, CallbackBits
    <3>3. \A u \in Streams : pcm'[u] = "start" <=> pcm[u] = "start" BY <2>1, <3>1
    <3> QED BY <3>1, <3>2, <3>3, BitsChange
  <2>5. CASE CallTrigger(s)
    <3>1. PICK op \in {"start", "stop"} : Begins(s, op) BY <2>5 DEF CallTrigger
    <3>2. pcm'[s] = op /\ \A u \in Streams \ {s} : pcm'[u] = pcm[u] BY <2>1, <3>1
    <3>3. PICK start \in BOOLEAN : start = (pcm'[s] = "start") OBVIOUS
    <3>4. /\ Idle(s) /\ todo' = [todo EXCEPT ![s] = Trigger(s, start)]
          /\ UNCHANGED <<active, loaded, raced>>
      BY <2>5, <3>1, <3>3 DEF CallTrigger, Begins, Starts, privVars
    <3>5. \A u \in Streams \ {s} : Pending(u)' <=> Pending(u)
      BY <3>4, CallbackHas, CallbackBits
    <3>6. Pending(s)'
      <4>1. todo'[s] = Trigger(s, start) BY <3>4 DEF Programs, Threads
      <4>2. CASE start = TRUE BY <4>1, <4>2, CallbackHas DEF Pending
      <4>3. CASE start = FALSE BY <4>1, <4>3, CallbackHas DEF Pending
      <4> QED BY <4>2, <4>3
    <3>7. InUpdate' = InUpdate BY <3>4, CallbackHas, CallbackBits
    <3>8. \A u \in Streams : \/ Pending(u)'
                             \/ ~Pending(u) /\ (pcm'[u] = "start" <=> pcm[u] = "start")
      BY <3>2, <3>5, <3>6
    <3> QED BY <3>4, <3>7, <3>8, BitsChange
  <2> QED BY <1>8, <2>3, <2>4, <2>5 DEF CoreCalls
<1>9. ASSUME NEW s \in Streams, PeriodEnds(s) PROVE Bits'
  BY <1>1, <1>9 DEF PeriodEnds, privVars, coreVars, runVars
<1>10. ASSUME NEW t \in CtlThreads, NEW c, CallGet(t, c) \/ \E v \in Levels : CallPut(t, c, v)
       PROVE  Bits'
  <2>1. t \in Threads /\ t \notin Streams BY CtlThreadsAssumption DEF Threads
  <2>2. \E p : todo' = [todo EXCEPT ![t] = p] BY <1>10 DEF CallGet, CallPut, Starts
  <2>3. UNCHANGED <<active, loaded, raced, pcm>>
    BY <1>10 DEF CallGet, CallPut, privVars, coreVars, history
  <2> QED BY <1>3, <2>1, <2>2, <2>3
<1>11. CASE UNCHANGED vars BY <1>1, <1>11 DEF vars, privVars, coreVars, runVars, history
<1> QED BY <1>4, <1>6, <1>7, <1>8, <1>9, <1>10, <1>11, Steps

-----------------------------------------------------------------------------
(* Channels.                                                               *)

LEMMA WroteField ==
    ASSUME NEW b, NEW x, NEW fs, NEW v, Wrote(b, x, fs, v)
    PROVE  /\ Mono(regs') = IF b = "command" /\ x = "analog" /\ "mono" \in fs THEN v ELSE Mono(regs)
           /\ Setup1(regs') = IF b = "command" /\ x = "setup" /\ "all" \in fs THEN v ELSE Setup1(regs)
           /\ Setup2(regs') = IF b = "mixer" /\ x = "setup" /\ "all" \in fs THEN v ELSE Setup2(regs)
           /\ Control1(regs') = IF b = "command" /\ x = "dmacontrol" /\ "all" \in fs
                                  THEN v ELSE Control1(regs)
           /\ Irq2(regs') = IF b = "mixer" /\ x = "control2" /\ "irq" \in fs THEN v ELSE Irq2(regs)
<1>1. /\ {"mixer", "command"} \subseteq Buses
      /\ {"setup", "control2"} \subseteq DOMAIN Fields["mixer"]
      /\ {"setup", "analog", "dmacontrol"} \subseteq DOMAIN Fields["command"]
      /\ "all" \in Fields["mixer"]["setup"] /\ "irq" \in Fields["mixer"]["control2"]
      /\ "all" \in Fields["command"]["setup"] /\ "mono" \in Fields["command"]["analog"]
      /\ "all" \in Fields["command"]["dmacontrol"]
  BY FieldsAre
<1> QED BY <1>1 DEF Wrote, Mono, Setup1, Setup2, Control1, Irq2

\* who changes the registers of the channels
LEMMA RunWrites ==
    ASSUME Typed, Programs, Chip, NEW t \in Threads, Runs(t)
    PROVE  /\ UNCHANGED pcm
           /\ Mono(regs') = Mono(regs) \/ (t \in AudioOne /\ pcm[t] = "prepare" /\ Mono(regs') = t)
           /\ Setup1(regs') = Setup1(regs)
              \/ (t \in AudioOne /\ pcm[t] = "prepare" /\ Setup1(regs') = t)
           /\ Setup2(regs') = Setup2(regs) \/ Setup2(regs') = "playback1"
           /\ Control1(regs') = Control1(regs)
              \/ /\ t \in AudioOne /\ pcm[t] \in {"start", "stop"}
                 /\ Control1(regs') = IF pcm[t] = "start" THEN t ELSE "none"
           /\ Irq2(regs') = Irq2(regs)
              \/ (t = "playback1" /\ pcm[t] = "prepare") \/ (t = "irq" /\ Is(t, "bits"))
<1>1. UNCHANGED pcm
  BY DEF Runs, Select, WriteData, ReadData, StoreBits, SetDma1, ProgramDmac, ProgramDma2,
         LoadActive, StoreActive, coreVars
<1>2. ASSUME UNCHANGED regs
      PROVE  /\ Mono(regs') = Mono(regs) /\ Setup1(regs') = Setup1(regs) /\ Setup2(regs') = Setup2(regs)
             /\ Control1(regs') = Control1(regs) /\ Irq2(regs') = Irq2(regs)
  BY <1>2
<1>3. CASE ~WriteData(t) /\ ~StoreBits(t)
  <2>1. UNCHANGED regs
    BY <1>3 DEF Runs, Select, ReadData, SetDma1, ProgramDmac, ProgramDma2, LoadActive, StoreActive,
                busVars
  <2> QED BY <1>1, <1>2, <2>1
<1>4. CASE WriteData(t)
  <2> DEFINE a == Next1(t)
             fs == Fields[a.bus][a.reg]
  <2>1. a.do = "write" /\ Made(t, a) /\ Wrote(a.bus, a.reg, fs, a.val)
    BY <1>4, Makes, WriteWrites DEF WriteData, OnBus
  <2> HIDE DEF a, fs
  <2> QED BY <1>1, <2>1, WroteField DEF Made, Streams
<1>5. CASE StoreBits(t)
  <2> DEFINE a == Next1(t)
             f == a.field
  <2>1. /\ a.do = "bits" /\ Made(t, a) /\ Wrote(a.bus, a.reg, {f}, a.val) /\ Is(t, "bits")
    BY <1>5, Makes, StoreWrites DEF StoreBits, OnBus, Is
  <2>2. f = a.field OBVIOUS
  <2> HIDE DEF a, f
  <2> QED BY <1>1, <2>1, <2>2, WroteField DEF Made
<1> QED BY <1>3, <1>4, <1>5

\* what is true once a stream has done an access
Done(t, a) ==
    /\ a.do = "dma1" => dma1' = t
    /\ a.do # "dma1" => dma1' = dma1
    /\ a.do = "program" => dmac'.owner = dma1
    /\ a.do # "program" => dmac'.owner = dmac.owner
    /\ a.do = "unmask" => ~dmac'.masked
    /\ a.do # "mask" => (dmac'.masked => dmac.masked)
    /\ a.reg = "analog" => Mono(regs') = t
    /\ a.reg = "setup" => IF t = "playback1" THEN Setup2(regs') = t ELSE Setup1(regs') = t
    /\ a.reg = "dmacontrol" => Control1(regs') = IF pcm[t] = "start" THEN t ELSE "none"
    /\ a.do = "dma2" => dma2' = "playback1"
    /\ a.do = "mode2off" => ~mode2'

LEMMA RunPops ==
    ASSUME Typed, Programs, Chip, NEW t \in Streams, Runs(t)
    PROVE  \/ UNCHANGED <<todo, dma1, dmac, dma2, mode2, regs>>
           \/ ~Idle(t) /\ todo' = [todo EXCEPT ![t] = Tail(@)] /\ Done(t, Next1(t))
<1> DEFINE a == Next1(t)
<1>1. t \in Threads BY DEF Threads
<1>2. CASE Select(t) BY <1>2 DEF Select, privVars, chipVars
<1>3. CASE WriteData(t)
  <2> DEFINE fs == Fields[a.bus][a.reg]
  <2>1. /\ ~Idle(t) /\ a.do = "write" /\ Made(t, a) /\ todo' = [todo EXCEPT ![t] = Tail(@)]
        /\ UNCHANGED <<dma1, dmac, dma2, mode2>>
    BY <1>1, <1>3, Makes DEF WriteData, OnBus, Pops, privVars
  <2>2. Wrote(a.bus, a.reg, fs, a.val) BY <1>1, <1>3, WriteWrites
  <2>3. a.bus \in {"mixer", "command"}
    BY <1>1, <1>3, Heads, FieldsAre DEF WriteData, OnBus, Next1, WellFormed
  <2>4. /\ Fields["mixer"]["setup"] = {"all"} /\ Fields["command"]["setup"] = {"all"}
        /\ Fields["command"]["dmacontrol"] = {"all"}
    BY FieldsAre
  <2>5. fs = Fields[a.bus][a.reg] OBVIOUS
  <2> HIDE DEF a, fs
  <2>6. Done(t, a)
    <3>1. a.reg = "setup" => a.bus = IF t = "playback1" THEN "mixer" ELSE "command"
      BY <2>1, <2>3 DEF Made, Streams, AudioOne
    <3>2. a.reg = "setup" => IF t = "playback1" THEN Setup2(regs') = t ELSE Setup1(regs') = t
      BY <2>1, <2>2, <2>4, <2>5, <3>1, WroteField DEF Made
    <3>3. a.reg = "dmacontrol" => t \in AudioOne /\ a.val = IF pcm[t] = "start" THEN t ELSE "none"
      BY <2>1 DEF Made
    <3>4. a.reg = "dmacontrol" => a.bus = "command" BY <2>1, <2>3, <3>3 DEF Made
    <3>5. a.reg = "dmacontrol" => Control1(regs') = IF pcm[t] = "start" THEN t ELSE "none"
      BY <2>2, <2>4, <2>5, <3>3, <3>4, WroteField
    <3>6. a.reg # "analog" BY <2>1 DEF Made
    <3> QED BY <2>1, <3>2, <3>5, <3>6 DEF Done
  <2> QED BY <2>1, <2>6 DEF a
<1>4. ASSUME ~Idle(t), a.do = "bits", Mono(regs') = t, UNCHANGED <<dma1, dmac, dma2, mode2>>
      PROVE  Done(t, a)
  <2>1. Made(t, a) BY <1>1, <1>4, Makes
  <2>2. a.reg = "analog" BY <1>4, <2>1 DEF Made
  <2> HIDE DEF a
  <2> QED BY <1>4, <2>2 DEF Done
<1>5. CASE ReadData(t)
  <2>1. /\ ~Idle(t) /\ Made(t, a) /\ WellFormed(a) /\ a.bus # "none" /\ a.do # "write" /\ step[t] = "data"
    BY <1>1, <1>5, Heads, Makes DEF ReadData, OnBus, Next1
  <2>2. a.do = "bits"
    <3> HIDE DEF a
    <3> QED BY <2>1 DEF Made, WellFormed, OnChip
  <2>3. a.bus = "command" /\ a.reg = "analog" /\ a.field = "mono" /\ a.val = t
    <3> HIDE DEF a
    <3> QED BY <2>1, <2>2 DEF Made
  <2>4. selected[a.bus] = a.reg BY <1>1, <2>1 DEF Chip, Locked
  <2>5. UNCHANGED <<dma1, dmac, dma2, mode2, regs>> BY <1>5 DEF ReadData, privVars, chipVars
  <2>6. CASE UNCHANGED todo BY <2>5, <2>6
  <2>7. CASE ~UNCHANGED todo
    <3>1. todo' = [todo EXCEPT ![t] = Tail(@)] BY <1>5, <2>2, <2>7 DEF ReadData
    <3>2. regs[a.bus][selected[a.bus]][a.field] = a.val BY <1>5, <2>2, <2>7 DEF ReadData
    <3>3. Mono(regs') = t BY <2>3, <2>4, <2>5, <3>2 DEF Mono
    <3> QED BY <1>4, <2>1, <2>2, <2>5, <3>1, <3>3
  <2> QED BY <2>6, <2>7
<1>6. CASE StoreBits(t)
  <2>1. /\ ~Idle(t) /\ todo' = [todo EXCEPT ![t] = Tail(@)] /\ Made(t, a)
        /\ UNCHANGED <<dma1, dmac, dma2, mode2>>
    BY <1>1, <1>6, Makes DEF StoreBits, OnBus, Pops, privVars, chipVars
  <2>2. a.do = "bits" /\ Wrote(a.bus, a.reg, {a.field}, a.val) BY <1>1, <1>6, StoreWrites
  <2>3. a.bus = "command" /\ a.reg = "analog" /\ a.field = "mono" /\ a.val = t
    <3> HIDE DEF a
    <3> QED BY <2>1, <2>2 DEF Made
  <2>4. Mono(regs') = t BY <2>2, <2>3, WroteField
  <2> QED BY <1>4, <2>1, <2>2, <2>4
<1>7. ASSUME NEW d, Is(t, d), Pops(t), d \notin OnChip
      PROVE  ~Idle(t) /\ todo' = [todo EXCEPT ![t] = Tail(@)] /\ Made(t, a) /\ a.do = d /\ a.reg = "none"
  <2>1. ~Idle(t) /\ a.do = d /\ Made(t, a) BY <1>1, <1>7, Makes DEF Is
  <2>2. a.reg = "none"
    <3> HIDE DEF a
    <3> QED BY <1>7, <2>1 DEF Made
  <2> QED BY <1>7, <2>1, <2>2 DEF Pops
<1>8. CASE SetDma1(t)
  <2>1. Is(t, "dma1") /\ Pops(t) /\ dma1' = a.val /\ UNCHANGED <<dmac, dma2, mode2, regs>>
    BY <1>8 DEF SetDma1, chipVars, busVars
  <2>2. ~Idle(t) /\ todo' = [todo EXCEPT ![t] = Tail(@)] /\ Made(t, a) /\ a.do = "dma1" /\ a.reg = "none"
    BY <1>7, <2>1 DEF OnChip
  <2>3. a.val = t
    <3> HIDE DEF a
    <3> QED BY <2>2 DEF Made
  <2> HIDE DEF a
  <2>4. Done(t, a) BY <2>1, <2>2, <2>3 DEF Done
  <2> QED BY <2>2, <2>4 DEF a
<1>9. CASE ProgramDmac(t)
  <2>1. PICK d \in {"mask", "program", "unmask"} : Is(t, d) BY <1>9 DEF ProgramDmac
  <2>2. Pops(t) /\ UNCHANGED <<dma1, dma2, mode2, regs>>
    BY <1>9 DEF ProgramDmac, privVars, busVars
  <2>3. ~Idle(t) /\ todo' = [todo EXCEPT ![t] = Tail(@)] /\ Made(t, a) /\ a.do = d /\ a.reg = "none"
    BY <1>7, <2>1, <2>2 DEF OnChip
  <2>4. \/ d = "mask"    /\ dmac' = [dmac EXCEPT !.masked = TRUE]
        \/ d = "program" /\ dmac' = [dmac EXCEPT !.owner = dma1]
        \/ d = "unmask"  /\ dmac' = [dmac EXCEPT !.masked = FALSE]
    BY <1>9, <2>3 DEF ProgramDmac, Is
  <2> HIDE DEF a
  <2>5. Done(t, a) BY <2>2, <2>3, <2>4 DEF Done, Typed, TypeOK
  <2> QED BY <2>3, <2>5 DEF a
<1>10. CASE ProgramDma2(t)
  <2>1. PICK d \in {"mode2off", "mode2on", "dma2"} : Is(t, d) BY <1>10 DEF ProgramDma2
  <2>2. Pops(t) /\ UNCHANGED <<dma1, dmac, regs>>
    BY <1>10 DEF ProgramDma2, privVars, busVars
  <2>3. ~Idle(t) /\ todo' = [todo EXCEPT ![t] = Tail(@)] /\ Made(t, a) /\ a.do = d /\ a.reg = "none"
    BY <1>7, <2>1, <2>2 DEF OnChip
  <2>4. \/ d = "mode2off" /\ mode2' = FALSE
        \/ d = "mode2on"
        \/ d = "dma2" /\ dma2' = a.val
    BY <1>10, <2>3 DEF ProgramDma2, Is
  <2> HIDE DEF a
  <2>5. Done(t, a) BY <2>2, <2>3, <2>4 DEF Done, Made
  <2> QED BY <2>3, <2>5 DEF a
<1>11. CASE LoadActive(t) \/ StoreActive(t)
  <2>1. Pops(t) /\ UNCHANGED <<dma1, dmac, dma2, mode2, regs>>
    BY <1>11 DEF LoadActive, StoreActive, privVars, chipVars, busVars
  <2>2. PICK d \in Updates \union {"load"} : Is(t, d)
    BY <1>11 DEF LoadActive, StoreActive, Updates
  <2>3. ~Idle(t) /\ todo' = [todo EXCEPT ![t] = Tail(@)] /\ Made(t, a) /\ a.do = d /\ a.reg = "none"
    BY <1>7, <2>1, <2>2 DEF OnChip, Updates
  <2> HIDE DEF a
  <2>4. Done(t, a) BY <2>1, <2>2, <2>3 DEF Done, Updates
  <2> QED BY <2>3, <2>4 DEF a
<1> QED BY <1>2, <1>3, <1>5, <1>6, <1>8, <1>9, <1>10, <1>11 DEF Runs

LEMMA Alone ==
    ASSUME Core, NEW s \in AudioOne, NEW t \in AudioOne, pcm[s] # "close", pcm[t] # "close"
    PROVE  s = t
  BY DEF Core, AudioOne, Streams

LEMMA RunDma ==
    ASSUME Typed, Programs, NEW t \in Threads, Runs(t)
    PROVE  /\ UNCHANGED pcm /\ \A u \in Threads \ {t} : todo'[u] = todo[u]
           /\ UNCHANGED <<dma1, dmac>> \/ (t \in AudioOne /\ pcm[t] = "prepare")
           /\ dma2' = dma2 \/ dma2' = "playback1"
           /\ mode2' => mode2 \/ pcm["playback1"] = "start"
<1>1. UNCHANGED pcm
  BY DEF Runs, Select, WriteData, ReadData, StoreBits, SetDma1, ProgramDmac, ProgramDma2,
         LoadActive, StoreActive, coreVars
<1>2. \A u \in Threads \ {t} : todo'[u] = todo[u]
  BY DEF Runs, Select, WriteData, ReadData, StoreBits, SetDma1, ProgramDmac, ProgramDma2,
         LoadActive, StoreActive, Pops, Programs
<1>3. CASE SetDma1(t)
  BY <1>1, <1>2, <1>3, Makes DEF SetDma1, Is, Made, chipVars
<1>4. CASE ProgramDmac(t)
  BY <1>1, <1>2, <1>4, Makes DEF ProgramDmac, Is, Made
<1>5. CASE ProgramDma2(t)
  BY <1>1, <1>2, <1>5, Makes DEF ProgramDma2, Is, Made, privVars
<1>6. CASE ~SetDma1(t) /\ ~ProgramDmac(t) /\ ~ProgramDma2(t)
  <2>1. UNCHANGED <<dma1, dmac, dma2, mode2>>
    BY <1>6 DEF Runs, Select, WriteData, ReadData, StoreBits, LoadActive, StoreActive,
       privVars, chipVars
  <2> QED BY <1>1, <1>2, <2>1
<1> QED BY <1>3, <1>4, <1>5, <1>6

LEMMA PreparedRuns ==
    ASSUME Typed, Programs, Chip, Core, Prepared, NEW t \in Threads, Runs(t)
    PROVE  Prepared'
<1>1. /\ UNCHANGED pcm /\ \A u \in Threads \ {t} : todo'[u] = todo[u]
      /\ UNCHANGED <<dma1, dmac>> \/ (t \in AudioOne /\ pcm[t] = "prepare")
      /\ dma2' = dma2 \/ dma2' = "playback1"
  BY RunDma
<1>2. /\ Mono(regs') = Mono(regs) \/ (t \in AudioOne /\ pcm[t] = "prepare" /\ Mono(regs') = t)
      /\ Setup1(regs') = Setup1(regs)
         \/ (t \in AudioOne /\ pcm[t] = "prepare" /\ Setup1(regs') = t)
      /\ Setup2(regs') = Setup2(regs) \/ Setup2(regs') = "playback1"
  BY RunWrites
<1>3. ASSUME t \in Streams
      PROVE  \/ UNCHANGED <<todo, dma1, dmac, dma2, mode2, regs>>
             \/ /\ ~Idle(t) /\ Done(t, Next1(t))
                /\ \A d : HasDo(todo[t], d) <=> (Next1(t).do = d \/ HasDo(todo'[t], d))
                /\ \A r : HasReg(todo[t], r) <=> (Next1(t).reg = r \/ HasReg(todo'[t], r))
  BY <1>3, RunPops, PopsHas
<1>4. ASSUME NEW s \in AudioOne, pcm[s] \in Callbacks PROVE Ready1(s)'
  <2>1. Ready1(s) /\ s \in Streams /\ s \in Threads BY <1>4 DEF Prepared, Streams, Threads
  <2>2. CASE s # t
    <3>1. todo'[s] = todo[s] BY <1>1, <2>1, <2>2
    <3>2. ~(t \in AudioOne /\ pcm[t] = "prepare") BY <1>4, <2>2, Alone DEF Callbacks
    <3> QED BY <1>1, <1>2, <2>1, <3>1, <3>2 DEF Ready1
  <2>3. CASE s = t /\ UNCHANGED <<todo, dma1, dmac, dma2, mode2, regs>>
    BY <2>1, <2>3 DEF Ready1
  <2>4. ASSUME s = t, ~Idle(t), Done(t, Next1(t)),
               \A d : HasDo(todo[t], d) <=> (Next1(t).do = d \/ HasDo(todo'[t], d)),
               \A r : HasReg(todo[t], r) <=> (Next1(t).reg = r \/ HasReg(todo'[t], r))
        PROVE  Ready1(s)'
    <3> DEFINE a == Next1(t)
    <3>1. a.do = "program" => dma1 = s
      <4>1. todo[t] \in Seq(Accesses) /\ todo[t] # <<>> /\ StreamOrder(todo[t])
        BY <2>1, <2>4 DEF Programs, Idle
      <4>2. Len(todo[t]) \in Nat \ {0} /\ a = todo[t][1] BY <4>1, TailIs DEF Next1
      <4>3. a.do = "program" => ~HasDo(todo[t], "dma1") BY <4>1, <4>2 DEF StreamOrder, HasDo
      <4> QED BY <2>1, <2>4, <4>3 DEF Ready1
    <3>2. a.do = "mask" => HasDo(todo[t], "unmask")
      <4>1. todo[t] \in Seq(Accesses) /\ todo[t] # <<>> /\ StreamOrder(todo[t])
        BY <2>1, <2>4 DEF Programs, Idle
      <4>2. Len(todo[t]) \in Nat \ {0} /\ a = todo[t][1] BY <4>1, TailIs DEF Next1
      <4> QED BY <4>1, <4>2 DEF StreamOrder, HasDo
    <3>3. t # "playback1" BY <2>4 DEF AudioOne
    <3> HIDE DEF a
    <3>4. /\ Done(t, a)
          /\ \A d : HasDo(todo[t], d) <=> (a.do = d \/ HasDo(todo'[t], d))
          /\ \A r : HasReg(todo[t], r) <=> (a.reg = r \/ HasReg(todo'[t], r))
      BY <2>4 DEF a
    <3>5. HasDo(todo'[t], "dma1") \/ dma1' = t BY <2>1, <2>4, <3>4 DEF Done, Ready1
    <3>6. HasReg(todo'[t], "analog") \/ Mono(regs') = t BY <1>2, <2>1, <2>4, <3>4 DEF Done, Ready1
    <3>7. HasReg(todo'[t], "setup") \/ Setup1(regs') = t
      BY <1>2, <2>1, <2>4, <3>3, <3>4 DEF Done, Ready1
    <3>8. HasDo(todo'[t], "program") \/ dmac'.owner = t
      BY <2>1, <2>4, <3>1, <3>4 DEF Done, Ready1
    <3>9. HasDo(todo'[t], "unmask") \/ ~dmac'.masked
      BY <2>1, <2>4, <3>2, <3>4 DEF Done, Ready1
    <3> QED BY <2>4, <3>5, <3>6, <3>7, <3>8, <3>9 DEF Ready1
  <2> QED BY <1>3, <2>1, <2>2, <2>3, <2>4
<1>5. ASSUME pcm["playback1"] \in Callbacks PROVE Ready2'
  <2>1. Ready2 /\ "playback1" \in Streams /\ "playback1" \in Threads
    BY <1>5 DEF Prepared, Streams, Threads
  <2>2. CASE "playback1" # t
    <3>1. todo'["playback1"] = todo["playback1"] BY <1>1, <2>1, <2>2
    <3> QED BY <1>1, <1>2, <2>1, <3>1 DEF Ready2
  <2>3. CASE t = "playback1" /\ UNCHANGED <<todo, dma1, dmac, dma2, mode2, regs>>
    BY <2>1, <2>3 DEF Ready2
  <2>4. ASSUME t = "playback1", ~Idle(t), Done(t, Next1(t)),
               \A d : HasDo(todo[t], d) <=> (Next1(t).do = d \/ HasDo(todo'[t], d)),
               \A r : HasReg(todo[t], r) <=> (Next1(t).reg = r \/ HasReg(todo'[t], r))
        PROVE  Ready2'
    <3> DEFINE a == Next1(t)
    <3> HIDE DEF a
    <3>1. /\ Done(t, a)
          /\ \A d : HasDo(todo[t], d) <=> (a.do = d \/ HasDo(todo'[t], d))
          /\ \A r : HasReg(todo[t], r) <=> (a.reg = r \/ HasReg(todo'[t], r))
      BY <2>4 DEF a
    <3>2. HasDo(todo'[t], "dma2") \/ dma2' = t BY <1>1, <2>1, <2>4, <3>1 DEF Done, Ready2
    <3>3. HasReg(todo'[t], "setup") \/ Setup2(regs') = t BY <1>2, <2>1, <2>4, <3>1 DEF Done, Ready2
    <3> QED BY <2>4, <3>2, <3>3 DEF Ready2
  <2> QED BY <1>3, <2>1, <2>2, <2>3, <2>4
<1> QED BY <1>1, <1>4, <1>5 DEF Prepared

LEMMA NothingLeftToDo ==
    ASSUME NEW t, Idle(t)
    PROVE  /\ \A d : ~HasDo(todo[t], d)
           /\ \A r : ~HasReg(todo[t], r)
<1>1. todo[t] = <<>> /\ Len(<<>>) = 0 BY EmptySeq DEF Idle
<1>2. Len(todo[t]) = 0 BY <1>1, Zenon
<1> QED BY <1>2 DEF HasDo, HasReg

LEMMA PreparedChange ==
    ASSUME Prepared, UNCHANGED <<dma1, dmac, dma2>>, Mono(regs') = Mono(regs),
           Setup1(regs') = Setup1(regs), Setup2(regs') = Setup2(regs),
           \A s \in Streams : pcm'[s] \in Callbacks =>
             \/ pcm[s] \in Callbacks /\ (todo'[s] = todo[s] \/ Idle(s))
             \/ (s \in AudioOne => Ready1(s)') /\ (s = "playback1" => Ready2')
    PROVE  Prepared'
<1>1. ASSUME NEW s \in AudioOne, pcm'[s] \in Callbacks PROVE Ready1(s)'
  <2>1. s \in Streams BY DEF Streams
  <2>2. CASE pcm[s] \in Callbacks /\ todo'[s] = todo[s] BY <2>2 DEF Prepared, Ready1
  <2>3. CASE pcm[s] \in Callbacks /\ Idle(s)
    <3>1. Ready1(s) BY <2>3 DEF Prepared
    <3>2. /\ dma1 = s /\ Mono(regs) = s /\ Setup1(regs) = s /\ dmac.owner = s /\ ~dmac.masked
      BY <2>3, <3>1, NothingLeftToDo DEF Ready1
    <3> QED BY <3>2 DEF Ready1
  <2> QED BY <1>1, <2>1, <2>2, <2>3
<1>2. ASSUME pcm'["playback1"] \in Callbacks PROVE Ready2'
  <2> DEFINE s == "playback1"
  <2>1. s \in Streams BY DEF Streams
  <2>2. CASE pcm[s] \in Callbacks /\ todo'[s] = todo[s] BY <2>2 DEF Prepared, Ready2
  <2>3. CASE pcm[s] \in Callbacks /\ Idle(s)
    <3>1. Ready2 BY <2>3 DEF Prepared
    <3>2. dma2 = s /\ Setup2(regs) = s BY <2>3, <3>1, NothingLeftToDo DEF Ready2
    <3> QED BY <3>2 DEF Ready2
  <2> QED BY <1>2, <2>1, <2>2, <2>3
<1> QED BY <1>1, <1>2 DEF Prepared

LEMMA PreparedKept ==
    ASSUME Typed, Programs, Chip, Core, Prepared, [Next]_vars
    PROVE  Prepared'
<1>1. ASSUME UNCHANGED <<dma1, dmac, dma2, regs, pcm>>, \A s \in Streams : todo'[s] = todo[s]
      PROVE  Prepared'
  BY <1>1, PreparedChange
<1>2. ASSUME NEW t \in Threads, t \notin Streams, NEW p, todo' = [todo EXCEPT ![t] = p],
             UNCHANGED <<dma1, dmac, dma2, regs, pcm>>
      PROVE  Prepared'
  <2>1. \A s \in Streams : todo'[s] = todo[s] BY <1>2 DEF Programs, Threads
  <2> QED BY <1>1, <1>2, <2>1
<1>3. "irq" \in Threads /\ "irq" \notin Streams BY DEF Threads, Streams, AudioOne
<1>4. CASE AckAudio1 \/ TestActive \/ PeriodElapsed \/ Interrupt
  <2>1. \E p : todo' = [todo EXCEPT !["irq"] = p]
    BY <1>4 DEF AckAudio1, TestActive, PeriodElapsed, Interrupt, Pops, Reporting, Ignores, Starts
  <2>2. UNCHANGED <<dma1, dmac, dma2, regs, pcm>>
    BY <1>4 DEF AckAudio1, TestActive, PeriodElapsed, Interrupt, privVars, chipVars, busVars,
       coreVars
  <2> QED BY <1>2, <1>3, <2>1, <2>2
<1>5. CASE Buttons BY <1>1, <1>5 DEF Buttons, privVars, busVars, coreVars, runVars
<1>6. ASSUME NEW s \in Streams, CoreCalls(s) PROVE Prepared'
  <2>1. ASSUME NEW op, Begins(s, op) PROVE \A u \in Streams : pcm'[u] = IF u = s THEN op ELSE pcm[u]
    BY <2>1 DEF Begins, Typed, TypeOK
  <2>2. UNCHANGED <<dma1, dmac, dma2, regs>>
    BY <1>6 DEF CoreCalls, Open, Close, hw_params, hw_free, CallPrepare, CallTrigger,
                privVars, chipVars, busVars
  <2>3. CASE Open(s) \/ Close(s) \/ hw_params(s) \/ hw_free(s)
    <3>1. PICK op \in {"open", "close", "hw_params", "hw_free"} : Begins(s, op)
      BY <2>3 DEF Open, capture_open, playback_open, Close, hw_params, hw_free
    <3>2. UNCHANGED todo BY <2>3 DEF Open, Close, hw_params, hw_free, runVars
    <3>3. \A u \in Streams : pcm'[u] \in Callbacks => pcm[u] \in Callbacks
      BY <2>1, <3>1 DEF Callbacks
    <3> QED BY <2>2, <3>2, <3>3, PreparedChange
  <2>4. CASE CallPrepare(s)
    <3>1. Begins(s, "prepare") /\ todo' = [todo EXCEPT ![s] = Prepare(s)]
      BY <2>4 DEF CallPrepare, Starts
    <3>2. todo'[s] = Prepare(s) /\ \A u \in Streams \ {s} : todo'[u] = todo[u]
      BY <3>1 DEF Programs, Threads
    <3>3. s \in AudioOne => Ready1(s)' BY <3>2, CallbackHas DEF Ready1
    <3>4. s = "playback1" => Ready2' BY <3>2, CallbackHas DEF Ready2
    <3>5. \A u \in Streams \ {s} : pcm'[u] = pcm[u] BY <2>1, <3>1
    <3> QED BY <2>2, <3>2, <3>3, <3>4, <3>5, PreparedChange
  <2>5. CASE CallTrigger(s)
    <3>1. PICK op \in {"start", "stop"} : Begins(s, op) BY <2>5 DEF CallTrigger
    <3>2. Idle(s) /\ pcm[s] \in Callbacks BY <2>5 DEF CallTrigger, Begins, Callbacks
    <3>3. \A u \in Streams \ {s} : pcm'[u] = pcm[u] BY <2>1, <3>1
    <3>4. \A u \in Streams \ {s} : todo'[u] = todo[u]
      BY <2>5 DEF CallTrigger, Starts, Programs, Threads
    <3> QED BY <2>2, <3>2, <3>3, <3>4, PreparedChange
  <2> QED BY <1>6, <2>3, <2>4, <2>5 DEF CoreCalls
<1>7. ASSUME NEW s \in Streams, PeriodEnds(s) PROVE Prepared'
  <2>1. UNCHANGED regs \/ Wrote("mixer", "control2", {"irq"}, "set") BY <1>7, PeriodWrites
  <2>2. /\ Mono(regs') = Mono(regs) /\ Setup1(regs') = Setup1(regs)
        /\ Setup2(regs') = Setup2(regs)
    BY <2>1, WroteField
  <2>3. UNCHANGED <<dma1, dmac, dma2, pcm, todo>>
    BY <1>7 DEF PeriodEnds, privVars, coreVars, runVars
  <2> QED BY <2>2, <2>3, PreparedChange
<1>8. ASSUME NEW t \in CtlThreads, NEW c, CallGet(t, c) \/ \E v \in Levels : CallPut(t, c, v)
      PROVE  Prepared'
  <2>1. t \in Threads /\ t \notin Streams BY CtlThreadsAssumption DEF Threads
  <2>2. \E p : todo' = [todo EXCEPT ![t] = p] BY <1>8 DEF CallGet, CallPut, Starts
  <2>3. UNCHANGED <<dma1, dmac, dma2, regs, pcm>>
    BY <1>8 DEF CallGet, CallPut, privVars, chipVars, busVars, coreVars
  <2> QED BY <1>2, <2>1, <2>2, <2>3
<1>9. CASE UNCHANGED vars BY <1>1, <1>9 DEF vars, privVars, chipVars, busVars, coreVars, runVars
<1> QED BY <1>4, <1>5, <1>6, <1>7, <1>8, <1>9, Steps, PreparedRuns

LEMMA TransfersRuns ==
    ASSUME Typed, Programs, Chip, Transfers, NEW t \in Threads, Runs(t)
    PROVE  Transfers'
<1>1. /\ UNCHANGED pcm /\ \A u \in Threads \ {t} : todo'[u] = todo[u]
      /\ mode2' => mode2 \/ pcm["playback1"] = "start"
  BY RunDma
<1>2. \/ Control1(regs') = Control1(regs)
      \/ t \in AudioOne /\ Control1(regs') = IF pcm[t] = "start" THEN t ELSE "none"
  BY RunWrites
<1>3. ASSUME t \in Streams
      PROVE  \/ UNCHANGED <<todo, dma1, dmac, dma2, mode2, regs>>
             \/ /\ ~Idle(t) /\ Done(t, Next1(t))
                /\ \A d : HasDo(todo[t], d) <=> (Next1(t).do = d \/ HasDo(todo'[t], d))
                /\ \A r : HasReg(todo[t], r) <=> (Next1(t).reg = r \/ HasReg(todo'[t], r))
  BY <1>3, RunPops, PopsHas
<1>4. ASSUME NEW s \in AudioOne, Control1(regs') = s
      PROVE  pcm[s] = "start" \/ (pcm[s] = "stop" /\ HasReg(todo'[s], "dmacontrol"))
  <2>1. s \in Threads /\ s \in Streams /\ s # "none" BY DEF Threads, Streams, AudioOne
  <2>2. CASE Control1(regs) # s BY <1>2, <1>4, <2>1, <2>2
  <2>3. CASE Control1(regs) = s
    <3>1. pcm[s] = "start" \/ (pcm[s] = "stop" /\ HasReg(todo[s], "dmacontrol"))
      BY <2>3 DEF Transfers
    <3>2. CASE s # t BY <1>1, <2>1, <3>1, <3>2
    <3>3. CASE s = t BY <1>3, <1>4, <2>1, <3>1, <3>3 DEF Done
    <3> QED BY <3>2, <3>3
  <2> QED BY <2>2, <2>3
<1>5. ASSUME mode2'
      PROVE  \/ pcm["playback1"] = "start"
             \/ pcm["playback1"] = "stop" /\ HasDo(todo'["playback1"], "mode2off")
  <2>1. "playback1" \in Threads /\ "playback1" \in Streams BY DEF Threads, Streams
  <2>2. CASE pcm["playback1"] # "start"
    <3>1. mode2 /\ pcm["playback1"] = "stop" /\ HasDo(todo["playback1"], "mode2off")
      BY <1>1, <1>5, <2>2 DEF Transfers
    <3>2. CASE "playback1" # t BY <1>1, <2>1, <3>1, <3>2
    <3>3. CASE "playback1" = t BY <1>3, <1>5, <2>1, <3>1, <3>3 DEF Done
    <3> QED BY <3>2, <3>3
  <2> QED BY <2>2
<1>6. Control1(regs') # "playback1" BY <1>2 DEF Transfers, AudioOne
<1> QED BY <1>1, <1>4, <1>5, <1>6 DEF Transfers

LEMMA TransfersChange ==
    ASSUME Transfers, UNCHANGED mode2, Control1(regs') = Control1(regs),
           \A s \in Streams :
             \/ pcm'[s] = pcm[s] /\ todo'[s] = todo[s]
             \/ pcm'[s] = "start"
             \/ Idle(s) /\ pcm[s] # "start"
             \/ /\ pcm'[s] = "stop"
                /\ s \in AudioOne => HasReg(todo'[s], "dmacontrol")
                /\ s = "playback1" => HasDo(todo'[s], "mode2off")
    PROVE  Transfers'
  BY NothingLeftToDo DEF Transfers, Streams

LEMMA TransfersKept ==
    ASSUME Typed, Programs, Chip, Transfers, [Next]_vars
    PROVE  Transfers'
<1>1. ASSUME UNCHANGED <<mode2, regs, pcm>>, \A s \in Streams : todo'[s] = todo[s]
      PROVE  Transfers'
  BY <1>1, TransfersChange
<1>2. ASSUME NEW t \in Threads, t \notin Streams, NEW p, todo' = [todo EXCEPT ![t] = p],
             UNCHANGED <<mode2, regs, pcm>>
      PROVE  Transfers'
  <2>1. \A s \in Streams : todo'[s] = todo[s] BY <1>2 DEF Programs, Threads
  <2> QED BY <1>1, <1>2, <2>1
<1>3. "irq" \in Threads /\ "irq" \notin Streams BY DEF Threads, Streams, AudioOne
<1>4. CASE AckAudio1 \/ TestActive \/ PeriodElapsed \/ Interrupt
  <2>1. \E p : todo' = [todo EXCEPT !["irq"] = p]
    BY <1>4 DEF AckAudio1, TestActive, PeriodElapsed, Interrupt, Pops, Reporting, Ignores, Starts
  <2>2. UNCHANGED <<mode2, regs, pcm>>
    BY <1>4 DEF AckAudio1, TestActive, PeriodElapsed, Interrupt, privVars, chipVars, busVars,
       coreVars
  <2> QED BY <1>2, <1>3, <2>1, <2>2
<1>5. CASE Buttons BY <1>1, <1>5 DEF Buttons, privVars, busVars, coreVars, runVars
<1>6. ASSUME NEW s \in Streams, CoreCalls(s) PROVE Transfers'
  <2>1. ASSUME NEW op, Begins(s, op) PROVE \A u \in Streams : pcm'[u] = IF u = s THEN op ELSE pcm[u]
    BY <2>1 DEF Begins, Typed, TypeOK
  <2>2. UNCHANGED <<mode2, regs>>
    BY <1>6 DEF CoreCalls, Open, Close, hw_params, hw_free, CallPrepare, CallTrigger,
                privVars, chipVars, busVars
  <2>3. CASE Open(s) \/ Close(s) \/ hw_params(s) \/ hw_free(s)
    <3>1. PICK op \in {"open", "close", "hw_params", "hw_free"} : Begins(s, op)
      BY <2>3 DEF Open, capture_open, playback_open, Close, hw_params, hw_free
    <3>2. UNCHANGED todo BY <2>3 DEF Open, Close, hw_params, hw_free, runVars
    <3>3. Idle(s) /\ pcm[s] # "start"
      BY <2>3, <3>1 DEF Open, capture_open, playback_open, Close, hw_params, hw_free, Begins
    <3> QED BY <2>1, <2>2, <3>1, <3>2, <3>3, TransfersChange
  <2>4. CASE CallPrepare(s)
    <3>1. Begins(s, "prepare") /\ Idle(s) /\ pcm[s] # "start"
          /\ todo' = [todo EXCEPT ![s] = Prepare(s)]
      BY <2>4 DEF CallPrepare, Begins, Starts
    <3>2. \A u \in Streams \ {s} : todo'[u] = todo[u] /\ pcm'[u] = pcm[u]
      BY <2>1, <3>1 DEF Programs, Threads
    <3> QED BY <2>2, <3>1, <3>2, TransfersChange
  <2>5. CASE CallTrigger(s)
    <3>1. PICK op \in {"start", "stop"} : Begins(s, op) BY <2>5 DEF CallTrigger
    <3>2. pcm'[s] = op /\ \A u \in Streams \ {s} : pcm'[u] = pcm[u] BY <2>1, <3>1
    <3>3. \A u \in Streams \ {s} : todo'[u] = todo[u]
      BY <2>5 DEF CallTrigger, Starts, Programs, Threads
    <3>4. ASSUME op = "stop"
          PROVE  /\ s \in AudioOne => HasReg(todo'[s], "dmacontrol")
                 /\ s = "playback1" => HasDo(todo'[s], "mode2off")
      <4>1. (pcm'[s] = "start") = FALSE BY <3>2, <3>4
      <4>2. todo'[s] = Trigger(s, FALSE) BY <2>5, <4>1 DEF CallTrigger, Starts, Programs, Threads
      <4> QED BY <4>2, CallbackHas
    <3> QED BY <2>2, <3>2, <3>3, <3>4, TransfersChange
  <2> QED BY <1>6, <2>3, <2>4, <2>5 DEF CoreCalls
<1>7. ASSUME NEW s \in Streams, PeriodEnds(s) PROVE Transfers'
  <2>1. UNCHANGED regs \/ Wrote("mixer", "control2", {"irq"}, "set") BY <1>7, PeriodWrites
  <2>2. Control1(regs') = Control1(regs) BY <2>1, WroteField
  <2>3. UNCHANGED <<mode2, pcm, todo>> BY <1>7 DEF PeriodEnds, coreVars, runVars
  <2> QED BY <2>2, <2>3, TransfersChange
<1>8. ASSUME NEW t \in CtlThreads, NEW c, CallGet(t, c) \/ \E v \in Levels : CallPut(t, c, v)
      PROVE  Transfers'
  <2>1. t \in Threads /\ t \notin Streams BY CtlThreadsAssumption DEF Threads
  <2>2. \E p : todo' = [todo EXCEPT ![t] = p] BY <1>8 DEF CallGet, CallPut, Starts
  <2>3. UNCHANGED <<mode2, regs, pcm>>
    BY <1>8 DEF CallGet, CallPut, privVars, chipVars, busVars, coreVars
  <2> QED BY <1>2, <2>1, <2>2, <2>3
<1>9. CASE UNCHANGED vars BY <1>1, <1>9 DEF vars, privVars, chipVars, busVars, coreVars, runVars
<1> QED BY <1>4, <1>5, <1>6, <1>7, <1>8, <1>9, Steps, TransfersRuns

-----------------------------------------------------------------------------
(* Periods.                                                                *)

\* the handler goes on after an access of its own
LEMMA IrqPops ==
    ASSUME Programs, ~Idle("irq"), NEW q, q = Tail(todo["irq"])
    PROVE  /\ \A d : HasDo(todo["irq"], d) <=> (Next1("irq").do = d \/ HasDo(q, d))
           /\ \A s \in Streams : Elapses(s) <=> \/ Next1("irq") = Do("elapse", s)
                                                \/ \E i \in 1..Len(q) : q[i] = Do("elapse", s)
           /\ Next1("irq").do = "ack1" => HasDo(q, "test1")
           /\ Next1("irq").do = "bits" => HasDo(q, "test2")
           /\ q \in Seq(IrqAccesses)
<1> DEFINE p == todo["irq"]
<1>1. p \in Seq(IrqAccesses) /\ p # <<>> /\ IrqOrder(p) BY DEF Programs, Idle
<1>2. Next1("irq") = Head(p) /\ q = Tail(p) BY DEF Next1
<1> HIDE DEF p
<1>3. /\ Len(p) \in Nat \ {0} /\ Head(p) = p[1] /\ Len(q) = Len(p) - 1 /\ q \in Seq(IrqAccesses)
      /\ \A i \in 1..Len(q) : q[i] = p[i + 1]
  BY <1>1, <1>2, TailIs
<1>4. \A d : HasDo(p, d) <=> (Head(p).do = d \/ HasDo(q, d)) BY <1>1, <1>2, HasTail
<1>5. ASSUME NEW a
      PROVE  (\E i \in 1..Len(p) : p[i] = a) <=> (Head(p) = a \/ \E i \in 1..Len(q) : q[i] = a)
  <2>1. ASSUME NEW i \in 1..Len(p), i # 1 PROVE i - 1 \in 1..Len(q) /\ p[i] = q[i - 1]
    <3>1. Len(p) \in Nat /\ Len(q) = Len(p) - 1 BY <1>3
    <3>2. i - 1 \in 1..Len(q) /\ (i - 1) + 1 = i BY <2>1, <3>1
    <3>3. q[i - 1] = p[(i - 1) + 1] BY <1>3, <3>2
    <3> QED BY <3>2, <3>3
  <2>2. \A i \in 1..Len(q) : i + 1 \in 1..Len(p) /\ p[i + 1] = q[i] BY <1>3
  <2>3. 1 \in 1..Len(p) BY <1>3
  <2>4. ASSUME NEW i \in 1..Len(p), p[i] = a
        PROVE  Head(p) = a \/ \E j \in 1..Len(q) : q[j] = a
    BY <1>3, <2>1, <2>4
  <2>5. ASSUME NEW i \in 1..Len(q), q[i] = a PROVE \E j \in 1..Len(p) : p[j] = a
    BY <2>2, <2>5
  <2>6. Head(p) = a => \E j \in 1..Len(p) : p[j] = a BY <1>3, <2>3
  <2> QED BY <2>4, <2>5, <2>6
<1>6. ASSUME NEW d, NEW e, Head(p).do = d, \E j \in 2..Len(p) : p[j].do = e PROVE HasDo(q, e)
  <2>1. PICK j \in 2..Len(p) : p[j].do = e BY <1>6
  <2>2. j - 1 \in 1..Len(q) /\ (j - 1) + 1 = j BY <1>3
  <2>3. q[j - 1] = p[j] BY <1>3, <2>2
  <2> QED BY <2>1, <2>2, <2>3 DEF HasDo
<1>7. /\ p[1].do = "ack1" => \E j \in 2..Len(p) : p[j].do = "test1"
      /\ p[1].do = "bits" => \E j \in 2..Len(p) : p[j].do = "test2"
  BY <1>1, <1>3 DEF IrqOrder
<1>8. /\ Head(p).do = "ack1" => HasDo(q, "test1")
      /\ Head(p).do = "bits" => HasDo(q, "test2")
  BY <1>3, <1>6, <1>7
<1> QED BY <1>2, <1>3, <1>4, <1>5, <1>8 DEF Elapses, p

\* and, before it does, reports a period of v
Reported(q, r, v) ==
    /\ \A d : HasDo(q, d) => HasDo(r, d)
    /\ \A a : (\E i \in 1..Len(q) : q[i] = a) => \E i \in 1..Len(r) : r[i] = a
    /\ \E i \in 1..Len(r) : r[i] = Do("elapse", v)

LEMMA Reports ==
    ASSUME NEW q \in Seq(IrqAccesses), NEW v \in Streams, NEW r, r = <<Do("elapse", v)>> \o q
    PROVE  Reported(q, r, v)
<1> DEFINE p == <<Do("elapse", v)>>
<1>1. p \in Seq(IrqAccesses) BY IrqPrograms
<1>2. Len(p) = 1 /\ p[1] = Do("elapse", v) OBVIOUS
<1> HIDE DEF p
<1>3. /\ r \in Seq(IrqAccesses) /\ Len(r) = Len(p) + Len(q)
      /\ \A i \in 1..Len(p) : r[i] = p[i]
      /\ \A i \in 1..Len(q) : r[Len(p) + i] = q[i]
  BY <1>1, ConcatIs DEF p
<1>4. Len(q) \in Nat OBVIOUS
<1>5. \A i \in 1..Len(q) : 1 + i \in 1..Len(r) /\ r[1 + i] = q[i] BY <1>2, <1>3, <1>4
<1>6. 1 \in 1..Len(r) /\ r[1] = Do("elapse", v) BY <1>2, <1>3, <1>4
<1>7. ASSUME NEW d, HasDo(q, d) PROVE HasDo(r, d)
  <2>1. PICK i \in 1..Len(q) : q[i].do = d BY <1>7 DEF HasDo
  <2>2. 1 + i \in 1..Len(r) /\ r[1 + i].do = d BY <1>5, <2>1
  <2> QED BY <2>2 DEF HasDo
<1>8. \A a : (\E i \in 1..Len(q) : q[i] = a) => \E i \in 1..Len(r) : r[i] = a BY <1>5
<1> QED BY <1>6, <1>7, <1>8 DEF Reported

LEMMA OwedChange ==
    ASSUME Owed, owed' \subseteq owed,
           \A s \in owed' : /\ pcm'[s] = "start" /\ todo'[s] = todo[s]
                            /\ Coming(s) => Coming(s)'
    PROVE  Owed'
  BY DEF Owed, Idle

\* nothing becomes of what is coming
LEMMA ComingStays ==
    ASSUME NEW s \in Streams, Coming(s),
           s \in AudioOne /\ raced \intersect AudioOne # {} => raced' \intersect AudioOne # {},
           "audio1" \in asserted => "audio1" \in asserted',
           s = "playback1" /\ s \in raced => s \in raced',
           s = "playback1" /\ Irq2(regs) = "set" =>
             Irq2(regs') = "set" \/ HasDo(todo'["irq"], "test2"),
           \A d \in {"test1", "test2"} : HasDo(todo["irq"], d) => HasDo(todo'["irq"], d),
           Elapses(s) => Elapses(s)'
    PROVE  Coming(s)'
  BY DEF Coming

LEMMA RunsIrq ==
    ASSUME Typed, Programs, Runs("irq")
    PROVE  \/ UNCHANGED <<todo, regs>>
           \/ /\ ~Idle("irq") /\ todo' = [todo EXCEPT !["irq"] = Tail(@)]
              /\ Next1("irq").do \in {"read", "write", "bits"}
<1> DEFINE a == Next1("irq")
<1>1. "irq" \in Threads BY DEF Threads
<1>2. ASSUME ~Idle("irq") PROVE IrqMade(a) BY <1>1, <1>2, Heads, IrqMakes
<1>3. ASSUME OnBus("irq") PROVE ~Idle("irq") /\ a.do \in {"read", "write", "bits"}
  <2>1. ~Idle("irq") /\ WellFormed(a) /\ a.bus # "none" /\ IrqMade(a)
    BY <1>1, <1>2, <1>3, Heads DEF OnBus, Next1
  <2> HIDE DEF a
  <2> QED BY <2>1 DEF WellFormed, IrqMade, OnChip
<1>4. ASSUME NEW d, d \in {"dma1", "mask", "program", "unmask", "mode2off", "mode2on", "dma2",
                           "load", "or", "andnot"}
      PROVE  ~Is("irq", d)
  BY <1>2, <1>4 DEF Is, IrqMade
<1>5. CASE Select("irq") BY <1>5 DEF Select
<1>6. CASE WriteData("irq") BY <1>3, <1>6 DEF WriteData, Pops
<1>7. CASE ReadData("irq")
  <2>1. OnBus("irq") /\ UNCHANGED regs BY <1>7 DEF ReadData
  <2>2. a.do # "differs" BY <1>3, <2>1
  <2>3. UNCHANGED todo \/ todo' = [todo EXCEPT !["irq"] = Tail(@)] BY <1>7, <2>2 DEF ReadData
  <2> QED BY <1>3, <2>1, <2>3
<1>8. CASE StoreBits("irq") BY <1>3, <1>8 DEF StoreBits, Pops
<1>9. ~SetDma1("irq") BY <1>4 DEF SetDma1
<1>10. ~ProgramDmac("irq") BY <1>4 DEF ProgramDmac
<1>11. ~ProgramDma2("irq") BY <1>4 DEF ProgramDma2
<1>12. ~LoadActive("irq") BY <1>4 DEF LoadActive
<1>13. ~StoreActive("irq") BY <1>4 DEF StoreActive
<1> QED BY <1>5, <1>6, <1>7, <1>8, <1>9, <1>10, <1>11, <1>12, <1>13 DEF Runs

LEMMA OwedRuns ==
    ASSUME Typed, Programs, Chip, Core, Owed, NEW t \in Threads, Runs(t)
    PROVE  Owed'
<1>1. UNCHANGED <<pcm, owed>> /\ \A u \in Threads \ {t} : todo'[u] = todo[u]
  <2>1. UNCHANGED owed
    BY DEF Runs, Select, WriteData, ReadData, StoreBits, SetDma1, ProgramDmac, ProgramDma2,
           LoadActive, StoreActive, history
  <2> QED BY <2>1, RunDma
<1>2. ~Idle(t)
  BY DEF Runs, Select, WriteData, ReadData, StoreBits, SetDma1, ProgramDmac, ProgramDma2,
         LoadActive, StoreActive, OnBus, Is
<1>3. "audio1" \in asserted => "audio1" \in asserted'
  BY DEF Runs, Select, WriteData, ReadData, StoreBits, SetDma1, ProgramDmac, ProgramDma2,
         LoadActive, StoreActive, chipVars
<1>4. UNCHANGED raced \/ (t \in Streams /\ pcm[t] # "close" /\ raced \ {t} \subseteq raced')
  <2>1. CASE LoadActive(t)
    <3>1. t \in Streams /\ pcm[t] \in {"start", "stop"}
      BY <1>2, <2>1, Makes DEF LoadActive, Is, Made
    <3> QED BY <2>1, <3>1 DEF LoadActive
  <2>2. CASE ~LoadActive(t)
    BY <2>2 DEF Runs, Select, WriteData, ReadData, StoreBits, SetDma1, ProgramDmac, ProgramDma2,
                StoreActive, history
  <2> QED BY <2>1, <2>2
<1>5. Irq2(regs') = Irq2(regs)
      \/ (t = "playback1" /\ pcm[t] = "prepare") \/ (t = "irq" /\ Is(t, "bits"))
  BY RunWrites
<1>6. "irq" \in Threads /\ Streams \subseteq Threads /\ "irq" \notin Streams
  BY DEF Threads, Streams, AudioOne
<1>7. ASSUME NEW s \in owed PROVE todo'[s] = todo[s] /\ (Coming(s) => Coming(s)')
  <2>1. s \in Streams /\ pcm[s] = "start" /\ Idle(s) /\ Coming(s) /\ s # t
    BY <1>2 DEF Owed
  <2>2. todo'[s] = todo[s] BY <1>1, <1>6, <2>1
  <2>3. s \in AudioOne /\ raced \intersect AudioOne # {} => raced' \intersect AudioOne # {}
    <3>1. ASSUME s \in AudioOne, t \in AudioOne, pcm[t] # "close" PROVE FALSE
      BY <2>1, <3>1, Alone
    <3> QED BY <1>4, <3>1
  <2>4. s = "playback1" /\ s \in raced => s \in raced' BY <1>4, <2>1
  <2>5. CASE t # "irq" \/ UNCHANGED <<todo, regs>>
    <3>1. todo'["irq"] = todo["irq"] BY <1>1, <1>6, <2>5
    <3>2. Elapses(s) => Elapses(s)' BY <3>1 DEF Elapses
    <3>3. s = "playback1" => Irq2(regs') = Irq2(regs) BY <1>5, <2>1, <2>5
    <3> QED BY <1>3, <2>1, <2>2, <2>3, <2>4, <3>1, <3>2, <3>3, ComingStays
  <2>6. CASE /\ t = "irq" /\ todo' = [todo EXCEPT !["irq"] = Tail(@)]
             /\ Next1("irq").do \in {"read", "write", "bits"}
    <3> DEFINE q == Tail(todo["irq"])
    <3>1. todo'["irq"] = q BY <1>6, <2>6 DEF Programs
    <3> HIDE DEF q
    <3>2. /\ \A d : HasDo(todo["irq"], d) <=> (Next1("irq").do = d \/ HasDo(q, d))
          /\ Elapses(s) <=> \/ Next1("irq") = Do("elapse", s)
                            \/ \E i \in 1..Len(q) : q[i] = Do("elapse", s)
          /\ Next1("irq").do = "bits" => HasDo(q, "test2")
      BY <1>2, <2>1, <2>6, IrqPops DEF q
    <3>3. Next1("irq") # Do("elapse", s) BY <2>6, AccessFields
    <3>4. Elapses(s) => Elapses(s)' BY <3>1, <3>2, <3>3 DEF Elapses
    <3>5. \A d \in {"test1", "test2"} : HasDo(todo["irq"], d) => HasDo(todo'["irq"], d)
      BY <2>6, <3>1, <3>2
    <3>6. Irq2(regs) = "set" => Irq2(regs') = "set" \/ HasDo(todo'["irq"], "test2")
      BY <1>5, <2>6, <3>1, <3>2 DEF Is
    <3> QED BY <1>3, <2>1, <2>2, <2>3, <2>4, <3>4, <3>5, <3>6, ComingStays
  <2> QED BY <2>5, <2>6, RunsIrq
<1> QED BY <1>1, <1>7, OwedChange DEF Owed

\* a stream that runs and is idle has its bit, unless a trigger raced with another
LEMMA ActiveIs ==
    ASSUME Typed, Programs, Core, Bits
    PROVE  /\ \A s \in Streams \ raced : Idle(s) => (s \in active <=> pcm[s] = "start")
           /\ \A s \in Streams : pcm[s] = "close" => Idle(s)
<1>1. ASSUME NEW s \in Streams, Idle(s) PROVE ~Pending(s) BY <1>1, NothingLeftToDo DEF Pending
<1>2. ASSUME NEW s \in Streams, pcm[s] = "close" PROVE Idle(s)
  <2>1. todo[s] \in Seq({}) BY <1>2 DEF Programs, StreamAccesses
  <2> QED BY <2>1 DEF Idle
<1> QED BY <1>1, <1>2 DEF Bits

LEMMA OwedTest ==
    ASSUME Typed, Programs, Core, Bits, Owed, TestActive
    PROVE  Owed'
<1> DEFINE q == Tail(todo["irq"])
           a == Next1("irq")
<1>1. /\ "irq" \in Threads /\ Streams \subseteq Threads /\ "irq" \notin Streams
  BY DEF Threads, Streams, AudioOne
<1>2. /\ ~Idle("irq") /\ UNCHANGED <<active, asserted, regs, pcm, raced, owed>>
      /\ a.do \in {"test1", "test2"}
  BY DEF TestActive, Is, privVars, chipVars, busVars, coreVars, history
<1>3. \/ a.do = "test1" /\ IF "capture" \in active THEN Reporting("capture")
                           ELSE IF "playback2" \in active THEN Reporting("playback2") ELSE Ignores
      \/ a.do = "test2" /\ IF "playback1" \in active THEN Reporting("playback1") ELSE Ignores
  BY DEF TestActive, Is
<1>4. /\ \A d : HasDo(todo["irq"], d) <=> (a.do = d \/ HasDo(q, d))
      /\ \A s \in Streams : Elapses(s) <=> \/ a = Do("elapse", s)
                                           \/ \E i \in 1..Len(q) : q[i] = Do("elapse", s)
      /\ q \in Seq(IrqAccesses)
  BY <1>2, IrqPops
<1>5. \A s \in Streams : a # Do("elapse", s)
  <2> HIDE DEF a
  <2> QED BY <1>2, AccessFields
<1>6. ASSUME NEW v \in Streams, Reporting(v)
      PROVE  /\ todo' = [todo EXCEPT !["irq"] = <<Do("elapse", v)>> \o q]
             /\ Elapses(v)' /\ \A d : HasDo(q, d) => HasDo(todo'["irq"], d)
             /\ \A s \in Streams : (\E i \in 1..Len(q) : q[i] = Do("elapse", s)) => Elapses(s)'
  <2>0. PICK r : r = <<Do("elapse", v)>> \o q OBVIOUS
  <2>1. todo' = [todo EXCEPT !["irq"] = r] BY <1>6, <2>0 DEF Reporting, Starts
  <2>2. /\ \A d : HasDo(q, d) => HasDo(r, d)
        /\ \A b : (\E i \in 1..Len(q) : q[i] = b) => \E i \in 1..Len(r) : r[i] = b
        /\ \E i \in 1..Len(r) : r[i] = Do("elapse", v)
    <3>1. PICK p : p = q OBVIOUS
    <3>2. p \in Seq(IrqAccesses) BY <1>4, <3>1
    <3>3. r = <<Do("elapse", v)>> \o p BY <2>0, <3>1
    <3>4. Reported(p, r, v) BY <3>2, <3>3, Reports
    <3>5. Reported(q, r, v) BY <3>1, <3>4
    <3> QED BY <3>5 DEF Reported
  <2> HIDE DEF q
  <2>3. todo'["irq"] = r BY <1>1, <2>1 DEF Programs
  <2>4. Elapses(v)' BY <2>2, <2>3 DEF Elapses
  <2>5. \A s \in Streams : (\E i \in 1..Len(q) : q[i] = Do("elapse", s)) => Elapses(s)'
    BY <2>2, <2>3 DEF Elapses
  <2> QED BY <2>0, <2>1, <2>2, <2>3, <2>4, <2>5
<1>7. ASSUME Ignores
      PROVE  /\ todo' = [todo EXCEPT !["irq"] = q]
             /\ \A d : HasDo(q, d) => HasDo(todo'["irq"], d)
             /\ \A s \in Streams : (\E i \in 1..Len(q) : q[i] = Do("elapse", s)) => Elapses(s)'
  <2>1. todo' = [todo EXCEPT !["irq"] = q] BY <1>7 DEF Ignores, Starts
  <2> HIDE DEF q
  <2>2. todo'["irq"] = q BY <1>1, <2>1 DEF Programs
  <2> QED BY <2>1, <2>2 DEF Elapses
<1> HIDE DEF q, a
<1>8. (\E v \in Streams : Reporting(v)) \/ Ignores BY <1>3 DEF Streams, AudioOne
<1>9. /\ \A u \in Streams : todo'[u] = todo[u]
      /\ \A d : HasDo(q, d) => HasDo(todo'["irq"], d)
      /\ \A s \in Streams : (\E i \in 1..Len(q) : q[i] = Do("elapse", s)) => Elapses(s)'
  BY <1>1, <1>6, <1>7, <1>8 DEF Programs
<1>10. ASSUME NEW s \in owed PROVE Coming(s)'
  <2>1. s \in Streams /\ pcm[s] = "start" /\ Idle(s) /\ Coming(s) BY DEF Owed
  <2>2. s \notin raced => s \in active BY <2>1, ActiveIs
  <2>3. Elapses(s) => Elapses(s)' BY <1>4, <1>5, <1>9, <2>1
  <2>4. ASSUME s \in AudioOne, raced \intersect AudioOne = {}, a.do = "test1" PROVE Elapses(s)'
    <3>1. s \in active /\ s \notin raced BY <2>2, <2>4
    <3>2. ASSUME s = "playback2" PROVE "capture" \notin active
      <4>1. "capture" \in Streams \ raced BY <2>4 DEF Streams, AudioOne
      <4>2. pcm["capture"] = "close" BY <2>1, <3>2, Alone DEF AudioOne
      <4> QED BY <4>1, <4>2, ActiveIs
    <3>3. Reporting(s) BY <1>3, <2>4, <3>1, <3>2 DEF AudioOne
    <3> QED BY <1>6, <2>1, <3>3
  <2>5. ASSUME s = "playback1", s \notin raced, a.do = "test2" PROVE Elapses(s)'
    <3>1. Reporting(s) BY <1>3, <2>2, <2>5
    <3> QED BY <1>6, <2>1, <3>1
  <2>6. HasDo(todo["irq"], "test1") => a.do = "test1" \/ HasDo(todo'["irq"], "test1")
    BY <1>4, <1>9
  <2>7. HasDo(todo["irq"], "test2") => a.do = "test2" \/ HasDo(todo'["irq"], "test2")
    BY <1>4, <1>9
  <2> QED BY <1>2, <2>1, <2>3, <2>4, <2>5, <2>6, <2>7 DEF Coming
<1> QED BY <1>2, <1>9, <1>10, OwedChange DEF Owed

LEMMA OwedIrq ==
    ASSUME Typed, Programs, Core, Owed, AckAudio1 \/ PeriodElapsed \/ Interrupt
    PROVE  Owed'
<1>1. /\ "irq" \in Threads /\ Streams \subseteq Threads /\ "irq" \notin Streams
  BY DEF Threads, Streams, AudioOne
<1>2. UNCHANGED <<regs, pcm, raced>>
  BY DEF AckAudio1, PeriodElapsed, Interrupt, busVars, coreVars, history
<1>3. \E p : todo' = [todo EXCEPT !["irq"] = p]
  BY DEF AckAudio1, PeriodElapsed, Interrupt, Pops, Starts
<1>4. \A u \in Streams : todo'[u] = todo[u] BY <1>1, <1>3 DEF Programs
<1>5. CASE Interrupt
  <2>1. UNCHANGED <<owed, asserted>> /\ Idle("irq") BY <1>5 DEF Interrupt, history, chipVars
  <2>2. \A d : ~HasDo(todo["irq"], d) BY <2>1, NothingLeftToDo
  <2>3. \A s : ~Elapses(s)
    <3>1. todo["irq"] = <<>> /\ Len(<<>>) = 0 BY <2>1, EmptySeq DEF Idle
    <3>2. Len(todo["irq"]) = 0 BY <3>1, Zenon
    <3> QED BY <3>2 DEF Elapses
  <2>4. \A s \in owed : s \in Streams /\ pcm[s] = "start" /\ Coming(s) BY DEF Owed
  <2>5. \A s \in owed : Coming(s)' BY <1>2, <2>1, <2>2, <2>3, <2>4, ComingStays
  <2> QED BY <1>2, <1>4, <2>1, <2>4, <2>5, OwedChange
<1>6. CASE AckAudio1 \/ PeriodElapsed
  <2> DEFINE q == Tail(todo["irq"])
             a == Next1("irq")
  <2>1. ~Idle("irq") /\ a.do \in {"ack1", "elapse"} /\ todo' = [todo EXCEPT !["irq"] = q]
    BY <1>6 DEF AckAudio1, PeriodElapsed, Is, Pops
  <2>2. /\ \A d : HasDo(todo["irq"], d) <=> (a.do = d \/ HasDo(q, d))
        /\ \A s \in Streams : Elapses(s) <=> \/ a = Do("elapse", s)
                                             \/ \E i \in 1..Len(q) : q[i] = Do("elapse", s)
        /\ a.do = "ack1" => HasDo(q, "test1")
    BY <2>1, IrqPops
  <2>3. /\ a.do = "ack1" => UNCHANGED owed
        /\ a.do = "elapse" => /\ owed' = owed \ (substreams \intersect {a.val})
                              /\ UNCHANGED asserted
    BY <1>6 DEF AckAudio1, PeriodElapsed, Is, history, chipVars
  <2> HIDE DEF q, a
  <2>4. todo'["irq"] = q BY <1>1, <2>1 DEF Programs
  <2>5. \A s \in Streams : a = Do("elapse", s) => a.do = "elapse" /\ a.val = s BY AccessFields
  <2>6. owed' \subseteq owed BY <2>1, <2>3
  <2>7. ASSUME NEW s \in owed' PROVE pcm[s] = "start" /\ s \in Streams /\ Coming(s)'
    <3>1. s \in Streams /\ pcm[s] = "start" /\ Coming(s) BY <2>6 DEF Owed
    <3>2. s \in substreams BY <3>1 DEF Core
    <3>3. a # Do("elapse", s) BY <2>3, <2>5, <3>1, <3>2
    <3>4. Elapses(s) => Elapses(s)' BY <2>2, <2>4, <3>1, <3>3 DEF Elapses
    <3>5. \A d \in {"test1", "test2"} : HasDo(todo["irq"], d) => HasDo(todo'["irq"], d)
      BY <2>1, <2>2, <2>4
    <3>6. CASE a.do = "elapse" BY <1>2, <2>3, <3>1, <3>4, <3>5, <3>6, ComingStays
    <3>7. CASE a.do = "ack1"
      <4>1. HasDo(todo'["irq"], "test1") BY <2>2, <2>4, <3>7
      <4> QED BY <1>2, <3>1, <3>4, <3>5, <4>1 DEF Coming, AudioOne
    <3> QED BY <2>1, <3>1, <3>6, <3>7
  <2> QED BY <1>2, <1>4, <2>6, <2>7, OwedChange
<1> QED BY <1>5, <1>6

\* nothing that matters to a period changes
LEMMA OwedSame ==
    ASSUME Owed, UNCHANGED <<raced, regs, pcm, owed>>, asserted \subseteq asserted',
           todo'["irq"] = todo["irq"], \A s \in Streams : todo'[s] = todo[s]
    PROVE  Owed'
<1>1. ASSUME NEW s \in owed
      PROVE  /\ pcm'[s] = "start" /\ todo'[s] = todo[s]
             /\ Coming(s) => Coming(s)'
  <2>1. s \in Streams /\ pcm[s] = "start" BY DEF Owed
  <2>2. Elapses(s) => Elapses(s)' BY DEF Elapses
  <2> QED BY <2>1, <2>2, ComingStays
<1> QED BY <1>1, OwedChange

LEMMA OwedPeriod ==
    ASSUME Typed, Programs, Chip, Transfers, Owed, NEW s \in Streams, PeriodEnds(s)
    PROVE  Owed'
<1>1. /\ UNCHANGED <<pcm, todo, raced>> /\ asserted \subseteq asserted'
      /\ s = Transfers1 => "audio1" \in asserted' \/ s = "playback1"
      /\ owed' = IF pcm[s] = "start" /\ ~InTrigger(s) THEN owed \union {s} ELSE owed
  BY DEF PeriodEnds, Owes, coreVars, runVars
<1>2. s = Transfers1 \/ (s = "playback1" /\ Transfers2) BY DEF PeriodEnds
<1>3. UNCHANGED regs \/ Wrote("mixer", "control2", {"irq"}, "set") BY PeriodWrites
<1>4. Irq2(regs) = "set" => Irq2(regs') = "set" BY <1>3, WroteField
<1>5. Transfers1 = Control1(regs) BY DEF Transfers1, Control1
<1>6. s # "playback1" => "audio1" \in asserted' BY <1>1, <1>2
<1>7. s = "playback1" => Irq2(regs') = "set"
  <2>1. s = "playback1" => s # Transfers1 BY <1>5 DEF Transfers
  <2>2. s = "playback1" =>
          /\ regs' = [regs EXCEPT !["mixer"]["control2"]["irq"] = "set"]
    BY <2>1 DEF PeriodEnds
  <2>3. "mixer" \in Buses /\ "control2" \in DOMAIN Fields["mixer"]
        /\ "irq" \in Fields["mixer"]["control2"]
    BY FieldsAre
  <2>4. regs["mixer"]["control2"] \in [Fields["mixer"]["control2"] -> Values]
        /\ Shaped(regs)
    BY <2>3 DEF Chip, Shaped
  <2> QED BY <2>2, <2>3, <2>4 DEF Shaped, Irq2
<1>8. ASSUME NEW u \in owed' PROVE u \in Streams /\ pcm[u] = "start" /\ Idle(u) /\ Coming(u)'
  <2>1. CASE u \in owed
    <3>1. u \in Streams /\ pcm[u] = "start" /\ Idle(u) /\ Coming(u) BY <2>1 DEF Owed
    <3>2. Elapses(u) => Elapses(u)' BY <1>1 DEF Elapses
    <3> QED BY <1>1, <1>4, <3>1, <3>2, ComingStays
  <2>2. CASE u \notin owed
    <3>1. u = s /\ pcm[s] = "start" /\ ~InTrigger(s) BY <1>1, <2>2
    <3>2. Idle(s) BY <3>1 DEF InTrigger
    <3>3. Coming(s)' BY <1>6, <1>7 DEF Coming, AudioOne
    <3> QED BY <3>1, <3>2, <3>3
  <2> QED BY <2>1, <2>2
<1> QED BY <1>1, <1>8 DEF Owed, Idle

LEMMA OwedCalls ==
    ASSUME Typed, Programs, Owed, NEW s \in Streams, CoreCalls(s)
    PROVE  Owed'
<1>1. "irq" \in Threads /\ s \in Threads /\ "irq" \notin Streams
      /\ \A u \in Streams : u \in Threads
  BY DEF Threads, Streams, AudioOne
<1>2. UNCHANGED <<raced, regs, asserted>>
  BY DEF CoreCalls, Open, Close, hw_params, hw_free, CallPrepare, CallTrigger,
         chipVars, busVars, history
<1>3. \E op : pcm' = [pcm EXCEPT ![s] = op]
  BY DEF CoreCalls, Open, capture_open, playback_open, Close, hw_params, hw_free, CallPrepare,
         CallTrigger, Begins
<1>4. UNCHANGED todo \/ \E p : todo' = [todo EXCEPT ![s] = p]
  BY DEF CoreCalls, Open, Close, hw_params, hw_free, CallPrepare, CallTrigger, Starts, runVars
<1>5. (pcm[s] = "start" /\ owed' = owed \ {s}) \/ (pcm[s] # "start" /\ UNCHANGED owed)
  BY DEF CoreCalls, Open, capture_open, playback_open, Close, hw_params, hw_free, CallPrepare,
         CallTrigger, Begins, history
<1>6. todo'["irq"] = todo["irq"] BY <1>1, <1>4 DEF Programs
<1>7. ASSUME NEW u \in owed'
      PROVE  /\ u \in owed /\ pcm'[u] = "start" /\ todo'[u] = todo[u]
             /\ Coming(u) => Coming(u)'
  <2>1. u \in owed /\ u \in Streams /\ pcm[u] = "start" /\ u # s BY <1>5 DEF Owed
  <2>2. pcm'[u] = "start" BY <1>3, <2>1 DEF Typed, TypeOK
  <2>3. todo'[u] = todo[u] BY <1>1, <1>4, <2>1 DEF Programs
  <2>4. Elapses(u) => Elapses(u)' BY <1>6 DEF Elapses
  <2>5. Coming(u) => Coming(u)' BY <1>2, <1>6, <2>1, <2>4, ComingStays
  <2> QED BY <2>1, <2>2, <2>3, <2>5
<1> QED BY <1>7, OwedChange

LEMMA OwedKept ==
    ASSUME Typed, Programs, Chip, Core, Bits, Transfers, Owed, [Next]_vars
    PROVE  Owed'
<1>1. ASSUME NEW t \in CtlThreads, NEW c, CallGet(t, c) \/ \E v \in Levels : CallPut(t, c, v)
      PROVE  Owed'
  <2>1. t # "irq" /\ t \notin Streams /\ "irq" \in Threads /\ Streams \subseteq Threads
    BY CtlThreadsAssumption DEF Threads
  <2>2. \E p : todo' = [todo EXCEPT ![t] = p] BY <1>1 DEF CallGet, CallPut, Starts
  <2>3. todo'["irq"] = todo["irq"] /\ \A s \in Streams : todo'[s] = todo[s]
    BY <2>1, <2>2 DEF Programs
  <2>4. UNCHANGED <<raced, regs, pcm, owed, asserted>>
    BY <1>1 DEF CallGet, CallPut, chipVars, busVars, coreVars, history
  <2> QED BY <2>3, <2>4, OwedSame
<1>2. CASE Buttons
  <2>1. /\ UNCHANGED <<raced, regs, pcm, owed, todo>> /\ asserted \subseteq asserted'
    BY <1>2 DEF Buttons, busVars, coreVars, runVars, history
  <2> QED BY <2>1, OwedSame
<1>3. CASE UNCHANGED vars
  BY <1>3, OwedSame DEF vars, chipVars, busVars, coreVars, runVars, history
<1> QED BY <1>1, <1>2, <1>3, Steps, OwedRuns, OwedTest, OwedIrq, OwedCalls, OwedPeriod

-----------------------------------------------------------------------------
(* The master volume.                                                      *)

LEMMA LevelPrograms ==
    /\ \A p \in Seq(CtlAccesses) : ~HasLevel(p)
    /\ \A v : HasLevel(<<Left(v), Right(v)>>) /\ HasLevel(<<Right(v)>>) /\ ~HasLevel(<<>>)
<1>1. ASSUME NEW p \in Seq(CtlAccesses) PROVE ~HasLevel(p)
  <2>1. \A i \in 1..Len(p) : p[i] \in CtlAccesses OBVIOUS
  <2> QED BY <2>1, CtlMakes DEF HasLevel
<1>2. ASSUME NEW v PROVE HasLevel(<<Left(v), Right(v)>>) /\ HasLevel(<<Right(v)>>)
  <2>1. Right(v).reg = "right" /\ Right(v).field = "level" BY AccessFields DEF Right
  <2>2. /\ Len(<<Left(v), Right(v)>>) = 2 /\ <<Left(v), Right(v)>>[2] = Right(v)
        /\ Len(<<Right(v)>>) = 1 /\ <<Right(v)>>[1] = Right(v)
    OBVIOUS
  <2>3. HasLevel(<<Left(v), Right(v)>>)
    <3>1. PICK p : p = <<Left(v), Right(v)>> OBVIOUS
    <3>2. 2 \in 1..Len(p) /\ p[2] = Right(v) BY <2>2, <3>1
    <3> QED BY <2>1, <3>1, <3>2 DEF HasLevel
  <2>4. HasLevel(<<Right(v)>>)
    <3>1. PICK p : p = <<Right(v)>> OBVIOUS
    <3>2. 1 \in 1..Len(p) /\ p[1] = Right(v) BY <2>2, <3>1
    <3> QED BY <2>1, <3>1, <3>2 DEF HasLevel
  <2> QED BY <2>3, <2>4
<1>3. ~HasLevel(<<>>) BY <1>1, EmptySeq
<1> QED BY <1>1, <1>2, <1>3

LEMMA WroteLevel ==
    ASSUME NEW b, NEW x, NEW fs, NEW v, Wrote(b, x, fs, v)
    PROVE  /\ LevelL(regs') = IF b = "mixer" /\ x = "left" /\ "level" \in fs THEN v ELSE LevelL(regs)
           /\ LevelR(regs') = IF b = "mixer" /\ x = "right" /\ "level" \in fs THEN v ELSE LevelR(regs)
<1>1. /\ "mixer" \in Buses /\ {"left", "right"} \subseteq DOMAIN Fields["mixer"]
      /\ "level" \in Fields["mixer"]["left"] /\ "level" \in Fields["mixer"]["right"]
  BY FieldsAre
<1> QED BY <1>1 DEF Wrote, LevelL, LevelR

\* what access a makes of the level in register x, that is l before and m after
Levels1(a, x, l, m) ==
    m = IF a.do = "bits" /\ a.bus = "mixer" /\ a.reg = x /\ a.field = "level" THEN a.val ELSE l

LEMMA RunsLevel ==
    ASSUME Typed, Programs, Chip, NEW t \in Threads, Runs(t)
    PROVE  \/ UNCHANGED <<todo, regs>>
           \/ /\ ~Idle(t) /\ Made(t, Next1(t))
              /\ \/ todo'[t] = Tail(todo[t])
                 \/ todo'[t] = <<>> /\ Next1(t).do # "bits"
              /\ Levels1(Next1(t), "left", LevelL(regs), LevelL(regs'))
              /\ Levels1(Next1(t), "right", LevelR(regs), LevelR(regs'))
<1> DEFINE a == Next1(t)
<1>1. CASE Select(t) BY <1>1 DEF Select
<1>2. CASE WriteData(t)
  <2> DEFINE fs == Fields[a.bus][a.reg]
  <2>1. ~Idle(t) /\ a.do = "write" /\ Made(t, a) /\ todo'[t] = Tail(todo[t])
    BY <1>2, Makes DEF WriteData, OnBus, Pops, Programs
  <2>2. Wrote(a.bus, a.reg, fs, a.val) BY <1>2, WriteWrites
  <2>3. a.reg # "left" /\ a.reg # "right"
    <3> HIDE DEF a
    <3> QED BY <2>1 DEF Made
  <2> HIDE DEF a, fs
  <2>4. LevelL(regs') = LevelL(regs) /\ LevelR(regs') = LevelR(regs) BY <2>2, <2>3, WroteLevel
  <2> QED BY <2>1, <2>3, <2>4 DEF Levels1, a
<1>3. CASE ReadData(t)
  <2>1. /\ ~Idle(t) /\ Made(t, a) /\ a.bus # "none" /\ a.do # "write" /\ step[t] = "data"
        /\ UNCHANGED regs
    BY <1>3, Makes DEF ReadData, OnBus, Next1
  <2>2. CASE UNCHANGED todo BY <2>1, <2>2
  <2>3. CASE ~UNCHANGED todo
    <3>1. \/ todo'[t] = Tail(todo[t])
          \/ todo'[t] = <<>> /\ a.do # "bits"
      BY <1>3, <2>3 DEF ReadData, Programs
    <3>2. a.do = "bits" => regs[a.bus][selected[a.bus]][a.field] = a.val
      BY <1>3, <2>3 DEF ReadData
    <3>3. OnBus(t) BY <1>3 DEF ReadData
    <3>4. selected[a.bus] = a.reg BY <2>1, <3>3 DEF Chip, Locked
    <3>5. /\ Levels1(a, "left", LevelL(regs), LevelL(regs'))
          /\ Levels1(a, "right", LevelR(regs), LevelR(regs'))
      <4> HIDE DEF a
      <4> QED BY <2>1, <3>2, <3>4 DEF Levels1, LevelL, LevelR
    <3> QED BY <2>1, <3>1, <3>5
  <2> QED BY <2>2, <2>3
<1>4. CASE StoreBits(t)
  <2> DEFINE f == a.field
  <2>1. ~Idle(t) /\ Made(t, a) /\ todo'[t] = Tail(todo[t])
    BY <1>4, Makes DEF StoreBits, OnBus, Pops, Programs
  <2>2. a.do = "bits" /\ Wrote(a.bus, a.reg, {f}, a.val) BY <1>4, StoreWrites
  <2>3. f = a.field OBVIOUS
  <2> HIDE DEF a, f
  <2>4. /\ Levels1(a, "left", LevelL(regs), LevelL(regs'))
        /\ Levels1(a, "right", LevelR(regs), LevelR(regs'))
    BY <2>2, <2>3, WroteLevel DEF Levels1
  <2> QED BY <2>1, <2>4 DEF a
<1>5. ASSUME NEW d, Is(t, d), Pops(t), d \notin OnChip, UNCHANGED regs
      PROVE  /\ ~Idle(t) /\ Made(t, a) /\ todo'[t] = Tail(todo[t])
             /\ Levels1(a, "left", LevelL(regs), LevelL(regs'))
             /\ Levels1(a, "right", LevelR(regs), LevelR(regs'))
  <2>1. ~Idle(t) /\ Made(t, a) /\ a.do = d BY <1>5, Makes DEF Is
  <2>2. todo'[t] = Tail(todo[t]) BY <1>5 DEF Pops, Programs
  <2> HIDE DEF a
  <2> QED BY <1>5, <2>1, <2>2 DEF Levels1, OnChip
<1>6. CASE SetDma1(t) BY <1>5, <1>6 DEF SetDma1, busVars, OnChip
<1>7. CASE ProgramDmac(t) BY <1>5, <1>7 DEF ProgramDmac, busVars, OnChip
<1>8. CASE ProgramDma2(t) BY <1>5, <1>8 DEF ProgramDma2, busVars, OnChip
<1>9. CASE LoadActive(t) BY <1>5, <1>9 DEF LoadActive, busVars, OnChip
<1>10. CASE StoreActive(t) BY <1>5, <1>10 DEF StoreActive, busVars, OnChip
<1> QED BY <1>1, <1>2, <1>3, <1>4, <1>6, <1>7, <1>8, <1>9, <1>10 DEF Runs

LEMMA StereoSame ==
    ASSUME Stereo, UNCHANGED mixed, LevelL(regs') = LevelL(regs), LevelR(regs') = LevelR(regs),
           \A t \in CtlThreads : todo'[t] = todo[t] \/ (~HasLevel(todo[t]) /\ ~HasLevel(todo'[t]))
    PROVE  Stereo'
<1>1. \A t \in CtlThreads : HasLevel(todo'[t]) <=> Level(t) BY DEF Level
<1>2. \A t \in CtlThreads : \A v \in Levels : todo'[t] = <<Right(v)>> => todo[t] = <<Right(v)>>
  BY LevelPrograms
<1> QED BY <1>1, <1>2 DEF Stereo, Level

LEMMA StereoRuns ==
    ASSUME Typed, Programs, Chip, Stereo, NEW t \in Threads, Runs(t)
    PROVE  Stereo'
<1> DEFINE a == Next1(t)
<1>1. UNCHANGED mixed /\ \A u \in Threads \ {t} : todo'[u] = todo[u]
  <2>1. UNCHANGED mixed
    BY DEF Runs, Select, WriteData, ReadData, StoreBits, SetDma1, ProgramDmac, ProgramDma2,
           LoadActive, StoreActive, history
  <2> QED BY <2>1, RunDma
<1>2. CtlThreads \subseteq Threads BY DEF Threads
<1>3. CASE UNCHANGED <<todo, regs>> BY <1>1, <1>3, StereoSame
<1>4. CASE /\ ~Idle(t) /\ Made(t, a)
           /\ todo'[t] = Tail(todo[t]) \/ (todo'[t] = <<>> /\ a.do # "bits")
           /\ Levels1(a, "left", LevelL(regs), LevelL(regs'))
           /\ Levels1(a, "right", LevelR(regs), LevelR(regs'))
  <2>1. CASE t \notin CtlThreads
    <3>1. a.do = "bits" => a.reg # "left" /\ a.reg # "right"
      <4> HIDE DEF a
      <4> QED BY <1>4, <2>1 DEF Made
    <3>2. LevelL(regs') = LevelL(regs) /\ LevelR(regs') = LevelR(regs)
      <4> HIDE DEF a
      <4> QED BY <1>4, <3>1 DEF Levels1
    <3>3. \A u \in CtlThreads : todo'[u] = todo[u] BY <1>1, <1>2, <2>1
    <3> QED BY <1>1, <3>2, <3>3, StereoSame
  <2>2. CASE t \in CtlThreads /\ todo[t] \in Seq(CtlAccesses)
    <3>1. a \in CtlAccesses /\ todo'[t] \in Seq(CtlAccesses)
      BY <1>4, <2>2, TailIs, EmptySeq DEF Idle, Next1
    <3>2. LevelL(regs') = LevelL(regs) /\ LevelR(regs') = LevelR(regs)
      <4> HIDE DEF a
      <4> QED BY <1>4, <3>1, CtlMakes DEF Levels1
    <3>3. ~HasLevel(todo[t]) /\ ~HasLevel(todo'[t]) BY <2>2, <3>1, LevelPrograms
    <3> QED BY <1>1, <1>2, <3>2, <3>3, StereoSame
  <2>3. ASSUME NEW v \in Levels, t \in CtlThreads, todo[t] = <<Left(v), Right(v)>>
        PROVE  Stereo'
    <3>1. a = Left(v) /\ Tail(todo[t]) = <<Right(v)>> BY <2>3 DEF Next1
    <3>2. /\ a.do = "bits" /\ a.bus = "mixer" /\ a.reg = "left" /\ a.field = "level" /\ a.val = v
      BY <3>1, AccessFields DEF Left
    <3>3. todo'[t] = <<Right(v)>> BY <1>4, <3>1, <3>2
    <3>4. LevelL(regs') = v BY <1>4, <3>2 DEF Levels1
    <3>5. Level(t) /\ HasLevel(todo'[t]) BY <2>3, <3>3, LevelPrograms DEF Level
    <3>6. ASSUME mixed = {}, NEW u \in CtlThreads, u # t PROVE ~HasLevel(todo'[u])
      <4>1. ~Level(u) BY <2>3, <3>5, <3>6 DEF Stereo
      <4> QED BY <1>1, <1>2, <3>6, <4>1 DEF Level
    <3>7. ASSUME mixed = {}, NEW u \in CtlThreads, NEW w \in Levels, todo'[u] = <<Right(w)>>
          PROVE  LevelL(regs') = w
      <4>1. u = t BY <3>6, <3>7, LevelPrograms
      <4>2. Right(w) = Right(v) BY <3>3, <3>7, <4>1
      <4>3. w = v BY <4>2, AccessFields DEF Right
      <4> QED BY <3>4, <4>3
    <3> HIDE DEF a
    <3> QED BY <1>1, <2>3, <3>5, <3>6, <3>7 DEF Stereo, Level
  <2>4. ASSUME NEW v \in Levels, t \in CtlThreads, todo[t] = <<Right(v)>>
        PROVE  Stereo'
    <3>1. a = Right(v) /\ Tail(todo[t]) = <<>> BY <2>4 DEF Next1
    <3>2. /\ a.do = "bits" /\ a.bus = "mixer" /\ a.reg = "right" /\ a.field = "level" /\ a.val = v
      BY <3>1, AccessFields DEF Right
    <3>3. todo'[t] = <<>> BY <1>4, <3>1
    <3>4. LevelL(regs') = LevelL(regs) /\ LevelR(regs') = v BY <1>4, <3>2 DEF Levels1
    <3>5. Level(t) /\ ~HasLevel(todo'[t]) BY <2>4, <3>3, LevelPrograms DEF Level
    <3>6. ASSUME mixed = {}, NEW u \in CtlThreads PROVE ~HasLevel(todo'[u])
      <4>1. u # t => ~Level(u) BY <2>4, <3>5, <3>6 DEF Stereo
      <4> QED BY <1>1, <1>2, <3>5, <4>1 DEF Level
    <3>7. mixed = {} => LevelL(regs') = LevelR(regs') BY <2>4, <3>4 DEF Stereo
    <3>8. mixed = {} => \A u \in CtlThreads : \A w \in Levels : todo'[u] # <<Right(w)>>
      BY <3>6, LevelPrograms
    <3> HIDE DEF a
    <3> QED BY <1>1, <3>6, <3>7, <3>8 DEF Stereo, Level
  <2> QED BY <2>1, <2>2, <2>3, <2>4 DEF Programs, CtlPrograms
<1> QED BY <1>3, <1>4, RunsLevel

LEMMA TwoLeft == \A v, w : <<Left(v), Right(v)>> # <<Right(w)>>
<1>1. ASSUME NEW a, NEW b, NEW c PROVE <<a, b>> # <<c>>
  <2>1. Len(<<a, b>>) = 2 /\ Len(<<c>>) = 1 OBVIOUS
  <2>2. 1 # 2 OBVIOUS
  <2> QED BY <2>1, <2>2, Zenon
<1> QED BY <1>1

\* a put of the master volume starts
LEMMA StereoPut ==
    ASSUME Programs, Stereo, NEW t \in CtlThreads, NEW v \in Levels, CallPut(t, "Master Volume", v)
    PROVE  Stereo'
<1>1. todo'[t] = <<Left(v), Right(v)>> /\ \A u \in CtlThreads \ {t} : todo'[u] = todo[u]
  BY CtlProgramsAre DEF CallPut, Starts, Programs, Threads
<1>2. mixed' = IF Meanwhile(t) THEN Doubled ELSE {} BY DEF CallPut, Doubled
<1>3. ASSUME NEW u \in CtlThreads, NEW w \in Levels PROVE todo'[t] # <<Right(w)>>
  BY <1>1, TwoLeft
<1>4. ASSUME mixed' = {}, NEW u \in CtlThreads, u # t PROVE ~HasLevel(todo'[u])
  <2>1. ~Meanwhile(t) BY <1>2, <1>4 DEF Doubled
  <2>2. todo[u] \in Seq(Accesses) BY DEF Programs, Threads
  <2>3. DOMAIN todo[u] = 1..Len(todo[u]) BY <2>2, LenProperties
  <2>4. ~HasLevel(todo[u]) BY <1>4, <2>1, <2>3 DEF Meanwhile, HasLevel
  <2> QED BY <1>1, <1>4, <2>4
<1>5. HasLevel(todo'[t]) BY <1>1, LevelPrograms
<1>6. mixed' = {} => \A u \in CtlThreads : \A w \in Levels : todo'[u] # <<Right(w)>>
  BY <1>3, <1>4, LevelPrograms
<1> QED BY <1>4, <1>5, <1>6 DEF Stereo, Level

LEMMA StereoKept ==
    ASSUME Typed, Programs, Chip, Stereo, [Next]_vars
    PROVE  Stereo'
<1>1. ASSUME NEW t \in Threads, t \notin CtlThreads, NEW p,
             todo' = todo \/ todo' = [todo EXCEPT ![t] = p], UNCHANGED <<mixed, regs>>
      PROVE  Stereo'
  <2>1. \A u \in CtlThreads : todo'[u] = todo[u] BY <1>1 DEF Programs, Threads
  <2> QED BY <1>1, <2>1, StereoSame
<1>2. "irq" \in Threads /\ "irq" \notin CtlThreads BY CtlThreadsAssumption DEF Threads
<1>3. CASE AckAudio1 \/ TestActive \/ PeriodElapsed \/ Interrupt
  <2>1. \E p : todo' = [todo EXCEPT !["irq"] = p]
    BY <1>3 DEF AckAudio1, TestActive, PeriodElapsed, Interrupt, Pops, Reporting, Ignores, Starts
  <2>2. UNCHANGED <<mixed, regs>>
    BY <1>3 DEF AckAudio1, TestActive, PeriodElapsed, Interrupt, busVars, history
  <2> QED BY <1>1, <1>2, <2>1, <2>2
<1>4. CASE Buttons BY <1>1, <1>2, <1>4 DEF Buttons, busVars, runVars, history
<1>5. ASSUME NEW s \in Streams, CoreCalls(s) PROVE Stereo'
  <2>1. s \in Threads /\ s \notin CtlThreads BY CtlThreadsAssumption DEF Threads
  <2>2. todo' = todo \/ \E p : todo' = [todo EXCEPT ![s] = p]
    BY <1>5 DEF CoreCalls, Open, Close, hw_params, hw_free, CallPrepare, CallTrigger, Starts,
       runVars
  <2>3. UNCHANGED <<mixed, regs>>
    BY <1>5 DEF CoreCalls, Open, Close, hw_params, hw_free, CallPrepare, CallTrigger,
                busVars, history
  <2> QED BY <1>1, <2>1, <2>2, <2>3
<1>6. ASSUME NEW s \in Streams, PeriodEnds(s) PROVE Stereo'
  <2>1. UNCHANGED regs \/ Wrote("mixer", "control2", {"irq"}, "set") BY <1>6, PeriodWrites
  <2>2. LevelL(regs') = LevelL(regs) /\ LevelR(regs') = LevelR(regs) BY <2>1, WroteLevel
  <2>3. UNCHANGED <<mixed, todo>> BY <1>6 DEF PeriodEnds, runVars
  <2> QED BY <2>2, <2>3, StereoSame
<1>7. ASSUME NEW t \in CtlThreads, NEW p \in Seq(CtlAccesses), Idle(t), Starts(t, p),
             UNCHANGED <<mixed, regs>>
      PROVE  Stereo'
  <2>1. \A u \in CtlThreads : todo'[u] = IF u = t THEN p ELSE todo[u]
    BY <1>7 DEF Starts, Programs, Threads
  <2>2. ~HasLevel(todo[t]) BY <1>7, LevelPrograms DEF Idle
  <2> QED BY <1>7, <2>1, <2>2, StereoSame, LevelPrograms
<1>8. ASSUME NEW t \in CtlThreads, NEW c \in KnownControls,
             CallGet(t, c) \/ \E v \in Levels : CallPut(t, c, v)
      PROVE  Stereo'
  <2>1. CASE CallGet(t, c)
    BY <1>7, <2>1, CtlProgramsAre DEF CallGet, busVars, history
  <2>2. ASSUME NEW v \in Levels, CallPut(t, c, v), c # "Master Volume" PROVE Stereo'
    BY <1>7, <2>2, CtlProgramsAre DEF CallPut, Doubled, busVars
  <2>3. ASSUME NEW v \in Levels, CallPut(t, c, v), c = "Master Volume" PROVE Stereo'
    BY <2>3, StereoPut
  <2> QED BY <1>8, <2>1, <2>2, <2>3
<1>9. CASE UNCHANGED vars BY <1>9, StereoSame DEF vars, busVars, runVars, history
<1> QED BY <1>3, <1>4, <1>5, <1>6, <1>8, <1>9, Steps, StereoRuns

-----------------------------------------------------------------------------
(* The theorems.                                                           *)

LEMMA InitIInv == ASSUME Init PROVE IInv
<1> USE DEF Init
<1>1. \A t \in Threads : todo[t] = <<>> BY DEF Threads
<1>2. \A t \in Threads : Idle(t) BY <1>1 DEF Idle
<1>3. /\ Streams \subseteq Threads /\ CtlThreads \subseteq Threads /\ "irq" \in Threads
      /\ AudioOne \subseteq Streams /\ "none" \notin Streams
  BY DEF Threads, Streams, AudioOne
<1>4. Typed
  BY DEF Typed, TypeOK, Streams, AudioOne
<1>5. Programs
  <2>1. todo \in [Threads -> Seq(Accesses)] BY <1>1, EmptyPrograms
  <2> QED BY <1>1, <1>3, <2>1, EmptyPrograms DEF Programs
<1>6. \A b \in Buses : \A x \in DOMAIN Fields[b] :
        /\ regs[b][x] = [f \in Fields[b][x] |-> IF f \in {"level", "mute", "mux", "switch", "on",
                                                           "monitor"} THEN "low" ELSE "none"]
        /\ regs[b] = [y \in DOMAIN Fields[b] |-> regs[b][y]]
  BY DEF Cleared
<1>7. Shaped(regs)
  <2>1. regs = [b \in Buses |-> [x \in DOMAIN Fields[b] |-> regs[b][x]]] BY DEF Cleared
  <2>2. ASSUME NEW b \in Buses, NEW x \in DOMAIN Fields[b] PROVE regs[b][x] \in [Fields[b][x] -> Values]
    <3>1. PICK g : g = [f \in Fields[b][x] |-> IF f \in {"level", "mute", "mux", "switch", "on",
                                                         "monitor"} THEN "low" ELSE "none"]
      OBVIOUS
    <3>2. g \in [Fields[b][x] -> Values] BY <3>1 DEF Values
    <3>3. regs[b][x] = g BY <1>6, <3>1
    <3> QED BY <3>2, <3>3
  <2> QED BY <2>1, <2>2 DEF Shaped
<1>8. Chip BY <1>7 DEF Chip, Locked
<1>9. \A s \in Streams : pcm[s] = "close" OBVIOUS
<1>10. Core BY <1>9 DEF Core
<1>11. InUpdate = {} BY <1>2, <1>3 DEF InUpdate, Is
<1>12. Bits BY <1>9, <1>11 DEF Bits
<1>13. Prepared BY <1>3, <1>9 DEF Prepared, Callbacks, Streams
<1>14. Control1(regs) = "none" /\ LevelL(regs) = "low" /\ LevelR(regs) = "low"
  <2>1. /\ "command" \in Buses /\ "dmacontrol" \in DOMAIN Fields["command"]
        /\ "all" \in Fields["command"]["dmacontrol"]
        /\ "mixer" \in Buses /\ {"left", "right"} \subseteq DOMAIN Fields["mixer"]
        /\ "level" \in Fields["mixer"]["left"] /\ "level" \in Fields["mixer"]["right"]
    BY FieldsAre
  <2>2. regs["command"]["dmacontrol"]["all"] = "none"
    <3>1. regs["command"]["dmacontrol"]
            = [f \in Fields["command"]["dmacontrol"] |->
                 IF f \in {"level", "mute", "mux", "switch", "on", "monitor"} THEN "low" ELSE "none"]
      BY <1>6, <2>1
    <3> QED BY <2>1, <3>1
  <2>3. ASSUME NEW x \in {"left", "right"} PROVE regs["mixer"][x]["level"] = "low"
    <3>1. regs["mixer"][x]
            = [f \in Fields["mixer"][x] |->
                 IF f \in {"level", "mute", "mux", "switch", "on", "monitor"} THEN "low" ELSE "none"]
      BY <1>6, <2>1
    <3> QED BY <2>1, <3>1
  <2> QED BY <2>2, <2>3 DEF Control1, LevelL, LevelR
<1>15. Transfers BY <1>3, <1>14 DEF Transfers
<1>16. Owed BY DEF Owed
<1>17. Stereo
  <2>1. \A t \in CtlThreads : ~Level(t) BY <1>1, <1>3, LevelPrograms DEF Level
  <2>2. \A t \in CtlThreads : \A v \in Levels : todo[t] # <<Right(v)>> BY <1>1, <1>3
  <2> QED BY <1>14, <2>1, <2>2 DEF Stereo
<1> QED BY <1>4, <1>5, <1>8, <1>10, <1>12, <1>13, <1>15, <1>16, <1>17 DEF IInv

LEMMA NextIInv == ASSUME IInv, [Next]_vars PROVE IInv'
  BY TypedKept, ProgramsKept, ChipKept, CoreKept, BitsKept, PreparedKept, TransfersKept, OwedKept,
     StereoKept
  DEF IInv

\* The invariant the proofs below rest on: programs that hold what their callback
\* does, in its order; registers as meant, and as the holder of a lock has read
\* them; which streams are open, have a buffer, are in chip->active; what a
\* channel is set up for, and what the callback under way still has to change.
THEOREM Invariant == Spec => []IInv
<1>1. Init => IInv BY InitIInv
<1>2. IInv /\ [Next]_vars => IInv' BY NextIInv
<1> QED BY <1>1, <1>2, PTL DEF Spec

\* Every variable has its type: chip->active holds streams, the DMA controller
\* and the dma1 values are of a stream of channel 1, a lock is held by a thread.
THEOREM TypeCorrect == Spec => []TypeOK
<1>1. IInv => TypeOK BY DEF IInv, Typed
<1> QED BY <1>1, Invariant, PTL

\* However the callbacks, the controls and the interrupt handler interleave,
\* mixer_lock and reg_lock make each select-and-access of an indexed register one
\* step: a register holds what the last access to it meant it to hold.
THEOREM RegistersAreMeant == Spec => []RegistersMeant
<1>1. IInv => RegistersMeant BY DEF IInv, Chip, RegistersMeant
<1> QED BY <1>1, Invariant, PTL

\* chip->active has the bit of a stream whose trigger is over exactly if it was
\* started, unless its trigger overlapped another stream's: the triggers load and
\* store the field under the locks of their own streams only.
THEOREM ActiveIsRight == Spec => []ActiveTellsRunning
<1>1. ASSUME IInv, NEW s \in Streams \ raced, ~InTrigger(s)
      PROVE  s \in active <=> pcm[s] = "start"
  <2>1. ~Pending(s)
    <3>1. CASE Idle(s) BY <3>1, NothingLeftToDo DEF Pending
    <3>2. CASE ~Idle(s)
      <4>1. pcm[s] \notin {"start", "stop"} BY <1>1, <3>2 DEF InTrigger
      <4>2. todo[s] \in Seq(StreamAccesses(s, pcm[s])) BY <1>1 DEF IInv, Programs
      <4>3. \A i \in 1..Len(todo[s]) : StreamMade(s, pcm[s], todo[s][i]) BY <4>2, StreamMakes
      <4> QED BY <4>1, <4>3 DEF StreamMade, Pending, HasDo
    <3> QED BY <3>1, <3>2
  <2> QED BY <1>1, <2>1 DEF IInv, Bits
<1>2. IInv => ActiveTellsRunning BY <1>1 DEF ActiveTellsRunning
<1> QED BY <1>2, Invariant, PTL

\* A channel transfers only for an open, started stream with a DMA buffer, and with
\* what the prepare of that stream has set up: channel 1 is shared by capture and
\* playback2, of which capture_open and playback_open let in one at a time, and no
\* order of their callbacks leaves the channel to one with the setup of the other.
THEOREM TransfersAreOwn == Spec => []TransfersItsOwn
<1>1. ASSUME IInv, NEW s \in Streams, pcm[s] \in {"start", "stop"}
      PROVE  /\ \A d \in {"dma1", "program", "unmask", "dma2"} : ~HasDo(todo[s], d)
             /\ \A r \in {"analog", "setup"} : ~HasReg(todo[s], r)
             /\ s \in substreams \intersect buffer
  <2>1. todo[s] \in Seq(StreamAccesses(s, pcm[s])) BY <1>1 DEF IInv, Programs
  <2>2. \A i \in 1..Len(todo[s]) : StreamMade(s, pcm[s], todo[s][i]) BY <2>1, StreamMakes
  <2>3. ASSUME NEW i \in 1..Len(todo[s])
        PROVE  /\ todo[s][i].do \notin {"dma1", "program", "unmask", "dma2"}
               /\ todo[s][i].reg \notin {"analog", "setup"}
    <3>1. PICK a : a = todo[s][i] OBVIOUS
    <3>2. StreamMade(s, pcm[s], a) BY <2>2, <3>1
    <3>3. a.do \notin {"dma1", "program", "unmask", "dma2"} BY <1>1, <3>2 DEF StreamMade
    <3>4. a.reg \notin {"analog", "setup"} BY <1>1, <3>2 DEF StreamMade
    <3> QED BY <3>1, <3>3, <3>4
  <2>4. s \in substreams \intersect buffer BY <1>1 DEF IInv, Core
  <2> QED BY <2>3, <2>4 DEF HasDo, HasReg
<1>2. ASSUME IInv, NEW s \in AudioOne, Transfers1 = s
      PROVE  /\ pcm[s] \in {"start", "stop"} /\ s \in substreams \intersect buffer
             /\ dmac = [owner |-> s, masked |-> FALSE] /\ dma1 = s
             /\ regs.command.setup["all"] = s /\ regs.command.analog["mono"] = s
  <2>1. s \in Streams BY DEF Streams
  <2>2. pcm[s] \in {"start", "stop"} BY <1>2 DEF IInv, Transfers, Transfers1, Control1
  <2>3. Ready1(s) BY <1>2, <2>2 DEF IInv, Prepared, Callbacks
  <2>4. /\ dma1 = s /\ dmac.owner = s /\ ~dmac.masked
        /\ Mono(regs) = s /\ Setup1(regs) = s /\ s \in substreams \intersect buffer
    BY <1>1, <1>2, <2>1, <2>2, <2>3 DEF Ready1
  <2>5. dmac = [owner |-> s, masked |-> FALSE] BY <1>2, <2>4 DEF IInv, Typed, TypeOK
  <2> QED BY <2>2, <2>4, <2>5 DEF Mono, Setup1
<1>3. ASSUME IInv, mode2
      PROVE  /\ pcm["playback1"] \in {"start", "stop"}
             /\ "playback1" \in substreams \intersect buffer /\ dma2 = "playback1"
             /\ regs.mixer.setup["all"] = "playback1"
  <2>1. "playback1" \in Streams BY DEF Streams
  <2>2. pcm["playback1"] \in {"start", "stop"} BY <1>3 DEF IInv, Transfers
  <2>3. Ready2 BY <1>3, <2>2 DEF IInv, Prepared, Callbacks
  <2>4. /\ dma2 = "playback1" /\ Setup2(regs) = "playback1"
        /\ "playback1" \in substreams \intersect buffer
    BY <1>1, <1>3, <2>1, <2>2, <2>3 DEF Ready2
  <2> QED BY <2>2, <2>4 DEF Setup2
<1>4. IInv => TransfersItsOwn BY <1>2, <1>3 DEF TransfersItsOwn
<1> QED BY <1>4, Invariant, PTL

\* The handler takes a request back before it tests chip->active and reports the
\* period, so whatever ends meanwhile asserts the interrupt again: with the handler
\* idle, a period of a running stream is reported or its interrupt is pending,
\* unless overlapping triggers lost or left a bit of chip->active.
THEOREM NoPeriodIsMissed == Spec => []NoPeriodMissed
<1>1. ASSUME IInv, NEW s \in owed, Idle("irq"), s \notin raced
      PROVE  \/ s \in AudioOne /\ ("audio1" \in Status \/ raced \intersect AudioOne # {})
             \/ s = "playback1" /\ "audio2" \in Status
  <2>1. s \in Streams /\ Coming(s) BY <1>1 DEF IInv, Owed
  <2>2. /\ ~HasDo(todo["irq"], "test1") /\ ~HasDo(todo["irq"], "test2") /\ ~Elapses(s)
    <3>1. todo["irq"] = <<>> BY <1>1 DEF Idle
    <3>2. Len(todo["irq"]) = 0 BY <3>1, EmptySeq
    <3> QED BY <3>2 DEF HasDo, Elapses
  <2>3. /\ "audio1" \in asserted => "audio1" \in Status
        /\ Irq2(regs) = "set" => "audio2" \in Status
    BY DEF Status, Irq2
  <2>4. CASE s \in AudioOne BY <2>1, <2>2, <2>3, <2>4 DEF Coming
  <2>5. CASE s = "playback1" BY <1>1, <2>1, <2>2, <2>3, <2>5 DEF Coming
  <2> QED BY <2>1, <2>4, <2>5 DEF Streams
<1>2. IInv => NoPeriodMissed BY <1>1 DEF NoPeriodMissed
<1> QED BY <1>2, Invariant, PTL

\* The two halves of the master volume are two accesses, each under the lock but
\* not together: they come from the same put once all are done, however other
\* puts and gets interleave, unless two puts of the master volume overlapped.
THEOREM StereoIsTogether == Spec => []StereoTogether
<1>1. ASSUME IInv, mixed = {}, \A t \in CtlThreads : Idle(t)
      PROVE  regs.mixer.left["level"] = regs.mixer.right["level"]
  <2>1. \A t \in CtlThreads : ~Level(t) BY <1>1, LevelPrograms DEF Idle, Level
  <2> QED BY <1>1, <2>1 DEF IInv, Stereo, LevelL, LevelR
<1>2. IInv => StereoTogether BY <1>1 DEF StereoTogether
<1> QED BY <1>2, Invariant, PTL
=============================================================================
