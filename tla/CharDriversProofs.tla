------------------------- MODULE CharDriversProofs -------------------------
(***************************************************************************)
(* Proofs about CharDrivers, for any processes, any size of the buffer and *)
(* any number of calls, for each of the drivers.                           *)
(*                                                                         *)
(* A process at work is what is left of a program of its driver. Steps     *)
(* have ranks, programs take them in the order of rank, and so the next    *)
(* step tells which steps are done and which are still to come: Form says  *)
(* that, Programs shows it for every operation of the table, and Shape     *)
(* keeps it while the programs run. Each invariant then says, for the      *)
(* steps left, what the process knows of the shared state.                 *)
(*                                                                         *)
(* Exclusive and Chosen: who may be at the ports, and that the address     *)
(* port holds the register of the process at an access. LockedInv: who     *)
(* has the lock, and which buffer that stood agrees with what was read.    *)
(* CopyInv: what a read has copied, and the length that it returns.        *)
(* SyncInv and MessageInv: what has let a reader of chardev_sync go on,    *)
(* and that the buffer it reads, met by no write, is the last message.     *)
(* OffsetInv: readoffset is the sum of what has been returned and of what  *)
(* is about to be. WholeInv: what each write has set and each read has     *)
(* copied so far.                                                          *)
(***************************************************************************)
EXTENDS CharDrivers, FiniteSetTheorems, TLAPS

-----------------------------------------------------------------------------
(* Programs: sequences of steps.                                           *)

PortSteps == {"mutex", "address", "get", "set", "unmutex"}

\* The order in which a call takes its steps: no step of a lower rank follows
Rank == [trylock |-> 1, capable |-> 2, opened |-> 3,
         size |-> 1, getvalue |-> 1, setvalue |-> 1,
         rlock |-> 2, wlock |-> 2, seqbegin |-> 2, await |-> 2, clear |-> 2,
         count |-> 3, out |-> 4, in |-> 4, fill |-> 4, poll |-> 4,
         mutex |-> 4, address |-> 4, get |-> 4, set |-> 4, unmutex |-> 4,
         load |-> 5, add |-> 6, runlock |-> 7, wunlock |-> 7, seqretry |-> 7, complete |-> 7,
         forget |-> 7, return |-> 8, failed |-> 8, unlock |-> 8]

Steps(t) == {t[i] : i \in 1 .. Len(t)}
Dos(t) == {s.do : s \in Steps(t)}

Earlier(a, b) == Rank[a] < Rank[b] \/ (a \in PortSteps /\ b \in PortSteps)
Ordered(t) == \A i, j \in 1 .. Len(t) : i < j => Earlier(t[i].do, t[j].do)

\* rtc_proc and rtc_sync take a mutex around each access of a register
Mutexed == {"rtc_proc", "rtc_sync"}

\* What may follow what at the ports
Linked(d, a, b) ==
    /\ a.do = "address" => b.do \in {"get", "set"} /\ b.reg = a.reg
    /\ b.do \in {"get", "set"} => a.do = "address"
    /\ d \in Mutexed => /\ a.do = "mutex" => b.do = "address"
                        /\ a.do \in {"get", "set"} => b.do = "unmutex"
                        /\ a.do = "unmutex" => b.do \in {"mutex", "return"}
                        /\ b.do = "address" => a.do = "mutex"
                        /\ b.do = "unmutex" => a.do \in {"get", "set"}
Chained(d, t) == \A i \in 1 .. Len(t) - 1 : Linked(d, t[i], t[i + 1])

Form(d, t) == t \in Seq(Step) /\ Ordered(t) /\ Chained(d, t)

\* A program that is read from its second step on has the first one no more
LEMMA TailForm ==
    ASSUME NEW d, NEW t, Form(d, t), t # <<>>
    PROVE  /\ Form(d, Tail(t))
           /\ Steps(t) = {Head(t)} \union Steps(Tail(t))
           /\ Dos(t) = {Head(t).do} \union Dos(Tail(t))
           /\ \A e \in Dos(Tail(t)) : Earlier(Head(t).do, e)
           /\ Tail(t) # <<>> => Linked(d, Head(t), Head(Tail(t)))
<1> DEFINE u == Tail(t)
<1>1. /\ t \in Seq(Step) /\ Len(t) \in Nat /\ Len(t) > 0 /\ Head(t) = t[1]
      /\ u \in Seq(Step) /\ Len(u) = Len(t) - 1
      /\ \A i \in 1 .. Len(u) : u[i] = t[i + 1]
  BY DEF Form
<1>2. Ordered(u)
  BY <1>1 DEF Form, Ordered
<1>3. Chained(d, u)
  BY <1>1 DEF Form, Chained
<1>4. Steps(t) = {Head(t)} \union Steps(u)
  <2>1. ASSUME NEW e \in Steps(t) PROVE e \in {Head(t)} \union Steps(u)
    <3>1. PICK i \in 1 .. Len(t) : e = t[i]
      BY DEF Steps
    <3>2. CASE i = 1
      BY <3>1, <3>2, <1>1
    <3>3. CASE i # 1
      <4>1. i - 1 \in 1 .. Len(u) /\ u[i - 1] = t[i]
        BY <3>3, <1>1
      <4>2. QED
        BY <4>1, <3>1 DEF Steps
    <3>4. QED
      BY <3>2, <3>3
  <2>2. ASSUME NEW e \in Steps(u) PROVE e \in Steps(t)
    <3>1. PICK i \in 1 .. Len(u) : e = u[i]
      BY DEF Steps
    <3>2. i + 1 \in 1 .. Len(t) /\ u[i] = t[i + 1]
      BY <1>1
    <3>3. QED
      BY <3>1, <3>2 DEF Steps
  <2>3. Head(t) \in Steps(t)
    BY <1>1 DEF Steps
  <2>4. QED
    BY <2>1, <2>2, <2>3
<1>5. ASSUME NEW e \in Dos(u) PROVE Earlier(Head(t).do, e)
  <2>1. PICK i \in 1 .. Len(u) : e = u[i].do
    BY DEF Dos, Steps
  <2>2. 1 \in 1 .. Len(t) /\ i + 1 \in 1 .. Len(t) /\ u[i] = t[i + 1] /\ 1 < i + 1
    BY <1>1
  <2>3. Ordered(t)
    BY DEF Form
  <2>4. Earlier(t[1].do, t[i + 1].do)
    BY <2>2, <2>3 DEF Ordered
  <2>5. QED
    BY <2>1, <2>2, <2>4, <1>1
<1>8. Dos(t) = {Head(t).do} \union Dos(u)
  BY <1>4 DEF Dos
<1>6. u # <<>> => Linked(d, Head(t), Head(u))
  <2> HAVE u # <<>>
  <2>1. Len(u) > 0 /\ Head(u) = u[1] /\ 1 \in 1 .. Len(t) - 1 /\ u[1] = t[1 + 1]
    BY <1>1
  <2>2. QED
    BY <2>1, <1>1 DEF Form, Chained
<1>7. QED
  BY <1>1, <1>2, <1>3, <1>4, <1>5, <1>6, <1>8 DEF Form

\* The next step of a program is one of its steps
LEMMA HeadDos ==
    ASSUME NEW d, NEW t, Form(d, t), t # <<>>
    PROVE  Head(t).do \in Dos(t)
<1>1. Dos(t) = {Head(t).do} \union Dos(Tail(t))
  BY TailForm
<1>2. QED
  BY <1>1

\* A program at its end has no steps
LEMMA EmptyDos ==
    ASSUME NEW t, t = <<>>
    PROVE  Dos(t) = {}
BY DEF Dos, Steps

\* Two programs one after the other
LEMMA ConcatForm ==
    ASSUME NEW d, NEW s, NEW t, Form(d, s), Form(d, t), s # <<>>, t # <<>>,
           \A a \in Dos(s) : \A b \in Dos(t) : Earlier(a, b),
           Linked(d, s[Len(s)], t[1])
    PROVE  Form(d, s \o t)
<1> DEFINE u == s \o t
<1>1. /\ s \in Seq(Step) /\ t \in Seq(Step) /\ u \in Seq(Step)
      /\ Len(s) \in Nat /\ Len(t) \in Nat /\ Len(s) > 0 /\ Len(t) > 0
      /\ Len(u) = Len(s) + Len(t)
      /\ \A i \in 1 .. Len(s) : u[i] = s[i]
      /\ \A i \in Len(s) + 1 .. Len(s) + Len(t) : u[i] = t[i - Len(s)]
  BY DEF Form
<1> HIDE DEF u
<1>2. Ordered(u)
  <2> SUFFICES ASSUME NEW i \in 1 .. Len(u), NEW j \in 1 .. Len(u), i < j
               PROVE  Earlier(u[i].do, u[j].do)
    BY DEF Ordered
  <2>1. CASE j <= Len(s)
    BY <2>1, <1>1 DEF Form, Ordered
  <2>2. CASE i > Len(s)
    <3>1. i - Len(s) \in 1 .. Len(t) /\ j - Len(s) \in 1 .. Len(t) /\ i - Len(s) < j - Len(s)
      BY <2>2, <1>1
    <3>2. u[i] = t[i - Len(s)] /\ u[j] = t[j - Len(s)]
      BY SMTT(30), <2>2, <1>1
    <3>3. QED
      BY <3>1, <3>2 DEF Form, Ordered
  <2>3. CASE i <= Len(s) /\ j > Len(s)
    <3>1. i \in 1 .. Len(s) /\ j - Len(s) \in 1 .. Len(t) /\ u[i] = s[i] /\ u[j] = t[j - Len(s)]
      BY <2>3, <1>1
    <3>2. u[i].do \in Dos(s) /\ u[j].do \in Dos(t)
      BY <3>1 DEF Dos, Steps
    <3>3. QED
      BY <3>2
  <2>4. QED
    BY <2>1, <2>2, <2>3, <1>1
<1>3. Chained(d, u)
  <2> SUFFICES ASSUME NEW i \in 1 .. Len(u) - 1
               PROVE  Linked(d, u[i], u[i + 1])
    BY DEF Chained
  <2>1. CASE i < Len(s)
    <3>1. i \in 1 .. Len(s) - 1 /\ u[i] = s[i] /\ u[i + 1] = s[i + 1]
      BY <2>1, <1>1
    <3>2. QED
      BY <3>1 DEF Form, Chained
  <2>2. CASE i = Len(s)
    <3>1. u[i] = s[Len(s)] /\ u[i + 1] = t[1]
      BY <2>2, <1>1
    <3>2. QED
      BY <3>1
  <2>3. CASE i > Len(s)
    <3>1. i - Len(s) \in 1 .. Len(t) - 1 /\ u[i] = t[i - Len(s)]
          /\ u[i + 1] = t[(i - Len(s)) + 1]
      BY <2>3, <1>1
    <3>2. QED
      BY <3>1 DEF Form, Chained
  <2>4. QED
    BY <2>1, <2>2, <2>3, <1>1
<1>4. QED
  BY <1>1, <1>2, <1>3 DEF Form, u

\* The steps of a concatenation
LEMMA ConcatSteps ==
    ASSUME NEW s \in Seq(Step), NEW t \in Seq(Step)
    PROVE  /\ s \o t \in Seq(Step)
           /\ Steps(s \o t) = Steps(s) \union Steps(t)
           /\ Dos(s \o t) = Dos(s) \union Dos(t)
<1> DEFINE u == s \o t
<1>1. /\ u \in Seq(Step) /\ Len(s) \in Nat /\ Len(t) \in Nat
      /\ Len(u) = Len(s) + Len(t)
      /\ \A i \in 1 .. Len(s) : u[i] = s[i]
      /\ \A i \in Len(s) + 1 .. Len(s) + Len(t) : u[i] = t[i - Len(s)]
  OBVIOUS
<1> HIDE DEF u
<1>2. ASSUME NEW e \in Steps(u) PROVE e \in Steps(s) \union Steps(t)
  <2>1. PICK i \in 1 .. Len(u) : e = u[i]
    BY DEF Steps
  <2>2. CASE i <= Len(s)
    <3>1. i \in 1 .. Len(s) /\ e = s[i]
      BY <2>1, <2>2, <1>1
    <3>2. QED
      BY <3>1 DEF Steps
  <2>3. CASE i > Len(s)
    <3>1. i - Len(s) \in 1 .. Len(t) /\ e = t[i - Len(s)]
      BY <2>1, <2>3, <1>1
    <3>2. QED
      BY <3>1 DEF Steps
  <2>4. QED
    BY <2>2, <2>3, <1>1
<1>3. ASSUME NEW e \in Steps(s) PROVE e \in Steps(u)
  <2>1. PICK i \in 1 .. Len(s) : e = s[i]
    BY DEF Steps
  <2>2. i \in 1 .. Len(u) /\ u[i] = s[i]
    BY <1>1
  <2>3. QED
    BY <2>1, <2>2 DEF Steps
<1>4. ASSUME NEW e \in Steps(t) PROVE e \in Steps(u)
  <2>1. PICK i \in 1 .. Len(t) : e = t[i]
    BY DEF Steps
  <2>2. i + Len(s) \in 1 .. Len(u) /\ u[i + Len(s)] = t[i]
    BY <1>1
  <2>3. QED
    BY <2>1, <2>2 DEF Steps
<1>5. Steps(u) = Steps(s) \union Steps(t)
  BY <1>2, <1>3, <1>4
<1>6. Dos(u) = Dos(s) \union Dos(t)
  BY <1>5 DEF Dos
<1>7. QED
  BY <1>1, <1>5, <1>6 DEF u

-----------------------------------------------------------------------------
(* The programs of the drivers with a message buffer.                      *)

Plain(t) == t \in Seq(Step) /\ t # <<>> /\ Ordered(t) /\ Dos(t) \cap PortSteps = {}

\* Only steps at the ports are linked
LEMMA PlainForm ==
    ASSUME NEW d, NEW t, Plain(t)
    PROVE  Form(d, t)
<1>1. \A i \in 1 .. Len(t) : t[i].do \notin PortSteps
  BY DEF Plain, Dos, Steps
<1>2. ASSUME NEW i \in 1 .. Len(t) - 1 PROVE Linked(d, t[i], t[i + 1])
  <2>1. i \in 1 .. Len(t) /\ i + 1 \in 1 .. Len(t)
    BY DEF Plain
  <2>2. QED
    BY <1>1, <2>1 DEF Linked, PortSteps
<1>3. QED
  BY <1>2 DEF Plain, Form, Chained

\* A single step away from the ports
LEMMA PlainOne ==
    ASSUME NEW a \in StepNames \ PortSteps
    PROVE  Plain(S(a)) /\ Dos(S(a)) = {a}
<1> DEFINE s == [do |-> a, reg |-> "none"]
<1>1. s \in Step
  BY DEF Step
<1>2. S(a) = <<s>> /\ s.do = a
  BY DEF S
<1> HIDE DEF s
<1>3. S(a) \in Seq(Step) /\ S(a) # <<>> /\ Len(S(a)) = 1 /\ S(a)[1] = s
  BY <1>1, <1>2
<1>4. Ordered(S(a))
  BY <1>3 DEF Ordered
<1>5. Steps(S(a)) = {s}
  BY <1>3 DEF Steps
<1>6. Dos(S(a)) = {a}
  BY <1>5, <1>2 DEF Dos
<1>7. QED
  BY <1>3, <1>4, <1>6 DEF Plain

\* Two programs away from the ports, the second of which has higher ranks
LEMMA PlainConcat ==
    ASSUME NEW s, NEW t, Plain(s), Plain(t),
           \A a \in Dos(s) : \A b \in Dos(t) : Rank[a] < Rank[b]
    PROVE  Plain(s \o t) /\ Dos(s \o t) = Dos(s) \union Dos(t)
<1>1. Form("char_dev", s) /\ Form("char_dev", t)
  BY PlainForm
<1>2. s # <<>> /\ t # <<>> /\ s \in Seq(Step) /\ t \in Seq(Step)
  BY DEF Plain
<1>3. s[Len(s)] \in Steps(s) /\ t[1] \in Steps(t)
  BY <1>2 DEF Steps
<1>4. s[Len(s)].do \notin PortSteps /\ t[1].do \notin PortSteps
  BY <1>3 DEF Plain, Dos
<1>5. Linked("char_dev", s[Len(s)], t[1])
  BY <1>4 DEF Linked, PortSteps
<1>6. \A a \in Dos(s) : \A b \in Dos(t) : Earlier(a, b)
  BY DEF Earlier
<1>7. Form("char_dev", s \o t)
  BY <1>1, <1>2, <1>5, <1>6, ConcatForm
<1>8. s \o t \in Seq(Step) /\ Dos(s \o t) = Dos(s) \union Dos(t)
  BY <1>2, ConcatSteps
<1>9. s \o t # <<>>
  BY <1>2
<1>10. QED
  BY <1>7, <1>8, <1>9 DEF Plain, Form

\* One more step at the end
LEMMA PlainThen ==
    ASSUME NEW s, NEW a \in StepNames \ PortSteps, Plain(s),
           \A b \in Dos(s) : Rank[b] < Rank[a]
    PROVE  Plain(s \o S(a)) /\ Dos(s \o S(a)) = Dos(s) \union {a}
BY PlainOne, PlainConcat

\* A program with the return that Enter adds, and its steps
Runs(t, dos) == Plain(t \o S("return")) /\ Dos(t \o S("return")) = dos \union {"return"}

\* The operations that are nothing but a copy, a poll or a fill
LEMMA Simple ==
    /\ Runs(SendsMessage, {"count", "out"})
    /\ Runs(TakesMessage, {"size", "count", "in"})
    /\ Runs(S("poll"), {"poll"})
    /\ Runs(S("fill"), {"fill"})
<1> USE DEF Rank, StepNames, PortSteps
<1>1. Plain(SendsMessage) /\ Dos(SendsMessage) = {"count", "out"}
  BY PlainOne, PlainThen DEF SendsMessage
<1>2. Plain(S("size") \o S("count")) /\ Dos(S("size") \o S("count")) = {"size", "count"}
  BY PlainOne, PlainThen
<1>3. Plain(TakesMessage) /\ Dos(TakesMessage) = {"size", "count", "in"}
  BY <1>2, PlainThen DEF TakesMessage
<1>4. Runs(SendsMessage, {"count", "out"})
  BY <1>1, PlainThen DEF Runs
<1>5. Runs(TakesMessage, {"size", "count", "in"})
  BY <1>3, PlainThen DEF Runs
<1>6. Runs(S("poll"), {"poll"}) /\ Runs(S("fill"), {"fill"})
  BY PlainOne, PlainThen DEF Runs
<1>7. QED
  BY <1>4, <1>5, <1>6

\* and those with a length, a wait, a lock or an offset around the copy
LEMMA Compound ==
    /\ Runs(S("size") \o SendsMessage, {"size", "count", "out"})
    /\ Runs(S("await") \o SendsMessage \o S("load") \o S("add"),
            {"await", "count", "out", "load", "add"})
    /\ Runs(TakesMessage \o S("complete"), {"size", "count", "in", "complete"})
    /\ Runs(S("rlock") \o SendsMessage \o S("load") \o S("add") \o S("runlock"),
            {"rlock", "count", "out", "load", "add", "runlock"})
    /\ Runs(S("seqbegin") \o SendsMessage \o S("load") \o S("add") \o S("seqretry"),
            {"seqbegin", "count", "out", "load", "add", "seqretry"})
    /\ Runs(S("size") \o S("wlock") \o S("count") \o S("in") \o S("wunlock"),
            {"size", "wlock", "count", "in", "wunlock"})
    /\ Runs(ReadsLen, {"size", "count", "out", "forget"})
    /\ Runs(WritesLen, {"size", "clear", "count", "in", "forget"})
<1> USE DEF Rank, StepNames, PortSteps
<1>1. Plain(SendsMessage) /\ Dos(SendsMessage) = {"count", "out"}
  BY PlainOne, PlainThen DEF SendsMessage
<1>2. ASSUME NEW a \in {"size", "await", "rlock", "seqbegin"}
      PROVE  /\ Plain(S(a) \o SendsMessage)
             /\ Dos(S(a) \o SendsMessage) = {a, "count", "out"}
  BY <1>1, PlainOne, PlainConcat
<1>3. ASSUME NEW a \in {"await", "rlock", "seqbegin"}
      PROVE  /\ Plain(S(a) \o SendsMessage \o S("load") \o S("add"))
             /\ Dos(S(a) \o SendsMessage \o S("load") \o S("add"))
                  = {a, "count", "out", "load", "add"}
  <2>1. /\ Plain(S(a) \o SendsMessage \o S("load"))
        /\ Dos(S(a) \o SendsMessage \o S("load")) = {a, "count", "out", "load"}
    BY <1>2, PlainThen
  <2>2. QED
    BY <2>1, PlainThen
<1>4. Runs(S("size") \o SendsMessage, {"size", "count", "out"})
  BY <1>2, PlainThen DEF Runs
<1>5. Runs(S("await") \o SendsMessage \o S("load") \o S("add"),
           {"await", "count", "out", "load", "add"})
  BY <1>3, PlainThen DEF Runs
<1>6. Runs(S("rlock") \o SendsMessage \o S("load") \o S("add") \o S("runlock"),
           {"rlock", "count", "out", "load", "add", "runlock"})
  <2>1. /\ Plain(S("rlock") \o SendsMessage \o S("load") \o S("add") \o S("runlock"))
        /\ Dos(S("rlock") \o SendsMessage \o S("load") \o S("add") \o S("runlock"))
             = {"rlock", "count", "out", "load", "add", "runlock"}
    BY <1>3, PlainThen
  <2>2. QED
    BY <2>1, PlainThen DEF Runs
<1>7. Runs(S("seqbegin") \o SendsMessage \o S("load") \o S("add") \o S("seqretry"),
           {"seqbegin", "count", "out", "load", "add", "seqretry"})
  <2>1. /\ Plain(S("seqbegin") \o SendsMessage \o S("load") \o S("add") \o S("seqretry"))
        /\ Dos(S("seqbegin") \o SendsMessage \o S("load") \o S("add") \o S("seqretry"))
             = {"seqbegin", "count", "out", "load", "add", "seqretry"}
    BY <1>3, PlainThen
  <2>2. QED
    BY <2>1, PlainThen DEF Runs
<1>8. Runs(TakesMessage \o S("complete"), {"size", "count", "in", "complete"})
  <2>1. Plain(S("size") \o S("count")) /\ Dos(S("size") \o S("count")) = {"size", "count"}
    BY PlainOne, PlainThen
  <2>2. Plain(TakesMessage) /\ Dos(TakesMessage) = {"size", "count", "in"}
    BY <2>1, PlainThen DEF TakesMessage
  <2>3. /\ Plain(TakesMessage \o S("complete"))
        /\ Dos(TakesMessage \o S("complete")) = {"size", "count", "in", "complete"}
    BY <2>2, PlainThen
  <2>4. QED
    BY <2>3, PlainThen DEF Runs
<1>9. Runs(ReadsLen, {"size", "count", "out", "forget"})
  <2>1. Plain(ReadsLen) /\ Dos(ReadsLen) = {"size", "count", "out", "forget"}
    BY <1>2, PlainThen DEF ReadsLen
  <2>2. QED
    BY <2>1, PlainThen DEF Runs
<1>10. ASSUME NEW a \in {"wlock", "clear"}
       PROVE  /\ Plain(S("size") \o S(a) \o S("count") \o S("in"))
              /\ Dos(S("size") \o S(a) \o S("count") \o S("in")) = {"size", a, "count", "in"}
  <2>1. Plain(S("size") \o S(a)) /\ Dos(S("size") \o S(a)) = {"size", a}
    BY PlainOne, PlainThen
  <2>2. /\ Plain(S("size") \o S(a) \o S("count"))
        /\ Dos(S("size") \o S(a) \o S("count")) = {"size", a, "count"}
    BY <2>1, PlainThen
  <2>3. QED
    BY <2>2, PlainThen
<1>11. Runs(S("size") \o S("wlock") \o S("count") \o S("in") \o S("wunlock"),
            {"size", "wlock", "count", "in", "wunlock"})
  <2>1. /\ Plain(S("size") \o S("wlock") \o S("count") \o S("in") \o S("wunlock"))
        /\ Dos(S("size") \o S("wlock") \o S("count") \o S("in") \o S("wunlock"))
             = {"size", "wlock", "count", "in", "wunlock"}
    BY <1>10, PlainThen
  <2>2. QED
    BY <2>1, PlainThen DEF Runs
<1>12. Runs(WritesLen, {"size", "clear", "count", "in", "forget"})
  <2>1. Plain(WritesLen) /\ Dos(WritesLen) = {"size", "clear", "count", "in", "forget"}
    BY <1>10, PlainThen DEF WritesLen
  <2>2. QED
    BY <2>1, PlainThen DEF Runs
<1>13. QED
  BY <1>4, <1>5, <1>6, <1>7, <1>8, <1>9, <1>11, <1>12

\* What the calls of a driver with a message buffer consist of
Messages == DOMAIN Table \ (Ports \union {"proc_skel"})

When(steps, condition) == {s \in steps : condition}

MessageDos(d, op) ==
    CASE op = "read" -> {"count", "out"}
             \union When({"size"}, d \in Lengths) \union When({"forget"}, d \in Alone)
             \union When({"await"}, d = "chardev_sync")
             \union When({"load", "add"}, d \in Offsets)
             \union When({"rlock", "runlock"}, d = "chardrv_lock")
             \union When({"seqbegin", "seqretry"}, d = "chardrv_seqlock")
      [] op = "write" -> {"size", "count", "in"}
             \union When({"clear", "forget"}, d \in Alone)
             \union When({"complete"}, d = "chardev_sync")
             \union When({"wlock", "wunlock"}, d \in Locked)
      [] op = "fill" -> {"fill"}
      [] op = "poll" -> {"poll"}

\* The calls that a driver with a message buffer has
MessageOps(d) == {"read", "write"} \union When({"fill"}, d = "charioctl")
                                   \union When({"poll"}, d = "chardev_poll")

\* The drivers of the table
LEMMA TableDomain ==
    DOMAIN Table =
        {"char_dev", "chardev_poll", "chardev_minor", "chardev_sync", "chardrv_lock",
         "chardrv_seqlock", "chardrv_ioctl", "charioctl", "mycharS", "mycharD",
         "mychar_udev", "mychar_reg", "mychar_misc", "mycharPer", "proc_skel",
         "rtc_chardrv", "clock", "rtc_ioctl", "apic_ioctl", "apic_sysfs", "rtc_proc",
         "rtc_sync", "rtc_sysfs", "rtcsysfs_comman"}
BY DEF Table

\* The drivers with a message buffer, by what their calls consist of
AloneMessages == {"mycharS", "mycharD", "mychar_udev", "mychar_reg", "mychar_misc", "mycharPer"}
Bare == {"char_dev", "chardrv_ioctl", "chardev_poll", "charioctl"}

\* The drivers with a message buffer, by the shape of their programs
LEMMA MessageFamilies ==
    Messages = Bare \union {"chardev_minor", "chardev_sync"} \union Locked \union AloneMessages
BY TableDomain DEF Messages, Ports, Bare, Locked, AloneMessages

\* Their reads
LEMMA TableReads ==
    /\ \A d \in Bare : Table[d].ops["read"] = SendsMessage
    /\ Table["chardev_minor"].ops["read"] = S("size") \o SendsMessage
    /\ Table["chardev_sync"].ops["read"]
          = S("await") \o SendsMessage \o S("load") \o S("add")
    /\ Table["chardrv_lock"].ops["read"]
          = S("rlock") \o SendsMessage \o S("load") \o S("add") \o S("runlock")
    /\ Table["chardrv_seqlock"].ops["read"]
          = S("seqbegin") \o SendsMessage \o S("load") \o S("add") \o S("seqretry")
    /\ \A d \in AloneMessages : Table[d].ops["read"] = ReadsLen
<1>1. \A d \in Bare : Table[d].ops["read"] = SendsMessage
  BY DEF Bare, Table, char_dev, chardrv_ioctl, chardev_poll, charioctl
<1>2. /\ Table["chardev_minor"].ops["read"] = S("size") \o SendsMessage
      /\ Table["chardev_sync"].ops["read"]
            = S("await") \o SendsMessage \o S("load") \o S("add")
  BY DEF Table, chardev_minor, chardev_sync
<1>3. /\ Table["chardrv_lock"].ops["read"]
            = S("rlock") \o SendsMessage \o S("load") \o S("add") \o S("runlock")
      /\ Table["chardrv_seqlock"].ops["read"]
            = S("seqbegin") \o SendsMessage \o S("load") \o S("add") \o S("seqretry")
  BY DEF Table, chardrv_lock, chardrv_seqlock
<1>4. \A d \in AloneMessages : Table[d].ops["read"] = ReadsLen
  BY DEF AloneMessages, Table, mycharS, mycharD, mychar_udev, mychar_reg, mychar_misc, mycharPer
<1>5. QED
  BY <1>1, <1>2, <1>3, <1>4

\* Their writes, and what else two of them do
LEMMA TableWrites ==
    /\ \A d \in Bare \union {"chardev_minor"} : Table[d].ops["write"] = TakesMessage
    /\ Table["chardev_sync"].ops["write"] = TakesMessage \o S("complete")
    /\ \A d \in Locked : Table[d].ops["write"]
          = S("size") \o S("wlock") \o S("count") \o S("in") \o S("wunlock")
    /\ \A d \in AloneMessages : Table[d].ops["write"] = WritesLen
    /\ Table["charioctl"].ops["fill"] = S("fill")
    /\ Table["chardev_poll"].ops["poll"] = S("poll")
<1>1. \A d \in Bare \union {"chardev_minor"} : Table[d].ops["write"] = TakesMessage
  BY DEF Bare, Table, char_dev, chardrv_ioctl, chardev_poll, charioctl, chardev_minor
<1>2. /\ Table["chardev_sync"].ops["write"] = TakesMessage \o S("complete")
      /\ Table["charioctl"].ops["fill"] = S("fill")
      /\ Table["chardev_poll"].ops["poll"] = S("poll")
  BY DEF Table, chardev_sync, charioctl, chardev_poll
<1>3. \A d \in Locked : Table[d].ops["write"]
          = S("size") \o S("wlock") \o S("count") \o S("in") \o S("wunlock")
  <2>1. Table["chardrv_lock"].ops["write"]
          = S("size") \o S("wlock") \o S("count") \o S("in") \o S("wunlock")
    BY DEF Table, chardrv_lock
  <2>2. Table["chardrv_seqlock"].ops["write"]
          = S("size") \o S("wlock") \o S("count") \o S("in") \o S("wunlock")
    BY DEF Table, chardrv_seqlock
  <2>3. QED
    BY <2>1, <2>2 DEF Locked
<1>4. \A d \in AloneMessages : Table[d].ops["write"] = WritesLen
  BY DEF AloneMessages, Table, mycharS, mycharD, mychar_udev, mychar_reg, mychar_misc, mycharPer
<1>5. QED
  BY <1>1, <1>2, <1>3, <1>4

\* Their operations are those of MessageOps
LEMMA TableOps ==
    ASSUME NEW d \in Messages
    PROVE  DOMAIN Table[d].ops = MessageOps(d)
<1> USE DEF MessageOps, When, Table
<1>1. CASE d \in Bare
  BY <1>1 DEF Bare, char_dev, chardrv_ioctl, chardev_poll, charioctl
<1>2. CASE d \in {"chardev_minor", "chardev_sync"} \union Locked
  BY <1>2 DEF Locked, chardev_minor, chardev_sync, chardrv_lock, chardrv_seqlock
<1>3. CASE d \in AloneMessages
  BY <1>3 DEF AloneMessages, mycharS, mycharD, mychar_udev, mychar_reg, mychar_misc, mycharPer
<1>4. QED
  BY <1>1, <1>2, <1>3, MessageFamilies

\* MessageDos for each family
LEMMA FamilyDos ==
    /\ \A d \in Bare : /\ MessageDos(d, "read") = {"count", "out"}
                       /\ MessageDos(d, "write") = {"size", "count", "in"}
    /\ MessageDos("chardev_minor", "read") = {"size", "count", "out"}
    /\ MessageDos("chardev_minor", "write") = {"size", "count", "in"}
    /\ MessageDos("chardev_sync", "read") = {"await", "count", "out", "load", "add"}
    /\ MessageDos("chardev_sync", "write") = {"size", "count", "in", "complete"}
    /\ MessageDos("chardrv_lock", "read") = {"rlock", "count", "out", "load", "add", "runlock"}
    /\ MessageDos("chardrv_seqlock", "read")
         = {"seqbegin", "count", "out", "load", "add", "seqretry"}
    /\ \A d \in Locked : MessageDos(d, "write") = {"size", "wlock", "count", "in", "wunlock"}
    /\ \A d \in AloneMessages :
          /\ MessageDos(d, "read") = {"size", "count", "out", "forget"}
          /\ MessageDos(d, "write") = {"size", "clear", "count", "in", "forget"}
    /\ \A d : MessageDos(d, "fill") = {"fill"} /\ MessageDos(d, "poll") = {"poll"}
<1> USE DEF MessageDos, When, Lengths, Alone, Ports, Offsets, Locked
<1>1. \A d \in Bare : /\ MessageDos(d, "read") = {"count", "out"}
                      /\ MessageDos(d, "write") = {"size", "count", "in"}
  BY DEF Bare
<1>2. /\ MessageDos("chardev_minor", "read") = {"size", "count", "out"}
      /\ MessageDos("chardev_minor", "write") = {"size", "count", "in"}
  OBVIOUS
<1>3. /\ MessageDos("chardev_sync", "read") = {"await", "count", "out", "load", "add"}
      /\ MessageDos("chardev_sync", "write") = {"size", "count", "in", "complete"}
  OBVIOUS
<1>4. /\ MessageDos("chardrv_lock", "read") = {"rlock", "count", "out", "load", "add", "runlock"}
      /\ MessageDos("chardrv_seqlock", "read")
           = {"seqbegin", "count", "out", "load", "add", "seqretry"}
  OBVIOUS
<1>5. \A d \in Locked : MessageDos(d, "write") = {"size", "wlock", "count", "in", "wunlock"}
  OBVIOUS
<1>6. \A d \in AloneMessages :
          /\ MessageDos(d, "read") = {"size", "count", "out", "forget"}
          /\ MessageDos(d, "write") = {"size", "clear", "count", "in", "forget"}
  BY DEF AloneMessages
<1>7. \A d : MessageDos(d, "fill") = {"fill"} /\ MessageDos(d, "poll") = {"poll"}
  OBVIOUS
<1>8. QED
  BY <1>1, <1>2, <1>3, <1>4, <1>5, <1>6, <1>7

\* Each of their operations runs the steps of MessageDos, in order of rank
LEMMA MessagePrograms ==
    ASSUME NEW d \in Messages, NEW op \in DOMAIN Table[d].ops
    PROVE  op \in MessageOps(d) /\ Runs(Table[d].ops[op], MessageDos(d, op))
<1>1. op \in MessageOps(d)
  BY TableOps
<1>2. CASE op = "read"
  <2>1. CASE d \in Bare
    BY ZenonT(60), <2>1, <1>2, <1>1, FamilyDos, TableReads, Simple
  <2>2. CASE d = "chardev_minor"
    BY ZenonT(60), <2>2, <1>2, <1>1, FamilyDos, TableReads, Simple, Compound
  <2>3. CASE d = "chardev_sync"
    BY ZenonT(60), <2>3, <1>2, <1>1, FamilyDos, TableReads, Compound
  <2>4. CASE d = "chardrv_lock"
    BY ZenonT(60), <2>4, <1>2, <1>1, FamilyDos, TableReads, Compound
  <2>5. CASE d = "chardrv_seqlock"
    BY ZenonT(60), <2>5, <1>2, <1>1, FamilyDos, TableReads, Compound
  <2>6. CASE d \in AloneMessages
    BY ZenonT(60), <2>6, <1>2, <1>1, FamilyDos, TableReads, Compound
  <2>7. QED
    BY <2>1, <2>2, <2>3, <2>4, <2>5, <2>6, MessageFamilies DEF Locked
<1>3. CASE op = "write"
  <2>1. CASE d \in Bare
    BY ZenonT(60), <2>1, <1>3, <1>1, FamilyDos, TableWrites, Simple
  <2>2. CASE d = "chardev_minor"
    BY ZenonT(60), <2>2, <1>3, <1>1, FamilyDos, TableWrites, Simple, Compound
  <2>3. CASE d = "chardev_sync"
    BY ZenonT(60), <2>3, <1>3, <1>1, FamilyDos, TableWrites, Compound
  <2>4. CASE d = "chardrv_lock"
    BY ZenonT(60), <2>4, <1>3, <1>1, FamilyDos, TableWrites, Compound DEF Locked
  <2>5. CASE d = "chardrv_seqlock"
    BY ZenonT(60), <2>5, <1>3, <1>1, FamilyDos, TableWrites, Compound DEF Locked
  <2>6. CASE d \in AloneMessages
    BY ZenonT(60), <2>6, <1>3, <1>1, FamilyDos, TableWrites, Compound
  <2>7. QED
    BY <2>1, <2>2, <2>3, <2>4, <2>5, <2>6, MessageFamilies DEF Locked
<1>4. CASE op = "fill"
  <2>1. d = "charioctl"
    BY <1>1, <1>4 DEF MessageOps, When
  <2>2. QED
    BY ZenonT(60), <2>1, <1>1, <1>4, FamilyDos, TableWrites, Simple
<1>5. CASE op = "poll"
  <2>1. d = "chardev_poll"
    BY <1>1, <1>5 DEF MessageOps, When
  <2>2. QED
    BY ZenonT(60), <2>1, <1>1, <1>5, FamilyDos, TableWrites, Simple
<1>6. QED
  BY <1>1, <1>2, <1>3, <1>4, <1>5 DEF MessageOps, When

-----------------------------------------------------------------------------
(* The programs of the drivers that reach registers.                       *)

\* Whole accesses of registers, for a driver d that reads ("get") or writes them ("set")
PortDos(d, access) == {"address", access} \union When({"mutex", "unmutex"}, d \in Mutexed)
Named(t) == \A s \in Steps(t) : s.do \in {"mutex", "unmutex"} \/ s.reg \in Registers \union {"*"}
Accesses(d, access, t) ==
    /\ Form(d, t) /\ t # <<>> /\ Named(t)
    /\ Dos(t) \subseteq PortDos(d, access)
    /\ IF d \in Mutexed THEN t[1].do = "mutex" /\ t[Len(t)].do = "unmutex"
                        ELSE t[1].do = "address" /\ t[Len(t)].do = access

\* Accesses of a port one after the other are accesses
LEMMA AccessesConcat ==
    ASSUME NEW d, NEW access \in {"get", "set"}, NEW s, NEW t,
           Accesses(d, access, s), Accesses(d, access, t)
    PROVE  Accesses(d, access, s \o t)
<1>1. /\ s \in Seq(Step) /\ t \in Seq(Step) /\ s # <<>> /\ t # <<>> /\ Form(d, s) /\ Form(d, t)
  BY DEF Accesses, Form
<1>2. \A a \in Dos(s) : \A b \in Dos(t) : Earlier(a, b)
  BY DEF Accesses, PortDos, When, Earlier, PortSteps
<1>3. Linked(d, s[Len(s)], t[1])
  BY DEF Accesses, Linked
<1>4. Form(d, s \o t)
  BY <1>1, <1>2, <1>3, ConcatForm
<1>5. Steps(s \o t) = Steps(s) \union Steps(t) /\ Dos(s \o t) = Dos(s) \union Dos(t)
  BY <1>1, ConcatSteps
<1>6. s \o t # <<>> /\ (s \o t)[1] = s[1] /\ (s \o t)[Len(s \o t)] = t[Len(t)]
  BY <1>1
<1>7. Named(s \o t)
  BY <1>5 DEF Accesses, Named
<1>8. QED
  BY <1>4, <1>5, <1>6, <1>7 DEF Accesses

\* One access
LEMMA AccessesOne ==
    ASSUME NEW d, NEW access \in {"get", "set"}, NEW r \in Registers \union {"*"}
    PROVE  /\ d \notin Mutexed => Accesses(d, access, At("address", r) \o At(access, r))
           /\ d \in Mutexed => Accesses(d, access, S("mutex") \o (At("address", r) \o At(access, r))
                                                     \o S("unmutex"))
<1> DEFINE a == [do |-> "address", reg |-> r]
<1> DEFINE b == [do |-> access, reg |-> r]
<1> DEFINE m == [do |-> "mutex", reg |-> "none"]
<1> DEFINE u == [do |-> "unmutex", reg |-> "none"]
<1>1. a \in Step /\ b \in Step /\ m \in Step /\ u \in Step
  BY DEF Step, StepNames
<1>2. /\ At("address", r) = <<a>> /\ At(access, r) = <<b>>
      /\ S("mutex") = <<m>> /\ S("unmutex") = <<u>>
  BY DEF At, S
<1>3. /\ a.do = "address" /\ a.reg = r /\ b.do = access /\ b.reg = r
      /\ m.do = "mutex" /\ u.do = "unmutex"
  OBVIOUS
<1> HIDE DEF a, b, m, u
<1>4. ASSUME d \notin Mutexed PROVE Accesses(d, access, <<a>> \o <<b>>)
  <2> DEFINE t == <<a>> \o <<b>>
  <2>1. t \in Seq(Step) /\ Len(t) = 2 /\ t[1] = a /\ t[2] = b /\ t # <<>>
    BY <1>1
  <2> HIDE DEF t
  <2>2. Steps(t) = {a, b}
    BY <2>1 DEF Steps
  <2>3. Dos(t) = {"address", access}
    BY <2>2, <1>3 DEF Dos
  <2>4. Ordered(t)
    BY <2>1, <1>3 DEF Ordered, Earlier, PortSteps
  <2>5. Chained(d, t)
    BY <2>1, <1>3, <1>4 DEF Chained, Linked
  <2>6. Named(t)
    BY <2>2, <1>3 DEF Named
  <2>7. Accesses(d, access, t)
    BY <2>1, <2>3, <2>4, <2>5, <2>6, <1>3, <1>4 DEF Accesses, Form, PortDos
  <2>8. QED
    BY <2>7 DEF t
<1>5. ASSUME d \in Mutexed PROVE Accesses(d, access, <<m>> \o (<<a>> \o <<b>>) \o <<u>>)
  <2> DEFINE t == <<m>> \o (<<a>> \o <<b>>) \o <<u>>
  <2>1. t \in Seq(Step) /\ Len(t) = 4 /\ t[1] = m /\ t[2] = a /\ t[3] = b /\ t[4] = u /\ t # <<>>
    BY <1>1
  <2> HIDE DEF t
  <2>2. Steps(t) = {m, a, b, u}
    BY <2>1 DEF Steps
  <2>3. Dos(t) = {"mutex", "address", access, "unmutex"}
    BY <2>2, <1>3 DEF Dos
  <2>4. Ordered(t)
    <3>1. \A i \in 1 .. Len(t) : t[i].do \in PortSteps
      BY <2>1, <1>3 DEF PortSteps
    <3>2. QED
      BY <3>1 DEF Ordered, Earlier
  <2>5. Chained(d, t)
    <3>1. Linked(d, m, a) /\ Linked(d, a, b) /\ Linked(d, b, u)
      BY <1>3 DEF Linked
    <3>2. \A i \in 1 .. Len(t) - 1 : i = 1 \/ i = 2 \/ i = 3
      BY <2>1
    <3>3. QED
      BY <3>1, <3>2, <2>1 DEF Chained
  <2>6. Named(t)
    BY <2>2, <1>3 DEF Named
  <2>7. Accesses(d, access, t)
    BY <2>1, <2>3, <2>4, <2>5, <2>6, <1>3, <1>5 DEF Accesses, Form, PortDos, When
  <2>8. QED
    BY <2>7 DEF t
<1>6. QED
  BY <1>2, <1>4, <1>5

\* get_rtc and set_rtc, with or without the mutex, are accesses
LEMMA AccessesEach ==
    ASSUME NEW d
    PROVE  /\ d \notin Mutexed => \A r \in Registers \union {"*"} :
                 Accesses(d, "get", get_rtc(r)) /\ Accesses(d, "set", set_rtc(r))
           /\ d \in Mutexed => \A r \in Registers \union {"*"} :
                 Accesses(d, "get", get_rtcLocked(r)) /\ Accesses(d, "set", set_rtcLocked(r))
BY AccessesOne DEF get_rtc, set_rtc, get_rtcLocked, set_rtcLocked

\* The blocks that the programs are built from
LEMMA Blocks ==
    ASSUME NEW d
    PROVE  /\ d \notin Mutexed =>
                 /\ Accesses(d, "get", RtcTime(get_rtc)) /\ Accesses(d, "get", RtcDate(get_rtc))
                 /\ Accesses(d, "set", RtcTime(set_rtc)) /\ Accesses(d, "set", RtcDate(set_rtc))
                 /\ Accesses(d, "get", RtcTime(get_rtc) \o RtcDate(get_rtc))
                 /\ Accesses(d, "set", RtcTime(set_rtc) \o RtcDate(set_rtc))
                 /\ Accesses(d, "get", get_rtc("LOW") \o get_rtc("HIGH"))
           /\ d \in Mutexed =>
                 /\ Accesses(d, "get", RtcTime(get_rtcLocked))
                 /\ Accesses(d, "get", RtcDate(get_rtcLocked))
                 /\ Accesses(d, "set", RtcTime(set_rtcLocked))
                 /\ Accesses(d, "set", RtcDate(set_rtcLocked))
                 /\ Accesses(d, "set", Backwards(set_rtcLocked))
<1>1. \A a, b, c : \A access \in {"get", "set"} :
          Accesses(d, access, a) /\ Accesses(d, access, b) /\ Accesses(d, access, c)
          => Accesses(d, access, a \o b \o c)
  <2> SUFFICES ASSUME NEW a, NEW b, NEW c, NEW access \in {"get", "set"},
                      Accesses(d, access, a), Accesses(d, access, b), Accesses(d, access, c)
               PROVE  Accesses(d, access, a \o b \o c)
    OBVIOUS
  <2>1. Accesses(d, access, a \o b)
    BY AccessesConcat
  <2>2. QED
    BY <2>1, AccessesConcat
<1>2. {"SECOND", "MINUTE", "HOUR", "DAY", "MONTH", "YEAR", "LOW", "HIGH"} \subseteq Registers
  BY DEF Registers
<1>3. CASE d \notin Mutexed
  <2>1. \A r \in Registers : Accesses(d, "get", get_rtc(r)) /\ Accesses(d, "set", set_rtc(r))
    BY <1>3, AccessesEach
  <2>2. Accesses(d, "get", RtcTime(get_rtc))
    BY <1>1, <1>2, <2>1 DEF RtcTime
  <2>3. Accesses(d, "get", RtcDate(get_rtc))
    BY <1>1, <1>2, <2>1 DEF RtcDate
  <2>4. Accesses(d, "set", RtcTime(set_rtc))
    BY <1>1, <1>2, <2>1 DEF RtcTime
  <2>5. Accesses(d, "set", RtcDate(set_rtc))
    BY <1>1, <1>2, <2>1 DEF RtcDate
  <2>6. Accesses(d, "get", RtcTime(get_rtc) \o RtcDate(get_rtc))
    BY <2>2, <2>3, AccessesConcat
  <2>7. Accesses(d, "set", RtcTime(set_rtc) \o RtcDate(set_rtc))
    BY <2>4, <2>5, AccessesConcat
  <2>8. Accesses(d, "get", get_rtc("LOW") \o get_rtc("HIGH"))
    BY <1>2, <2>1, AccessesConcat
  <2>9. QED
    BY <1>3, <2>2, <2>3, <2>4, <2>5, <2>6, <2>7, <2>8
<1>4. CASE d \in Mutexed
  <2>1. \A r \in Registers : /\ Accesses(d, "get", get_rtcLocked(r))
                             /\ Accesses(d, "set", set_rtcLocked(r))
    BY <1>4, AccessesEach
  <2>2. Accesses(d, "get", RtcTime(get_rtcLocked))
    BY <1>1, <1>2, <2>1 DEF RtcTime
  <2>3. Accesses(d, "get", RtcDate(get_rtcLocked))
    BY <1>1, <1>2, <2>1 DEF RtcDate
  <2>4. Accesses(d, "set", RtcTime(set_rtcLocked))
    BY <1>1, <1>2, <2>1 DEF RtcTime
  <2>5. Accesses(d, "set", RtcDate(set_rtcLocked))
    BY <1>1, <1>2, <2>1 DEF RtcDate
  <2>6. Accesses(d, "set", Backwards(set_rtcLocked))
    BY <1>1, <1>2, <2>1 DEF Backwards
  <2>7. QED
    BY <1>4, <2>2, <2>3, <2>4, <2>5, <2>6
<1>5. QED
  BY <1>3, <1>4

\* A program that ends with the return
RegisterDos(d, op) ==
    {"address", "return"} \union When({"set", "setvalue"}, Writing(op))
                          \union When({"get", "getvalue"}, Reading(op))
                          \union When({"mutex", "unmutex"}, d \in Mutexed)
Begins(d, t) == t[1].do \notin {"get", "set"} /\ (d \in Mutexed => t[1].do = "mutex")
NamedSteps(t) == \A s \in Steps(t) :
                     s.do \in {"mutex", "unmutex", "return"} \/ s.reg \in Registers \union {"*"}
RegisterRuns(d, op, t) ==
    /\ t \in Seq(Step)
    /\ Form(d, t \o S("return")) /\ t \o S("return") # <<>> /\ Begins(d, t \o S("return"))
    /\ Dos(t \o S("return")) \subseteq RegisterDos(d, op) /\ "return" \in Dos(t \o S("return"))
    /\ NamedSteps(t \o S("return"))

\* The step that Enter adds to every program
LEMMA ReturnStep ==
    LET r == [do |-> "return", reg |-> "none"]
    IN  /\ S("return") = <<r>> /\ r \in Step /\ S("return") \in Seq(Step) /\ r.do = "return"
        /\ Plain(S("return")) /\ Dos(S("return")) = {"return"} /\ Steps(S("return")) = {r}
        /\ Len(S("return")) = 1 /\ S("return")[1] = r
<1> DEFINE r == [do |-> "return", reg |-> "none"]
<1>1. S("return") = <<r>> /\ r.do = "return"
  BY DEF S
<1>2. r \in Step
  BY DEF Step, StepNames
<1> HIDE DEF r
<1>3. <<r>> \in Seq(Step) /\ Len(<<r>>) = 1 /\ <<r>>[1] = r
  BY <1>2
<1>4. Steps(<<r>>) = {r}
  BY <1>3 DEF Steps
<1>5. Plain(S("return")) /\ Dos(S("return")) = {"return"}
  BY PlainOne DEF StepNames, PortSteps
<1>6. QED
  BY <1>1, <1>2, <1>3, <1>4, <1>5 DEF r

\* Accesses with the return behind them are a program of a driver of registers
LEMMA AccessesRun ==
    ASSUME NEW d, NEW access \in {"get", "set"}, NEW op, NEW t, Accesses(d, access, t),
           access = "get" => Reading(op), access = "set" => Writing(op)
    PROVE  RegisterRuns(d, op, t)
<1> DEFINE r == S("return")
<1>1. /\ r \in Seq(Step) /\ Len(r) = 1 /\ r # <<>> /\ r[1].do = "return"
      /\ Dos(r) = {"return"} /\ Form(d, r) /\ (\A s \in Steps(r) : s.do = "return")
  BY ReturnStep, PlainForm
<1>2. t \in Seq(Step) /\ t # <<>> /\ Form(d, t)
  BY DEF Accesses, Form
<1> HIDE DEF r
<1>3. \A a \in Dos(t) : \A b \in Dos(r) : Earlier(a, b)
  BY <1>1 DEF Accesses, PortDos, When, Earlier, Rank
<1>4. Linked(d, t[Len(t)], r[1])
  BY <1>1 DEF Accesses, Linked
<1>5. Form(d, t \o r)
  BY <1>1, <1>2, <1>3, <1>4, ConcatForm
<1>6. Steps(t \o r) = Steps(t) \union Steps(r) /\ Dos(t \o r) = Dos(t) \union Dos(r)
  BY <1>1, <1>2, ConcatSteps
<1>7. t \o r # <<>> /\ (t \o r)[1] = t[1]
  <2>1. t \in Seq(Step) /\ t # <<>> /\ r \in Seq(Step) /\ Len(r) = 1
    BY <1>1, <1>2
  <2>2. QED
    BY <2>1
<1>8. Begins(d, t \o r)
  BY <1>7 DEF Accesses, Begins
<1>9. NamedSteps(t \o r)
  BY <1>1, <1>6 DEF Accesses, Named, NamedSteps
<1>10. Dos(t \o r) \subseteq RegisterDos(d, op) /\ "return" \in Dos(t \o r)
  BY <1>1, <1>6 DEF Accesses, PortDos, RegisterDos, When
<1>11. QED
  BY <1>2, <1>5, <1>7, <1>8, <1>9, <1>10 DEF RegisterRuns, r

\* An integer read or written, and what may come after it
LEMMA ValuesRun ==
    ASSUME NEW d, d \notin Mutexed, NEW r \in Registers,
           NEW op, NEW a \in {"getvalue", "setvalue"},
           a = "getvalue" => Reading(op), a = "setvalue" => Writing(op)
    PROVE  /\ RegisterRuns(d, op, At(a, r))
           /\ \A t : a = "getvalue" /\ Accesses(d, "get", t) => RegisterRuns(d, op, At(a, r) \o t)
<1> DEFINE s == [do |-> a, reg |-> r]
<1>1. At(a, r) = <<s>> /\ s.do = a /\ s.reg = r
  BY DEF At
<1>2. s \in Step
  BY DEF Step, StepNames
<1> HIDE DEF s
<1> DEFINE v == At(a, r)
<1>3. v \in Seq(Step) /\ Len(v) = 1 /\ v[1] = s /\ v # <<>>
  BY <1>1, <1>2
<1>4. Steps(v) = {s}
  BY <1>3 DEF Steps
<1>5. Dos(v) = {a}
  BY <1>1, <1>4 DEF Dos
<1>6. Form(d, v)
  <2>1. Ordered(v)
    BY <1>3 DEF Ordered
  <2>2. QED
    BY <1>3, <2>1 DEF Form, Chained
<1> DEFINE q == S("return")
<1>7. /\ q \in Seq(Step) /\ Len(q) = 1 /\ q # <<>> /\ q[1].do = "return"
      /\ Dos(q) = {"return"} /\ Form(d, q) /\ (\A e \in Steps(q) : e.do = "return")
  BY ReturnStep, PlainForm
<1> HIDE DEF v, q
<1>8. RegisterRuns(d, op, v)
  <2>1. \A e \in Dos(v) : \A f \in Dos(q) : Earlier(e, f)
    BY <1>5, <1>7 DEF Earlier, Rank
  <2>2. Linked(d, v[Len(v)], q[1])
    BY <1>1, <1>3, <1>7 DEF Linked
  <2>3. Form(d, v \o q)
    BY <1>3, <1>6, <1>7, <2>1, <2>2, ConcatForm
  <2>4. Steps(v \o q) = Steps(v) \union Steps(q) /\ Dos(v \o q) = Dos(v) \union Dos(q)
    BY <1>3, <1>7, ConcatSteps
  <2>5. v \o q # <<>> /\ (v \o q)[1] = s
    BY <1>3, <1>7
  <2>6. Begins(d, v \o q)
    BY <2>5, <1>1 DEF Begins
  <2>7. NamedSteps(v \o q)
    BY <2>4, <1>4, <1>7, <1>1 DEF NamedSteps
  <2>8. Dos(v \o q) \subseteq RegisterDos(d, op) /\ "return" \in Dos(v \o q)
    BY <2>4, <1>5, <1>7 DEF RegisterDos, When
  <2>9. QED
    BY <1>3, <2>3, <2>5, <2>6, <2>7, <2>8 DEF RegisterRuns, q
<1>9. ASSUME NEW t, a = "getvalue", Accesses(d, "get", t)
      PROVE  RegisterRuns(d, op, v \o t)
  <2>1. t \in Seq(Step) /\ t # <<>> /\ Form(d, t) /\ t[1].do = "address" /\ t[Len(t)].do = "get"
    BY <1>9 DEF Accesses, Form
  <2>2. Dos(t) \subseteq {"address", "get"}
    BY <1>9 DEF Accesses, PortDos, When
  <2>3. \A e \in Dos(v) : \A f \in Dos(t) : Earlier(e, f)
    BY <1>5, <1>9, <2>2 DEF Earlier, Rank
  <2>4. Linked(d, v[Len(v)], t[1])
    BY <1>1, <1>3, <1>9, <2>1 DEF Linked
  <2>5. Form(d, v \o t)
    BY <1>3, <1>6, <2>1, <2>3, <2>4, ConcatForm
  <2>6. /\ v \o t \in Seq(Step) /\ v \o t # <<>> /\ (v \o t)[1] = s
        /\ (v \o t)[Len(v \o t)] = t[Len(t)]
    BY <1>3, <2>1
  <2>7. Steps(v \o t) = Steps(v) \union Steps(t) /\ Dos(v \o t) = Dos(v) \union Dos(t)
    BY <1>3, <2>1, ConcatSteps
  <2> DEFINE w == v \o t
  <2> HIDE DEF w
  <2>8. /\ w \in Seq(Step) /\ w # <<>> /\ w[1] = s /\ w[Len(w)].do = "get" /\ Form(d, w)
        /\ Steps(w) = Steps(v) \union Steps(t) /\ Dos(w) = Dos(v) \union Dos(t)
    BY <2>1, <2>5, <2>6, <2>7 DEF w
  <2>9. \A e \in Dos(w) : \A f \in Dos(q) : Earlier(e, f)
    BY <2>8, <1>5, <1>9, <2>2, <1>7 DEF Earlier, Rank
  <2>10. Linked(d, w[Len(w)], q[1])
    BY <2>8, <1>7 DEF Linked
  <2>11. Form(d, w \o q)
    BY <2>8, <1>7, <2>9, <2>10, ConcatForm
  <2>12. Steps(w \o q) = Steps(w) \union Steps(q) /\ Dos(w \o q) = Dos(w) \union Dos(q)
    BY <2>8, <1>7, ConcatSteps
  <2>13. w \o q # <<>> /\ (w \o q)[1] = s
    BY <2>8, <1>7
  <2>14. Begins(d, w \o q)
    BY <2>13, <1>1, <1>9 DEF Begins
  <2>15. NamedSteps(w \o q)
    BY <2>8, <2>12, <1>4, <1>7, <1>1, <1>9 DEF NamedSteps, Accesses, Named
  <2>16. Dos(w \o q) \subseteq RegisterDos(d, op) /\ "return" \in Dos(w \o q)
    BY <2>8, <2>12, <1>5, <1>7, <1>9, <2>2 DEF RegisterDos, When
  <2>17. QED
    BY <2>6, <2>11, <2>13, <2>14, <2>15, <2>16 DEF RegisterRuns, q, w
<1>10. QED
  BY <1>8, <1>9 DEF v

\* A driver of the table has a message buffer, or ports, or is proc_skel
LEMMA RegisterFamilies ==
    DOMAIN Table = Messages \union Ports \union {"proc_skel"} /\ Messages \cap Ports = {}
    /\ "proc_skel" \notin Messages
BY TableDomain DEF Messages, Ports

\* The rows of the drivers with a message buffer
LEMMA TableMessages ==
    /\ Table["char_dev"] = char_dev /\ Table["chardev_poll"] = chardev_poll
    /\ Table["chardev_minor"] = chardev_minor /\ Table["chardev_sync"] = chardev_sync
    /\ Table["chardrv_lock"] = chardrv_lock /\ Table["chardrv_seqlock"] = chardrv_seqlock
    /\ Table["chardrv_ioctl"] = chardrv_ioctl /\ Table["charioctl"] = charioctl
    /\ Table["mycharS"] = mycharS /\ Table["mycharD"] = mycharD
    /\ Table["mychar_udev"] = mychar_udev /\ Table["mychar_reg"] = mychar_reg
    /\ Table["mychar_misc"] = mychar_misc /\ Table["mycharPer"] = mycharPer
BY DEF Table

\* The rows of the drivers of registers
LEMMA TableRegisters ==
    /\ Table["proc_skel"] = proc_skel /\ Table["rtc_chardrv"] = rtc_chardrv
    /\ Table["clock"] = clock /\ Table["rtc_ioctl"] = rtc_ioctl
    /\ Table["apic_ioctl"] = apic_ioctl /\ Table["apic_sysfs"] = apic_sysfs
    /\ Table["rtc_proc"] = rtc_proc /\ Table["rtc_sync"] = rtc_sync
    /\ Table["rtc_sysfs"] = rtc_sysfs /\ Table["rtcsysfs_comman"] = rtcsysfs_comman
BY DEF Table

\* Each operation of a driver of registers reads or writes, and runs accesses
LEMMA RegisterPrograms ==
    ASSUME NEW d \in Ports \union {"proc_skel"}, NEW op \in DOMAIN Table[d].ops
    PROVE  /\ op \in Ops /\ Reading(op) # Writing(op)
           /\ RegisterRuns(d, op, Table[d].ops[op])
<1>1. \A o : /\ o \in {"read", "readdate", "getid", "getirq", "getirqstatus"}
                 => o \in Ops /\ Reading(o) /\ ~Writing(o)
             /\ o \in {"write", "writedate"} => o \in Ops /\ Writing(o) /\ ~Reading(o)
  BY DEF Reading, Writing, Ops
<1>2. {"SECOND", "ID", "VERSION", "IRQ", "VALUE", "*"} \subseteq Registers \union {"*"}
  BY DEF Registers
<1>3. ASSUME d \notin Mutexed
      PROVE  /\ \A t : Accesses(d, "get", t) /\ Reading(op) => RegisterRuns(d, op, t)
             /\ \A t : Accesses(d, "set", t) /\ Writing(op) => RegisterRuns(d, op, t)
             /\ \A r \in Registers \union {"*"} : /\ Accesses(d, "get", get_rtc(r))
                                                  /\ Accesses(d, "set", set_rtc(r))
             /\ Accesses(d, "get", RtcTime(get_rtc)) /\ Accesses(d, "get", RtcDate(get_rtc))
             /\ Accesses(d, "set", RtcTime(set_rtc)) /\ Accesses(d, "set", RtcDate(set_rtc))
             /\ Accesses(d, "get", RtcTime(get_rtc) \o RtcDate(get_rtc))
             /\ Accesses(d, "set", RtcTime(set_rtc) \o RtcDate(set_rtc))
             /\ Accesses(d, "get", get_rtc("LOW") \o get_rtc("HIGH"))
  BY <1>3, Blocks, AccessesEach, AccessesRun
<1>4. ASSUME d \in Mutexed
      PROVE  /\ \A t : Accesses(d, "get", t) /\ Reading(op) => RegisterRuns(d, op, t)
             /\ \A t : Accesses(d, "set", t) /\ Writing(op) => RegisterRuns(d, op, t)
             /\ Accesses(d, "get", RtcTime(get_rtcLocked))
             /\ Accesses(d, "get", RtcDate(get_rtcLocked))
             /\ Accesses(d, "set", RtcTime(set_rtcLocked))
             /\ Accesses(d, "set", RtcDate(set_rtcLocked))
             /\ Accesses(d, "set", Backwards(set_rtcLocked))
  BY <1>4, Blocks, AccessesRun
<1>5. CASE d = "proc_skel"
  <2>1. DOMAIN Table[d].ops = {"read", "write"}
    BY <1>5, TableRegisters DEF proc_skel
  <2>2. /\ Table[d].ops["read"] = At("getvalue", "VALUE")
        /\ Table[d].ops["write"] = At("setvalue", "VALUE")
    BY <1>5, TableRegisters DEF proc_skel
  <2>3. d \notin Mutexed /\ "VALUE" \in Registers
    BY <1>5 DEF Mutexed, Registers
  <2>4. /\ op = "read" => RegisterRuns(d, op, At("getvalue", "VALUE"))
        /\ op = "write" => RegisterRuns(d, op, At("setvalue", "VALUE"))
    BY <2>3, <1>1, ValuesRun
  <2>5. QED
    BY <2>1, <2>2, <2>4, <1>1
<1>6. CASE d = "rtc_chardrv"
  <2>1. DOMAIN Table[d].ops = {"read", "write"} /\ d \notin Mutexed
    BY <1>6, TableRegisters DEF rtc_chardrv, Mutexed
  <2>2. /\ Table[d].ops["read"] = RtcTime(get_rtc) \o RtcDate(get_rtc)
        /\ Table[d].ops["write"] = RtcTime(set_rtc) \o RtcDate(set_rtc)
    BY <1>6, TableRegisters DEF rtc_chardrv
  <2>3. QED
    BY <2>1, <2>2, <1>1, <1>3
<1>7. CASE d = "clock"
  <2>1. DOMAIN Table[d].ops = {"read", "write"} /\ d \notin Mutexed
    BY <1>7, TableRegisters DEF clock, Mutexed
  <2>2. Table[d].ops["read"] = get_rtc("*") /\ Table[d].ops["write"] = set_rtc("*")
    BY <1>7, TableRegisters DEF clock
  <2>3. QED
    BY <2>1, <2>2, <1>1, <1>2, <1>3
<1>8. CASE d = "rtc_ioctl"
  <2>1. DOMAIN Table[d].ops = {"read", "write"} /\ d \notin Mutexed
    BY <1>8, TableRegisters DEF rtc_ioctl, Mutexed
  <2>2. /\ Table[d].ops["read"] = RtcTime(get_rtc) \o RtcDate(get_rtc)
        /\ Table[d].ops["write"] = set_rtc("*")
    BY <1>8, TableRegisters DEF rtc_ioctl
  <2>3. QED
    BY <2>1, <2>2, <1>1, <1>2, <1>3
<1>9. CASE d = "apic_ioctl"
  <2>1. DOMAIN Table[d].ops = {"getid", "getirq", "getirqstatus"} /\ d \notin Mutexed
    BY <1>9, TableRegisters DEF apic_ioctl, Mutexed
  <2>2. /\ Table[d].ops["getid"] = get_rtc("ID") /\ Table[d].ops["getirq"] = get_rtc("VERSION")
        /\ Table[d].ops["getirqstatus"] = get_rtc("LOW") \o get_rtc("HIGH")
    BY <1>9, TableRegisters DEF apic_ioctl
  <2>3. QED
    BY <2>1, <2>2, <1>1, <1>2, <1>3
<1>10. CASE d = "apic_sysfs"
  <2>1. DOMAIN Table[d].ops = {"getid", "getirq", "getirqstatus", "write"} /\ d \notin Mutexed
    BY <1>10, TableRegisters DEF apic_sysfs, Mutexed
  <2>2. Table[d].ops["getid"] = get_rtc("ID") /\ Table[d].ops["getirq"] = get_rtc("VERSION")
    BY <1>10, TableRegisters DEF apic_sysfs
  <2>3. Table[d].ops["getirqstatus"] = At("getvalue", "IRQ") \o (get_rtc("LOW") \o get_rtc("HIGH"))
    BY <1>10, TableRegisters DEF apic_sysfs
  <2>4. Table[d].ops["write"] = At("setvalue", "IRQ")
    BY <1>10, TableRegisters DEF apic_sysfs
  <2>5. "IRQ" \in Registers
    BY DEF Registers
  <2>6. CASE op \in {"getid", "getirq"}
    BY <2>6, <2>1, <2>2, <1>1, <1>2, <1>3
  <2>7. CASE op = "getirqstatus"
    BY <2>7, <2>1, <2>3, <2>5, <1>1, <1>3, ValuesRun
  <2>8. CASE op = "write"
    BY <2>8, <2>1, <2>4, <2>5, <1>1, ValuesRun
  <2>9. QED
    BY <2>1, <2>6, <2>7, <2>8
<1>11. CASE d \in {"rtc_sysfs", "rtcsysfs_comman"}
  <2>1. DOMAIN Table[d].ops = {"read", "readdate", "write", "writedate"} /\ d \notin Mutexed
    BY <1>11, TableRegisters DEF rtc_sysfs, rtcsysfs_comman, Mutexed
  <2>2. /\ Table[d].ops["read"] = RtcTime(get_rtc) /\ Table[d].ops["readdate"] = RtcDate(get_rtc)
        /\ Table[d].ops["write"] = RtcTime(set_rtc) /\ Table[d].ops["writedate"] = RtcDate(set_rtc)
    BY <1>11, TableRegisters DEF rtc_sysfs, rtcsysfs_comman
  <2>3. QED
    BY <2>1, <2>2, <1>1, <1>3
<1>12. CASE d \in {"rtc_proc", "rtc_sync"}
  <2>1. DOMAIN Table[d].ops = {"read", "readdate", "write", "writedate"} /\ d \in Mutexed
    BY <1>12, TableRegisters DEF rtc_proc, rtc_sync, Mutexed
  <2>2. /\ Table[d].ops["read"] = RtcTime(get_rtcLocked)
        /\ Table[d].ops["readdate"] = RtcDate(get_rtcLocked)
        /\ \/ Table[d].ops["write"] = RtcTime(set_rtcLocked)
           \/ Table[d].ops["write"] = Backwards(set_rtcLocked)
        /\ Table[d].ops["writedate"] = RtcDate(set_rtcLocked)
    BY <1>12, TableRegisters DEF rtc_proc, rtc_sync
  <2>3. QED
    BY <2>1, <2>2, <1>1, <1>4
<1>13. QED
  BY <1>5, <1>6, <1>7, <1>8, <1>9, <1>10, <1>11, <1>12 DEF Ports

-----------------------------------------------------------------------------
(* Where a process is: the steps t that it has left, its operation op and  *)
(* whether its file is open, for the driver d.                             *)

Prog(d, op) == Table[d].ops[op] \o S("return")
OpeningDos == {"trylock", "capable", "opened"}

\* What every operation of every driver is: ordered, chained at the ports, ended
\* by a return, and made of the steps that its name allows
LEMMA Programs ==
    ASSUME NEW d \in DOMAIN Table, NEW op \in DOMAIN Table[d].ops
    PROVE  /\ op \in Ops
           /\ Form(d, Prog(d, op)) /\ Prog(d, op) # <<>> /\ Begins(d, Prog(d, op))
           /\ "return" \in Dos(Prog(d, op))
           /\ d \in Messages => op \in MessageOps(d)
           /\ d \in Messages => Dos(Prog(d, op)) = MessageDos(d, op) \union {"return"}
           /\ d \notin Messages => /\ Dos(Prog(d, op)) \subseteq RegisterDos(d, op)
                                   /\ NamedSteps(Prog(d, op)) /\ Reading(op) # Writing(op)
                                   /\ Table[d].ops[op] \in Seq(Step)
<1> DEFINE P == Prog(d, op)
<1>1. CASE d \in Messages
  <2>1. op \in MessageOps(d) /\ Plain(P) /\ Dos(P) = MessageDos(d, op) \union {"return"}
    BY <1>1, MessagePrograms DEF Prog, Runs
  <2>2. Form(d, P) /\ P # <<>> /\ P \in Seq(Step)
    BY <2>1, PlainForm DEF Plain
  <2>3. P[1] \in Steps(P)
    BY <2>2 DEF Steps
  <2>4. P[1].do \notin PortSteps
    BY <2>1, <2>3 DEF Plain, Dos
  <2>5. d \notin Mutexed
    BY <1>1, MessageFamilies DEF Mutexed, Bare, Locked, AloneMessages
  <2>6. op \in Ops
    BY <2>1 DEF MessageOps, When, Ops
  <2>7. Begins(d, P)
    BY <2>4, <2>5 DEF Begins, PortSteps
  <2>8. "return" \in Dos(P)
    BY <2>1
  <2>9. QED
    BY <1>1, <2>1, <2>2, <2>6, <2>7, <2>8
<1>2. CASE d \notin Messages
  <2>1. d \in Ports \union {"proc_skel"}
    BY <1>2, RegisterFamilies
  <2>2. op \in Ops /\ Reading(op) # Writing(op) /\ RegisterRuns(d, op, Table[d].ops[op])
    BY <2>1, RegisterPrograms
  <2>3. QED
    BY <1>2, <2>2 DEF RegisterRuns, Prog
<1>3. QED
  BY <1>1, <1>2

\* No step of a call belongs to the opening, nor is it a failure
LEMMA CallSteps ==
    ASSUME NEW d \in DOMAIN Table, NEW op \in DOMAIN Table[d].ops
    PROVE  Dos(Prog(d, op)) \cap (OpeningDos \union {"failed"}) = {}
<1>1. CASE d \in Messages
  <2>1. op \in MessageOps(d) /\ Dos(Prog(d, op)) = MessageDos(d, op) \union {"return"}
    BY <1>1, Programs
  <2>2. op \in {"read", "write", "fill", "poll"}
    BY <2>1 DEF MessageOps, When
  <2>3. CASE op = "read"
    BY <2>1, <2>3 DEF MessageDos, When, OpeningDos
  <2>4. CASE op = "write"
    BY <2>1, <2>4 DEF MessageDos, When, OpeningDos
  <2>5. CASE op \in {"fill", "poll"}
    BY <2>1, <2>5, FamilyDos DEF OpeningDos
  <2>6. QED
    BY <2>2, <2>3, <2>4, <2>5
<1>2. CASE d \notin Messages
  BY <1>2, Programs DEF RegisterDos, When, OpeningDos
<1>3. QED
  BY <1>1, <1>2

Opening(d, t, op, open) ==
    /\ t # <<>> /\ op = "none" /\ ~open /\ d \in Alone
    /\ Dos(t) \subseteq OpeningDos /\ "opened" \in Dos(t)

\* In a call that nothing has gone wrong with: the steps left are the last ones
Calling(d, t, op, open) ==
    /\ op \in DOMAIN Table[d].ops /\ open
    /\ "return" \in Dos(t) /\ Steps(t) \subseteq Steps(Prog(d, op))
    /\ \A a \in Dos(Prog(d, op)) \ Dos(t) : \A b \in Dos(t) : Earlier(a, b)

\* In a call whose copy has met a bad address
Failing(d, t, op, open) ==
    /\ op \in DOMAIN Table[d].ops /\ open /\ d \in Messages
    /\ \/ Dos(t) = {"failed"}
       \/ \E unlock \in Unlocks \intersect Dos(Prog(d, op)) : Dos(t) = {unlock, "failed"}

Shaped(d, t, op, open) ==
    /\ Form(d, t)
    /\ \/ t = <<>> /\ op = "none"
       \/ Opening(d, t, op, open) \/ Calling(d, t, op, open) \/ Failing(d, t, op, open)

\* One step on
LEMMA ShapedTail ==
    ASSUME NEW d \in DOMAIN Table, NEW t, NEW op, NEW open, Shaped(d, t, op, open), t # <<>>,
           Head(t).do \notin {"return", "failed", "opened"}
    PROVE  Shaped(d, Tail(t), op, open)
<1> DEFINE u == Tail(t)
<1> DEFINE h == Head(t).do
<1>1. /\ Form(d, u) /\ Dos(t) = {h} \union Dos(u) /\ Steps(t) = {Head(t)} \union Steps(u)
      /\ \A e \in Dos(u) : Earlier(h, e)
  BY TailForm DEF Shaped
<1> HIDE DEF u, h
<1>2. \A x : x \in Dos(u) => u # <<>>
  BY DEF Dos, Steps
<1>3. h \notin {"return", "failed", "opened"}
  BY DEF h
<1>4. CASE Opening(d, t, op, open)
  BY <1>1, <1>2, <1>3, <1>4 DEF Opening, Shaped, u
<1>5. CASE Calling(d, t, op, open)
  <2>1. "return" \in Dos(u) /\ Steps(u) \subseteq Steps(Prog(d, op))
    BY <1>1, <1>3, <1>5 DEF Calling
  <2>2. ASSUME NEW a \in Dos(Prog(d, op)) \ Dos(u), NEW b \in Dos(u)
        PROVE  Earlier(a, b)
    BY <1>1, <1>5, <2>2 DEF Calling
  <2>3. Calling(d, u, op, open)
    BY <2>1, <2>2, <1>5 DEF Calling
  <2>4. QED
    BY <2>3, <1>1 DEF Shaped, u
<1>6. CASE Failing(d, t, op, open)
  <2>1. "failed" \in Dos(u)
    BY <1>1, <1>3, <1>6 DEF Failing
  <2>2. CASE Dos(t) = {"failed"}
    <3>1. Dos(u) = {"failed"}
      BY <2>1, <2>2, <1>1
    <3>2. QED
      BY <3>1, <1>1, <1>6 DEF Failing, Shaped, u
  <2>3. CASE \E unlock \in Unlocks \intersect Dos(Prog(d, op)) : Dos(t) = {unlock, "failed"}
    <3>1. PICK unlock \in Unlocks \intersect Dos(Prog(d, op)) : Dos(t) = {unlock, "failed"}
      BY <2>3
    <3>2. Dos(u) = {"failed"} \/ Dos(u) = {unlock, "failed"}
      BY <3>1, <2>1, <1>1
    <3>3. QED
      BY <3>1, <3>2, <1>1, <1>6 DEF Failing, Shaped, u
  <2>4. QED
    BY <2>2, <2>3, <1>6 DEF Failing
<1>7. QED
  BY <1>4, <1>5, <1>6 DEF Shaped

\* A step of a call is taken in a call
LEMMA ShapedCalls ==
    ASSUME NEW d \in DOMAIN Table, NEW t, NEW op, NEW open, Shaped(d, t, op, open), t # <<>>
    PROVE  /\ Head(t).do \notin OpeningDos => op \in DOMAIN Table[d].ops /\ op # "none" /\ open
           /\ Head(t).do \notin OpeningDos \union Unlocks \union {"failed"}
                => Calling(d, t, op, open)
           /\ Head(t).do \in OpeningDos => Opening(d, t, op, open)
           /\ Head(t).do = "failed" => Failing(d, t, op, open)
<1>1. Head(t).do \in Dos(t)
  <2>1. Form(d, t)
    BY DEF Shaped
  <2>2. Dos(t) = {Head(t).do} \union Dos(Tail(t))
    BY <2>1, TailForm
  <2>3. QED
    BY <2>2
<1>2. \A o \in DOMAIN Table[d].ops : o # "none"
  BY Programs DEF Ops
<1>3. Opening(d, t, op, open) => Head(t).do \in OpeningDos
  BY <1>1 DEF Opening
<1>4. Calling(d, t, op, open) => Head(t).do \notin OpeningDos \union {"failed"}
  <2> HAVE Calling(d, t, op, open)
  <2>1. Head(t).do \in Dos(Prog(d, op)) /\ op \in DOMAIN Table[d].ops
    BY <1>1 DEF Calling, Dos
  <2>2. QED
    BY <2>1, CallSteps
<1>5. Failing(d, t, op, open) => Head(t).do \in Unlocks \union {"failed"}
                                 /\ Head(t).do \notin OpeningDos
  BY <1>1 DEF Failing, Unlocks, OpeningDos
<1>6. Opening(d, t, op, open) \/ Calling(d, t, op, open) \/ Failing(d, t, op, open)
  BY DEF Shaped
<1>7. Calling(d, t, op, open) \/ Failing(d, t, op, open)
      => op \in DOMAIN Table[d].ops /\ op # "none" /\ open
  BY <1>2 DEF Calling, Failing
<1>8. Unlocks \intersect OpeningDos = {} /\ "failed" \notin OpeningDos \union Unlocks
  BY DEF Unlocks, OpeningDos
<1> DEFINE h == Head(t).do
<1> HIDE DEF h
<1>9. /\ h \notin OpeningDos => op \in DOMAIN Table[d].ops /\ op # "none" /\ open
      /\ h \notin OpeningDos \union Unlocks \union {"failed"} => Calling(d, t, op, open)
      /\ h \in OpeningDos => Opening(d, t, op, open)
      /\ h = "failed" => Failing(d, t, op, open)
  BY <1>3, <1>4, <1>5, <1>6, <1>7, <1>8 DEF h
<1>10. QED
  BY <1>9 DEF h

\* At the start of a call, and again when a seqlock read is repeated
LEMMA ShapedProg ==
    ASSUME NEW d \in DOMAIN Table, NEW op \in DOMAIN Table[d].ops
    PROVE  /\ Calling(d, Prog(d, op), op, TRUE) /\ Shaped(d, Prog(d, op), op, TRUE)
           /\ Prog(d, op) # <<>>
BY Programs DEF Calling, Shaped

\* A kill at the mutex: the access of one register is left out
LEMMA ShapedSkip ==
    ASSUME NEW d \in DOMAIN Table, NEW t, NEW op, NEW open, Shaped(d, t, op, open), t # <<>>,
           Head(t).do = "mutex"
    PROVE  LET u == SubSeq(t, 5, Len(t))
           IN  /\ Shaped(d, u, op, open) /\ u # <<>> /\ d \in Mutexed
               /\ Head(u).do \in {"mutex", "return"}
               /\ Calling(d, u, op, open)
<1> DEFINE t1 == Tail(t)
<1> DEFINE t2 == Tail(t1)
<1> DEFINE t3 == Tail(t2)
<1> DEFINE t4 == Tail(t3)
<1>1. Calling(d, t, op, open)
  BY ShapedCalls DEF OpeningDos, Unlocks
<1>2. op \in DOMAIN Table[d].ops /\ Form(d, t) /\ "mutex" \in Dos(t)
  <2>1. Form(d, t)
    BY DEF Shaped
  <2>2. Dos(t) = {Head(t).do} \union Dos(Tail(t))
    BY <2>1, TailForm
  <2>3. QED
    BY <2>1, <2>2, <1>1 DEF Calling
<1>3. d \in Mutexed
  <2>1. "mutex" \in Dos(Prog(d, op))
    BY <1>1, <1>2 DEF Calling, Dos
  <2>2. CASE d \in Messages
    <3>1. op \in MessageOps(d) /\ Dos(Prog(d, op)) = MessageDos(d, op) \union {"return"}
      BY <1>2, <2>2, Programs
    <3>2. Plain(Prog(d, op))
      BY <1>2, <2>2, MessagePrograms DEF Runs, Prog
    <3>3. QED
      BY <2>1, <3>2 DEF Plain, PortSteps
  <2>3. CASE d \notin Messages
    BY <1>2, <2>1, <2>3, Programs DEF RegisterDos, When
  <2>4. QED
    BY <2>2, <2>3
<1>4. \A v : Calling(d, v, op, open) => v # <<>> /\ "return" \in Dos(v)
  BY DEF Calling, Dos, Steps
<1>5. ASSUME NEW v, Shaped(d, v, op, open), Calling(d, v, op, open), v # <<>>,
             Head(v).do \in PortSteps
      PROVE  /\ Shaped(d, Tail(v), op, open) /\ Calling(d, Tail(v), op, open)
             /\ Tail(v) # <<>> /\ Linked(d, Head(v), Head(Tail(v)))
  <2>1. Shaped(d, Tail(v), op, open)
    BY <1>5, ShapedTail DEF PortSteps
  <2>2. Form(d, v)
    BY <1>5 DEF Shaped
  <2>3. /\ Dos(v) = {Head(v).do} \union Dos(Tail(v))
        /\ Tail(v) # <<>> => Linked(d, Head(v), Head(Tail(v)))
    BY <2>2, <1>5, TailForm
  <2>4. "return" \in Dos(Tail(v))
    BY <2>3, <1>4, <1>5 DEF PortSteps
  <2>5. Tail(v) # <<>>
    <3> DEFINE w == Tail(v)
    <3> HIDE DEF w
    <3>1. "return" \in Dos(w) => w # <<>>
      BY DEF Dos, Steps
    <3>2. QED
      BY <3>1, <2>4 DEF w
  <2>6. Calling(d, Tail(v), op, open)
    <3>1. "return" \in Dos(Tail(v)) /\ Dos(Tail(v)) \cap OpeningDos = {}
      <4>1. Dos(v) \subseteq Dos(Prog(d, op))
        BY <1>5 DEF Calling, Dos
      <4>2. QED
        BY <4>1, <2>3, <2>4, <1>2, CallSteps
    <3>2. ~Failing(d, Tail(v), op, open)
      BY <3>1 DEF Failing, Unlocks
    <3>3. ~Opening(d, Tail(v), op, open)
      BY <3>1 DEF Opening, OpeningDos
    <3>4. QED
      BY <3>2, <3>3, <2>1, <2>5 DEF Shaped
  <2>7. QED
    BY <2>1, <2>3, <2>5, <2>6
<1> HIDE DEF t1, t2, t3, t4
<1>6. /\ Shaped(d, t1, op, open) /\ Calling(d, t1, op, open) /\ t1 # <<>>
      /\ Head(t1).do = "address"
  BY <1>1, <1>3, <1>5 DEF t1, PortSteps, Linked
<1>7. /\ Shaped(d, t2, op, open) /\ Calling(d, t2, op, open) /\ t2 # <<>>
      /\ Head(t2).do \in {"get", "set"}
  BY <1>6, <1>5 DEF t2, PortSteps, Linked
<1>8. /\ Shaped(d, t3, op, open) /\ Calling(d, t3, op, open) /\ t3 # <<>>
      /\ Head(t3).do = "unmutex"
  BY <1>7, <1>3, <1>5 DEF t3, PortSteps, Linked
<1>9. /\ Shaped(d, t4, op, open) /\ Calling(d, t4, op, open) /\ t4 # <<>>
      /\ Head(t4).do \in {"mutex", "return"}
  BY <1>8, <1>3, <1>5 DEF t4, PortSteps, Linked
<1>10. t4 = SubSeq(t, 5, Len(t))
  <2>1. t \in Seq(Step) /\ t # <<>>
    BY <1>2 DEF Form
  <2>2. t1 \in Seq(Step) /\ Len(t1) = Len(t) - 1 /\ \A i \in 1 .. Len(t1) : t1[i] = t[i + 1]
    BY <2>1 DEF t1
  <2>3. t2 \in Seq(Step) /\ Len(t2) = Len(t) - 2 /\ \A i \in 1 .. Len(t2) : t2[i] = t[i + 2]
    BY <2>1, <2>2, <1>6 DEF t2
  <2>4. t3 \in Seq(Step) /\ Len(t3) = Len(t) - 3 /\ \A i \in 1 .. Len(t3) : t3[i] = t[i + 3]
    BY <2>1, <2>3, <1>7 DEF t3
  <2>5. t4 \in Seq(Step) /\ Len(t4) = Len(t) - 4 /\ \A i \in 1 .. Len(t4) : t4[i] = t[i + 4]
    BY <2>1, <2>4, <1>8 DEF t4
  <2>6. Len(t4) > 0
    BY <2>5, <1>9
  <2> DEFINE w == SubSeq(t, 5, Len(t))
  <2>7. w \in Seq(Step) /\ Len(w) = Len(t) - 4 /\ \A i \in 1 .. Len(w) : w[i] = t[i + 4]
    BY <2>1, <2>5, <2>6
  <2> HIDE DEF w
  <2>8. t4 = w
    BY <2>5, <2>7
  <2>9. QED
    BY <2>8 DEF w
<1>11. QED
  BY <1>3, <1>9, <1>10

\* A copy that fails: the lock of this call, if it has one, is still given back
LEMMA ShapedFault ==
    ASSUME NEW d \in DOMAIN Table, NEW t, NEW op, NEW open, Calling(d, t, op, open),
           d \in Messages
    PROVE  /\ Shaped(d, S("failed"), op, open) /\ Dos(S("failed")) = {"failed"}
           /\ \A unlock \in Unlocks : unlock \in Dos(t)
                => /\ Shaped(d, S(unlock) \o S("failed"), op, open)
                   /\ Dos(S(unlock) \o S("failed")) = {unlock, "failed"}
<1>1. Plain(S("failed")) /\ Dos(S("failed")) = {"failed"}
  BY PlainOne DEF StepNames, PortSteps
<1>2. Shaped(d, S("failed"), op, open)
  BY <1>1, PlainForm DEF Calling, Failing, Shaped
<1>3. ASSUME NEW unlock \in Unlocks, unlock \in Dos(t)
      PROVE  /\ Shaped(d, S(unlock) \o S("failed"), op, open)
             /\ Dos(S(unlock) \o S("failed")) = {unlock, "failed"}
  <2> DEFINE u == S(unlock) \o S("failed")
  <2>1. Plain(S(unlock)) /\ Dos(S(unlock)) = {unlock}
    BY PlainOne DEF StepNames, PortSteps, Unlocks
  <2>2. Plain(u) /\ Dos(u) = {unlock, "failed"}
    BY <2>1, PlainThen DEF StepNames, PortSteps, Unlocks, Rank
  <2> HIDE DEF u
  <2>3. unlock \in Dos(Prog(d, op))
    BY <1>3 DEF Calling, Dos
  <2>4. Failing(d, u, op, open)
    BY <2>2, <2>3 DEF Calling, Failing
  <2>5. Shaped(d, u, op, open)
    BY <2>2, <2>4, PlainForm DEF Shaped
  <2>6. QED
    BY <2>2, <2>5 DEF u
<1>4. QED
  BY <1>1, <1>2, <1>3

\* The way in: the drivers that only one process may open, and the others
LEMMA Openings ==
    ASSUME NEW d \in DOMAIN Table
    PROVE  /\ d \in Alone => /\ Table[d].open # <<>> /\ Table[d].release = S("unlock")
                             /\ LET t == Table[d].open \o S("opened")
                                IN  /\ Plain(t) /\ Dos(t) \subseteq OpeningDos
                                    /\ "trylock" \in Dos(t) /\ "opened" \in Dos(t)
           /\ d \notin Alone => Table[d].open = <<>> /\ Table[d].release = <<>>
<1>1. \/ d \in {"mycharS", "mycharD", "mychar_udev", "mychar_reg", "mychar_misc",
                "rtc_chardrv", "clock", "rtc_ioctl", "apic_ioctl"}
      \/ d = "mycharPer"
      \/ d \notin Alone
  BY TableDomain DEF Alone
<1>2. CASE d \in {"mycharS", "mycharD", "mychar_udev", "mychar_reg", "mychar_misc",
                  "rtc_chardrv", "clock", "rtc_ioctl", "apic_ioctl"}
  <2>1. Table[d].open = S("trylock") /\ Table[d].release = S("unlock") /\ d \in Alone
    BY <1>2, TableRegisters, TableMessages DEF OpenAlone, Alone, mycharS, mycharD, mychar_udev,
       mychar_reg, mychar_misc, rtc_chardrv, clock, rtc_ioctl, apic_ioctl
  <2> DEFINE t == S("trylock") \o S("opened")
  <2>2. Plain(S("trylock")) /\ Dos(S("trylock")) = {"trylock"}
    BY PlainOne DEF StepNames, PortSteps
  <2>3. Plain(t) /\ Dos(t) = {"trylock", "opened"}
    BY <2>2, PlainThen DEF StepNames, PortSteps, Rank
  <2>4. QED
    BY <2>1, <2>2, <2>3 DEF OpeningDos, Plain
<1>3. CASE d = "mycharPer"
  <2>1. /\ Table[d].open = S("trylock") \o S("capable") /\ Table[d].release = S("unlock")
        /\ d \in Alone
    BY <1>3, TableMessages DEF OpenAlone, Alone, mycharPer
  <2>2. Plain(S("trylock")) /\ Dos(S("trylock")) = {"trylock"}
    BY PlainOne DEF StepNames, PortSteps
  <2>3. /\ Plain(S("trylock") \o S("capable"))
        /\ Dos(S("trylock") \o S("capable")) = {"trylock", "capable"}
    BY <2>2, PlainThen DEF StepNames, PortSteps, Rank
  <2> DEFINE t == S("trylock") \o S("capable") \o S("opened")
  <2>4. Plain(t) /\ Dos(t) = {"trylock", "capable", "opened"}
    BY <2>3, PlainThen DEF StepNames, PortSteps, Rank
  <2>5. QED
    BY <2>1, <2>3, <2>4 DEF OpeningDos, Plain
<1>4. CASE d \notin Alone
  <2>1. d \in {"char_dev", "chardev_poll", "chardev_minor", "chardev_sync", "chardrv_lock",
               "chardrv_seqlock", "chardrv_ioctl", "charioctl", "proc_skel", "apic_sysfs",
               "rtc_proc", "rtc_sync", "rtc_sysfs", "rtcsysfs_comman"}
    BY <1>4, TableDomain DEF Alone
  <2>2. QED
    BY <2>1, <1>4, TableRegisters, TableMessages DEF char_dev, chardev_poll, chardev_minor,
       chardev_sync, chardrv_lock, chardrv_seqlock, chardrv_ioctl, charioctl, proc_skel,
       apic_sysfs, rtc_proc, rtc_sync, rtc_sysfs, rtcsysfs_comman
<1>5. QED
  BY <1>1, <1>2, <1>3, <1>4

-----------------------------------------------------------------------------
(* Every process is where its program can have brought it.                 *)

Shape ==
    /\ driver \in DOMAIN Table
    /\ driver \notin Alone => opened = Processes
    /\ \A p \in Processes : Shaped(driver, todo[p], call[p].op, p \in opened)

\* The moves along a program
Advances(p) ==
    /\ todo[p] # <<>> /\ Head(todo[p]).do \notin {"return", "failed", "opened"}
    /\ Done(p)
    /\ UNCHANGED <<driver, callVars>>
Stays == UNCHANGED <<driver, callVars, todo>>

\* Each action on a step either takes it, or repeats it, or ends the opening, or
\* begins the program again
LEMMA Moves ==
    ASSUME NEW p \in Processes
    PROVE  /\ TryLock(p) \/ Capable(p)
                => Advances(p) \/ /\ Doing(p, "trylock") \/ Doing(p, "capable")
                                  /\ todo' = [todo EXCEPT ![p] = <<>>]
                                  /\ UNCHANGED <<driver, callVars>>
           /\ CopyOut(p) \/ CopyIn(p) => Stays \/ Advances(p)
           /\ Count(p) \/ SetSize(p) \/ Forget(p) \/ Clear(p) \/ Fill(p) => Advances(p)
           /\ LoadOffset(p) \/ StoreOffset(p) \/ Await(p) \/ Complete(p) \/ Poll(p) => Advances(p)
           /\ ReadLock(p) \/ ReadUnlock(p) \/ WriteLock(p) \/ WriteUnlock(p) => Advances(p)
           /\ SeqBegin(p) \/ PortLock(p) \/ PortUnlock(p) => Advances(p)
           /\ Address(p) \/ Get(p) \/ Set(p) \/ GetValue(p) \/ SetValue(p) => Advances(p)
           /\ SeqRetry(p) => Advances(p) \/ /\ Doing(p, "seqretry")
                                            /\ todo' = [todo EXCEPT ![p] = Program(p)]
                                            /\ UNCHANGED <<driver, callVars>>
<1> USE DEF Advances, Stays, Doing, Done
<1>1. TryLock(p) \/ Capable(p)
        => Advances(p) \/ /\ Doing(p, "trylock") \/ Doing(p, "capable")
                          /\ todo' = [todo EXCEPT ![p] = <<>>]
                          /\ UNCHANGED <<driver, callVars>>
  BY DEF TryLock, Capable
<1>2. CopyOut(p) \/ CopyIn(p) => Stays \/ Advances(p)
  BY DEF CopyOut, CopyIn
<1>3. Count(p) \/ SetSize(p) \/ Forget(p) \/ Clear(p) \/ Fill(p) => Advances(p)
  BY DEF Count, SetSize, Forget, Clear, Fill
<1>4. LoadOffset(p) \/ StoreOffset(p) \/ Await(p) \/ Complete(p) \/ Poll(p) => Advances(p)
  BY DEF LoadOffset, StoreOffset, Await, Complete, Poll
<1>5. ReadLock(p) \/ ReadUnlock(p) \/ WriteLock(p) \/ WriteUnlock(p) => Advances(p)
  BY DEF ReadLock, ReadUnlock, WriteLock, WriteUnlock
<1>6. SeqBegin(p) \/ PortLock(p) \/ PortUnlock(p) => Advances(p)
  BY DEF SeqBegin, PortLock, PortUnlock
<1>7. Address(p) \/ Get(p) \/ Set(p) \/ GetValue(p) \/ SetValue(p) => Advances(p)
  BY DEF Address, Get, Set, GetValue, SetValue
<1>8. SeqRetry(p) => Advances(p) \/ /\ Doing(p, "seqretry")
                                    /\ todo' = [todo EXCEPT ![p] = Program(p)]
                                    /\ UNCHANGED <<driver, callVars>>
  BY DEF SeqRetry
<1>9. QED
  BY <1>1, <1>2, <1>3, <1>4, <1>5, <1>6, <1>7, <1>8

\* One process moves to steps that its operation allows
LEMMA OneMoves ==
    ASSUME TypeOK, Shape, NEW p \in Processes, NEW t,
           Shaped(driver, t, call[p].op, p \in opened),
           todo' = [todo EXCEPT ![p] = t], UNCHANGED <<driver, callVars>>
    PROVE  Shape'
<1>1. todo \in [Processes -> Seq(Step)]
  BY DEF TypeOK
<1>2. ASSUME NEW q \in Processes
      PROVE  Shaped(driver', todo'[q], call'[q].op, q \in opened')
  <2>1. CASE q = p
    BY <2>1, <1>1 DEF callVars
  <2>2. CASE q # p
    <3>1. todo'[q] = todo[q]
      BY <2>2, <1>1
    <3>2. QED
      BY <3>1 DEF Shape, callVars
  <2>3. QED
    BY <2>1, <2>2
<1>3. QED
  BY <1>2 DEF Shape, callVars

\* At first nobody is at work
LEMMA ShapeInit ==
    Init => Shape
<1> SUFFICES ASSUME Init PROVE Shape
  OBVIOUS
<1>1. driver \in DOMAIN Table
  BY DriversAssumption DEF Init
<1>2. driver \notin Alone => opened = Processes
  BY <1>1, Openings DEF Init
<1>3. ASSUME NEW p \in Processes
      PROVE  Shaped(driver, todo[p], call[p].op, p \in opened)
  <2>1. todo[p] = <<>> /\ call[p].op = "none"
    BY DEF Init, NoCall
  <2>2. Form(driver, <<>>)
    BY DEF Form, Ordered, Chained
  <2>3. QED
    BY <2>1, <2>2 DEF Shaped
<1>4. QED
  BY <1>1, <1>2, <1>3 DEF Shape

\* Left looks for a step among those of the program
LEMMA LeftDos ==
    ASSUME NEW p, NEW do, todo[p] \in Seq(Step)
    PROVE  Left(p, do) <=> do \in Dos(todo[p])
<1>1. DOMAIN todo[p] = 1 .. Len(todo[p])
  OBVIOUS
<1>2. QED
  BY <1>1 DEF Left, Dos, Steps

\* Only drivers with a message buffer copy
LEMMA CopiesMessages ==
    ASSUME NEW d \in DOMAIN Table, NEW t, NEW op, NEW open, Shaped(d, t, op, open), t # <<>>,
           Head(t).do \in {"in", "out"}
    PROVE  d \in Messages
<1>1. Calling(d, t, op, open) /\ op \in DOMAIN Table[d].ops
  BY ShapedCalls DEF OpeningDos, Unlocks
<1>2. Head(t).do \in Dos(t)
  BY HeadDos DEF Shaped
<1>3. Head(t).do \in Dos(Prog(d, op))
  BY <1>1, <1>2 DEF Calling, Dos
<1>4. QED
  BY <1>1, <1>3, Programs DEF RegisterDos, When

\* The steps that end a call or an opening are the last ones
LEMMA LastStep ==
    ASSUME NEW d, NEW t, Form(d, t), t # <<>>,
           \/ Head(t).do \in {"return", "failed"}
           \/ Head(t).do = "opened" /\ Dos(t) \subseteq OpeningDos
    PROVE  Tail(t) = <<>>
<1> DEFINE u == Tail(t)
<1>1. /\ Form(d, u) /\ Dos(t) = {Head(t).do} \union Dos(u)
      /\ \A e \in Dos(u) : Earlier(Head(t).do, e)
  BY TailForm
<1>2. t \in Seq(Step) /\ u \in Seq(Step)
  BY DEF Form
<1> HIDE DEF u
<1>3. Dos(u) \subseteq StepNames
  <2>1. \A s \in Step : s.do \in StepNames
    BY DEF Step
  <2>2. \A i \in 1 .. Len(u) : u[i] \in Step
    BY <1>2
  <2>3. QED
    BY <2>1, <2>2 DEF Dos, Steps
<1>4. ASSUME NEW e \in Dos(u) PROVE FALSE
  <2>1. Earlier(Head(t).do, e) /\ e \in StepNames
    BY <1>1, <1>3
  <2>2. CASE Head(t).do \in {"return", "failed"}
    BY <2>1, <2>2 DEF Earlier, Rank, StepNames, PortSteps
  <2>3. CASE Head(t).do = "opened" /\ Dos(t) \subseteq OpeningDos
    <3>1. e \in OpeningDos
      BY <2>3, <1>1
    <3>2. QED
      BY <2>1, <2>3, <3>1 DEF Earlier, Rank, OpeningDos, PortSteps
  <2>4. QED
    BY <2>2, <2>3
<1>5. u = <<>>
  <2> SUFFICES ASSUME u # <<>> PROVE FALSE
    OBVIOUS
  <2>1. 1 \in 1 .. Len(u)
    BY <1>2
  <2>2. u[1].do \in Dos(u)
    BY <2>1 DEF Dos, Steps
  <2>3. QED
    BY <2>2, <1>4
<1>6. QED
  BY <1>5 DEF u

\* A process without steps is in no call
LEMMA IdleShape ==
    ASSUME Shape, NEW p \in Processes, todo[p] = <<>>
    PROVE  call[p].op = "none"
<1>1. Dos(todo[p]) = {}
  BY EmptyDos
<1>2. Shaped(driver, todo[p], call[p].op, p \in opened)
  BY DEF Shape
<1>3. QED
  BY <1>1, <1>2 DEF Shaped, Opening, Calling, Failing

\* A call that ends
LEMMA ShapeLeaves ==
    ASSUME TypeOK, Shape, NEW p \in Processes, Leave(p), todo[p] # <<>>,
           Head(todo[p]).do \in {"return", "failed"}
    PROVE  Shape' /\ todo'[p] = <<>>
<1>1. todo \in [Processes -> Seq(Step)] /\ call \in [Processes -> Calls]
  BY DEF TypeOK
<1>2. Form(driver, todo[p])
  BY DEF Shape, Shaped
<1>3. Tail(todo[p]) = <<>>
  BY <1>2, LastStep
<1>4. /\ todo' = [todo EXCEPT ![p] = <<>>] /\ call' = [call EXCEPT ![p] = NoCall]
      /\ UNCHANGED <<driver, opened>>
  BY <1>3 DEF Leave, Done
<1>5. Form(driver, <<>>)
  BY DEF Form, Ordered, Chained
<1>6. ASSUME NEW q \in Processes PROVE Shaped(driver', todo'[q], call'[q].op, q \in opened')
  <2>1. CASE q = p
    <3>1. todo'[q] = <<>> /\ call'[q].op = "none"
      BY <2>1, <1>1, <1>4 DEF NoCall
    <3>2. QED
      BY <3>1, <1>4, <1>5 DEF Shaped
  <2>2. CASE q # p
    <3>1. todo'[q] = todo[q] /\ call'[q] = call[q]
      BY <2>2, <1>1, <1>4
    <3>2. QED
      BY <3>1, <1>4 DEF Shape
  <2>3. QED
    BY <2>1, <2>2
<1>7. QED
  BY <1>1, <1>4, <1>6 DEF Shape

\* A file that is opened, and one that is released
LEMMA ShapeFiles ==
    ASSUME TypeOK, Shape, NEW p \in Processes
    PROVE  Open(p) \/ Opened(p) \/ Release(p) => Shape'
<1>1. todo \in [Processes -> Seq(Step)] /\ driver \in DOMAIN Table
  BY DEF TypeOK, Shape
<1>2. Form(driver, <<>>)
  BY DEF Form, Ordered, Chained
<1>3. Open(p) => Shape'
  <2> SUFFICES ASSUME Open(p) PROVE Shape'
    OBVIOUS
  <2> DEFINE t == Table[driver].open \o S("opened")
  <2>1. p \notin opened /\ todo[p] = <<>> /\ todo' = [todo EXCEPT ![p] = t]
        /\ UNCHANGED <<driver, callVars>>
    BY DEF Open
  <2>2. driver \in Alone
    BY <2>1 DEF Shape
  <2>3. Plain(t) /\ Dos(t) \subseteq OpeningDos /\ "opened" \in Dos(t)
    BY <1>1, <2>2, Openings
  <2> HIDE DEF t
  <2>4. call[p].op = "none"
    BY <2>1, IdleShape
  <2>5. Shaped(driver, t, call[p].op, p \in opened)
    BY <2>1, <2>2, <2>3, <2>4, PlainForm DEF Shaped, Opening, Plain
  <2>6. QED
    BY <2>1, <2>5, OneMoves
<1>4. Opened(p) => Shape'
  <2> SUFFICES ASSUME Opened(p) PROVE Shape'
    OBVIOUS
  <2>1. /\ todo[p] # <<>> /\ Head(todo[p]).do = "opened" /\ todo' = [todo EXCEPT ![p] = Tail(@)]
        /\ opened' = opened \union {p} /\ UNCHANGED <<driver, call>>
    BY DEF Opened, Doing, Done
  <2>2. Shaped(driver, todo[p], call[p].op, p \in opened)
    BY DEF Shape
  <2>3. Opening(driver, todo[p], call[p].op, p \in opened)
    BY <1>1, <2>1, <2>2, ShapedCalls DEF OpeningDos
  <2>4. Tail(todo[p]) = <<>> /\ call[p].op = "none" /\ driver \in Alone
    BY <2>1, <2>2, <2>3, LastStep DEF Shaped, Opening
  <2>5. ASSUME NEW q \in Processes PROVE Shaped(driver', todo'[q], call'[q].op, q \in opened')
    <3>1. CASE q = p
      BY <3>1, <1>1, <1>2, <2>1, <2>4 DEF Shaped
    <3>2. CASE q # p
      <4>1. todo'[q] = todo[q] /\ call'[q] = call[q] /\ (q \in opened') = (q \in opened)
        BY <3>2, <1>1, <2>1
      <4>2. Shaped(driver, todo[q], call[q].op, q \in opened)
        BY DEF Shape
      <4>3. QED
        BY <4>1, <4>2, <2>1
    <3>3. QED
      BY <3>1, <3>2
  <2>6. QED
    BY <1>1, <2>1, <2>4, <2>5 DEF Shape
<1>5. Release(p) => Shape'
  <2> SUFFICES ASSUME Release(p) PROVE Shape'
    OBVIOUS
  <2>1. /\ todo[p] = <<>> /\ Table[driver].release = S("unlock") /\ opened' = opened \ {p}
        /\ UNCHANGED <<driver, call, todo>>
    BY DEF Release
  <2>2. driver \in Alone
    <3>1. S("unlock") # <<>>
      BY DEF S
    <3>2. QED
      BY <1>1, <2>1, <3>1, Openings
  <2>3. call[p].op = "none"
    BY <2>1, IdleShape
  <2>4. ASSUME NEW q \in Processes PROVE Shaped(driver', todo'[q], call'[q].op, q \in opened')
    <3>1. CASE q = p
      BY <3>1, <1>2, <2>1, <2>3 DEF Shaped
    <3>2. CASE q # p
      <4>1. (q \in opened') = (q \in opened)
        BY <3>2, <2>1
      <4>2. Shaped(driver, todo[q], call[q].op, q \in opened)
        BY DEF Shape
      <4>3. QED
        BY <4>1, <4>2, <2>1
    <3>3. QED
      BY <3>1, <3>2
  <2>5. QED
    BY <1>1, <2>1, <2>2, <2>4 DEF Shape
<1>6. QED
  BY <1>3, <1>4, <1>5

\* A call that begins
LEMMA ShapeEnters ==
    ASSUME TypeOK, Shape, NEW p \in Processes, NEW op \in DOMAIN Table[driver].ops,
           NEW n, NEW buffer, NEW reg, Enter(p, op, n, buffer, reg)
    PROVE  Shape' /\ todo'[p] = Prog(driver, op) /\ call'[p].op = op
<1>1. todo \in [Processes -> Seq(Step)] /\ call \in [Processes -> Calls] /\ driver \in DOMAIN Table
  BY DEF TypeOK, Shape
<1>2. /\ p \in opened /\ todo' = [todo EXCEPT ![p] = Prog(driver, op)]
      /\ call' = [call EXCEPT ![p] = [op |-> op, n |-> n, id |-> calls', buffer |-> buffer,
                                      reg |-> reg]]
      /\ UNCHANGED <<driver, opened>>
  BY DEF Enter, Prog
<1>3. todo'[p] = Prog(driver, op) /\ call'[p].op = op
  BY <1>1, <1>2
<1>4. ASSUME NEW q \in Processes PROVE Shaped(driver', todo'[q], call'[q].op, q \in opened')
  <2>1. CASE q = p
    <3>1. Shaped(driver, Prog(driver, op), op, TRUE)
      BY <1>1, ShapedProg
    <3>2. QED
      BY <2>1, <3>1, <1>2, <1>3
  <2>2. CASE q # p
    <3>1. todo'[q] = todo[q] /\ call'[q] = call[q]
      BY <2>2, <1>1, <1>2
    <3>2. QED
      BY <3>1, <1>2 DEF Shape
  <2>3. QED
    BY <2>1, <2>2
<1>5. QED
  BY <1>1, <1>2, <1>3, <1>4 DEF Shape

\* A step taken leaves a program of the shape it had
LEMMA ShapeAdvances ==
    ASSUME TypeOK, Shape, NEW p \in Processes, Advances(p)
    PROVE  Shape'
<1>1. driver \in DOMAIN Table /\ Shaped(driver, todo[p], call[p].op, p \in opened)
  BY DEF Shape
<1>2. Shaped(driver, Tail(todo[p]), call[p].op, p \in opened)
  BY <1>1, ShapedTail DEF Advances
<1>3. todo' = [todo EXCEPT ![p] = Tail(todo[p])] /\ UNCHANGED <<driver, callVars>>
  BY DEF Advances, Done
<1>4. QED
  BY <1>2, <1>3, OneMoves

\* Steps that leave their program
LEMMA ShapeTurns ==
    ASSUME TypeOK, Shape, NEW p \in Processes
    PROVE  TryLock(p) \/ Capable(p) \/ SeqRetry(p) \/ Killed(p) \/ Fault(p) => Shape'
<1>1. driver \in DOMAIN Table /\ Shaped(driver, todo[p], call[p].op, p \in opened)
  BY DEF Shape
<1>2. ASSUME Doing(p, "trylock") \/ Doing(p, "capable"), todo' = [todo EXCEPT ![p] = <<>>],
             UNCHANGED <<driver, callVars>>
      PROVE  Shape'
  <2>1. Opening(driver, todo[p], call[p].op, p \in opened)
    BY <1>1, <1>2, ShapedCalls DEF OpeningDos, Doing
  <2>2. Form(driver, <<>>)
    BY DEF Form, Ordered, Chained
  <2>3. Shaped(driver, <<>>, call[p].op, p \in opened)
    BY <2>1, <2>2 DEF Shaped, Opening
  <2>4. QED
    BY <2>3, <1>2, OneMoves
<1>3. ASSUME Doing(p, "seqretry"), todo' = [todo EXCEPT ![p] = Program(p)],
             UNCHANGED <<driver, callVars>>
      PROVE  Shape'
  <2>1. call[p].op \in DOMAIN Table[driver].ops /\ p \in opened
    <3>1. todo[p] # <<>> /\ Head(todo[p]).do \notin OpeningDos
      BY <1>3 DEF OpeningDos, Doing
    <3> DEFINE open == p \in opened
    <3> HIDE DEF open
    <3>2. Shaped(driver, todo[p], call[p].op, open)
      BY <1>1 DEF open
    <3>3. call[p].op \in DOMAIN Table[driver].ops /\ open
      BY <1>1, <3>1, <3>2, ShapedCalls
    <3>4. QED
      BY <3>3 DEF open
  <2>2. Program(p) = Prog(driver, call[p].op)
    BY DEF Program, Prog
  <2>3. Shaped(driver, Program(p), call[p].op, p \in opened)
    BY <1>1, <2>1, <2>2, ShapedProg
  <2>4. QED
    BY <2>3, <1>3, OneMoves
<1>4. Killed(p) => Shape'
  <2> SUFFICES ASSUME Killed(p) PROVE Shape'
    OBVIOUS
  <2> DEFINE u == SubSeq(todo[p], 5, Len(todo[p]))
  <2>1. todo[p] # <<>> /\ Head(todo[p]).do = "mutex" /\ todo' = [todo EXCEPT ![p] = u]
        /\ UNCHANGED <<driver, callVars>>
    BY DEF Killed, Doing
  <2>2. Shaped(driver, u, call[p].op, p \in opened)
    BY <1>1, <2>1, ShapedSkip
  <2> HIDE DEF u
  <2>3. QED
    BY <2>1, <2>2, OneMoves
<1>5. Fault(p) => Shape'
  <2> SUFFICES ASSUME Fault(p) PROVE Shape'
    OBVIOUS
  <2>1. todo[p] # <<>> /\ Head(todo[p]).do \in {"in", "out"} /\ UNCHANGED <<driver, callVars>>
    BY DEF Fault, Doing
  <2>2. Calling(driver, todo[p], call[p].op, p \in opened)
    BY <1>1, <2>1, ShapedCalls DEF OpeningDos, Unlocks
  <2>3. driver \in Messages
    BY <1>1, <2>1, <2>2, CopiesMessages
  <2>4. \/ todo' = [todo EXCEPT ![p] = S("failed")]
        \/ \E unlock \in Unlocks : Left(p, unlock)
                                   /\ todo' = [todo EXCEPT ![p] = S(unlock) \o S("failed")]
    BY DEF Fault
  <2>5. CASE todo' = [todo EXCEPT ![p] = S("failed")]
    <3>1. Shaped(driver, S("failed"), call[p].op, p \in opened)
      BY <1>1, <2>2, <2>3, ShapedFault
    <3>2. QED
      BY <2>5, <3>1, <2>1, OneMoves
  <2>6. CASE \E unlock \in Unlocks :
                Left(p, unlock) /\ todo' = [todo EXCEPT ![p] = S(unlock) \o S("failed")]
    <3>1. PICK unlock \in Unlocks :
                Left(p, unlock) /\ todo' = [todo EXCEPT ![p] = S(unlock) \o S("failed")]
      BY <2>6
    <3>2. unlock \in Dos(todo[p])
      BY <1>1, <3>1, LeftDos DEF Shaped, Form
    <3>3. Shaped(driver, S(unlock) \o S("failed"), call[p].op, p \in opened)
      BY <1>1, <2>2, <2>3, <3>2, ShapedFault
    <3>4. QED
      BY <3>1, <3>3, <2>1, OneMoves
  <2>7. QED
    BY <2>4, <2>5, <2>6
<1>6. QED
  <2>1. \/ TryLock(p) \/ Capable(p) \/ SeqRetry(p) => Shape'
    BY <1>2, <1>3, Moves, ShapeAdvances
  <2>2. QED
    BY <2>1, <1>4, <1>5

\* Every process stays within a program of its driver
LEMMA ShapeStep ==
    TypeOK /\ Shape /\ [Next]_vars => Shape'
<1> SUFFICES ASSUME TypeOK, Shape, [Next]_vars PROVE Shape'
  OBVIOUS
<1>1. CASE UNCHANGED vars
  BY <1>1 DEF vars, callVars, Shape
<1>2. ASSUME NEW p \in Processes, Stays PROVE Shape'
  BY <1>2 DEF Stays, callVars, Shape
<1>3. ASSUME NEW p \in Processes, Call(p) PROVE Shape'
  BY <1>3, ShapeEnters DEF Call
<1>4. ASSUME NEW p \in Processes, Return(p) \/ Failed(p) PROVE Shape'
  BY <1>4, ShapeLeaves DEF Return, Failed, Doing
<1>5. CASE Next
  <2>1. PICK p \in Processes :
             \/ Open(p) \/ TryLock(p) \/ Capable(p) \/ Opened(p) \/ Release(p)
             \/ Call(p) \/ Return(p) \/ Fault(p) \/ Failed(p)
             \/ Count(p) \/ CopyOut(p) \/ CopyIn(p) \/ SetSize(p) \/ Forget(p) \/ Clear(p) \/ Fill(p)
             \/ LoadOffset(p) \/ StoreOffset(p) \/ Await(p) \/ Complete(p) \/ Poll(p)
             \/ ReadLock(p) \/ ReadUnlock(p) \/ WriteLock(p) \/ WriteUnlock(p)
             \/ SeqBegin(p) \/ SeqRetry(p) \/ PortLock(p) \/ PortUnlock(p) \/ Killed(p)
             \/ Address(p) \/ Get(p) \/ Set(p) \/ GetValue(p) \/ SetValue(p)
    BY <1>5 DEF Next
  <2>2. CASE Open(p) \/ Opened(p) \/ Release(p)
    BY <2>2, ShapeFiles
  <2>3. CASE TryLock(p) \/ Capable(p) \/ SeqRetry(p) \/ Killed(p) \/ Fault(p)
    BY <2>3, ShapeTurns
  <2>4. CASE Advances(p) \/ Stays
    BY <2>4, <1>2, ShapeAdvances
  <2>5. QED
    BY <2>1, <2>2, <2>3, <2>4, <1>3, <1>4, Moves
<1>6. QED
  BY <1>1, <1>5

-----------------------------------------------------------------------------
(* Calls and types.                                                        *)

\* What a call carries, and that nothing is left of a call that has ended
CallOK(p) ==
    IF call[p].op = "none"
    THEN /\ call[p] = NoCall /\ pos[p] = 0 /\ got[p] = <<>> /\ loaded[p] = NothingLoaded
         /\ snapshots[p] = {}
    ELSE /\ call[p].id \in 1 .. calls /\ call[p].n \in 1 .. Size /\ call[p].buffer \in Buffers
         /\ driver # "chardev_minor" => call[p].buffer = "kbuffer"
         /\ driver \notin Messages /\ (\E s \in Steps(Prog(driver, call[p].op)) : s.reg = "*")
            => call[p].reg \in Registers

\* A port is accessed after its address has been set
AddressSet ==
    \A p \in Processes :
        todo[p] # <<>> /\ Head(todo[p]).do \in {"get", "set"} => address \in Registers

TypeInv == TypeOK /\ Shape /\ (\A p \in Processes : CallOK(p)) /\ AddressSet

\* The variables are well typed at first
LEMMA TypeInit ==
    Init => TypeOK /\ AddressSet /\ \A p \in Processes : CallOK(p)
<1> SUFFICES ASSUME Init PROVE TypeOK /\ AddressSet /\ \A p \in Processes : CallOK(p)
  OBVIOUS
<1>1. Bound \in Nat /\ 0 \in 0 .. Bound /\ 0 \in 0 .. Size
  BY BoundsAssumption, SizeAssumption DEF Bound
<1>2. [k \in Keys |-> 0] \in [Keys -> 0 .. Bound]
  BY <1>1
<1>3. latest \in [mem : [Keys -> 0 .. Bound], size : 0 .. Size]
  BY <1>1, <1>2 DEF Init
<1>4. NoCall \in Calls
  BY <1>1 DEF NoCall, Calls
<1>5. NothingLoaded \in [n : 0 .. Size, len : 0 .. Size, offset : Nat, sequence : Nat]
  BY <1>1 DEF NothingLoaded
<1>6. todo \in [Processes -> Seq(Step)]
  <2>1. <<>> \in Seq(Step)
    OBVIOUS
  <2>2. QED
    BY <2>1 DEF Init
<1>7. \A p \in Processes : got[p] = <<>> /\ DOMAIN got[p] = {}
  BY DEF Init
<1>8. /\ driver \in Drivers /\ calls \in 0 .. Bound /\ mem \in [Keys -> 0 .. Bound]
      /\ size_of_msg \in 0 .. Size /\ address \in Registers \union {"none"}
      /\ readoffset \in Nat /\ returned \in Nat /\ completions \in Nat /\ sequence \in Nat
      /\ mutex \subseteq Processes /\ \A p, q \in mutex : p = q
      /\ readers \subseteq Processes
      /\ writer \subseteq Processes /\ \A p, q \in writer : p = q
      /\ opened \subseteq Processes
      /\ dirty \in BOOLEAN /\ strayed \in BOOLEAN /\ spoiled = {}
      /\ message \in [id : 0 .. Bound, n : 0 .. Size] /\ crossed = {}
  BY <1>1, <1>2 DEF Init
<1>9. /\ call \in [Processes -> Calls] /\ pos \in [Processes -> 0 .. Size]
      /\ loaded \in [Processes -> [n : 0 .. Size, len : 0 .. Size, offset : Nat, sequence : Nat]]
      /\ DOMAIN got = Processes
      /\ snapshots \in [Processes -> SUBSET [Keys -> 0 .. Bound]]
  BY <1>1, <1>4, <1>5 DEF Init
<1>10. TypeOK
  BY <1>3, <1>6, <1>7, <1>8, <1>9 DEF TypeOK
<1>11. AddressSet /\ \A p \in Processes : CallOK(p)
  BY DEF Init, AddressSet, CallOK, NoCall
<1>12. QED
  BY <1>10, <1>11

\* Only what a call works with changes while it lasts
LEMMA CallsKept ==
    ASSUME TypeOK, \A p \in Processes : CallOK(p), NEW p \in Processes,
           UNCHANGED <<driver, callVars>>,
           \A q \in Processes : \/ q = p /\ call[p].op # "none"
                                \/ /\ pos'[q] = pos[q] /\ got'[q] = got[q]
                                   /\ loaded'[q] = loaded[q],
           \A q \in Processes : call[q].op = "none" => snapshots'[q] = snapshots[q]
    PROVE  \A q \in Processes : CallOK(q)'
<1> SUFFICES ASSUME NEW q \in Processes PROVE CallOK(q)'
  OBVIOUS
<1>1. CallOK(q) /\ call' = call /\ calls' = calls /\ driver' = driver
  BY DEF callVars
<1>2. CASE call[q].op = "none"
  BY <1>1, <1>2 DEF CallOK
<1>3. CASE call[q].op # "none"
  BY <1>1, <1>3 DEF CallOK
<1>4. QED
  BY <1>2, <1>3

\* A register that the call names is named in the operation, not in the return
LEMMA StarSteps ==
    ASSUME NEW t \in Seq(Step), NEW s \in Steps(t \o S("return")), s.reg = "*"
    PROVE  \E i \in DOMAIN t : t[i].reg = "*"
<1>1. s \in Steps(t)
  <2> DEFINE r == [do |-> "return", reg |-> "none"]
  <2>1. S("return") \in Seq(Step) /\ Steps(S("return")) = {r}
    BY ReturnStep
  <2>2. Steps(t \o S("return")) = Steps(t) \union {r}
    BY <2>1, ConcatSteps
  <2>3. s # r
    OBVIOUS
  <2>4. QED
    BY <2>2, <2>3
<1>2. QED
  BY <1>1 DEF Steps

\* A call that begins is one that Call lets a process make
LEMMA CallsEnter ==
    ASSUME TypeOK, Shape, \A p \in Processes : CallOK(p), NEW p \in Processes, Call(p)
    PROVE  \E op \in DOMAIN Table[driver].ops, n \in 1 .. Size, buffer \in Buffers,
              reg \in Registers \union {"POLLPRI", "none"} :
              /\ Enter(p, op, n, buffer, reg)
              /\ driver # "chardev_minor" => buffer = "kbuffer"
              /\ driver \notin Messages /\ (\E s \in Steps(Prog(driver, op)) : s.reg = "*")
                 => reg \in Registers
<1>1. driver \in DOMAIN Table
  BY DEF Shape
<1>2. PICK op \in DOMAIN Table[driver].ops :
      \E n \in IF driver \in Ports \union {"proc_skel"} THEN {1} ELSE 1 .. Size :
      \E buffer \in IF driver = "chardev_minor" THEN Buffers ELSE {"kbuffer"} :
      \E reg \in IF op = "poll" THEN {"POLLPRI", "none"}
                 ELSE IF \E i \in DOMAIN Table[driver].ops[op] : Table[driver].ops[op][i].reg = "*"
                 THEN {"SECOND", "MINUTE"} ELSE {"none"} :
          Enter(p, op, n, buffer, reg)
  BY DEF Call
<1>3. PICK n \in (IF driver \in Ports \union {"proc_skel"} THEN {1} ELSE 1 .. Size),
           buffer \in (IF driver = "chardev_minor" THEN Buffers ELSE {"kbuffer"}),
           reg \in (IF op = "poll" THEN {"POLLPRI", "none"}
                    ELSE IF \E i \in DOMAIN Table[driver].ops[op] :
                                Table[driver].ops[op][i].reg = "*"
                    THEN {"SECOND", "MINUTE"} ELSE {"none"}) :
           Enter(p, op, n, buffer, reg)
  BY <1>2
<1>4. n \in 1 .. Size
  BY SizeAssumption
<1>5. buffer \in Buffers /\ (driver # "chardev_minor" => buffer = "kbuffer")
  BY DEF Buffers
<1>6. reg \in {"POLLPRI", "none", "SECOND", "MINUTE"}
      /\ {"SECOND", "MINUTE"} \subseteq Registers
  BY DEF Registers
<1>7. ASSUME driver \notin Messages, NEW s \in Steps(Prog(driver, op)), s.reg = "*"
      PROVE  reg \in Registers
  <2>1. Reading(op) # Writing(op) /\ Table[driver].ops[op] \in Seq(Step)
    BY <1>1, <1>7, Programs
  <2>2. op # "poll"
    BY <2>1 DEF Reading, Writing
  <2>3. \E i \in DOMAIN Table[driver].ops[op] : Table[driver].ops[op][i].reg = "*"
    BY <2>1, <1>7, StarSteps DEF Prog
  <2>4. QED
    BY <2>2, <2>3, <1>6
<1>8. QED
  BY <1>3, <1>4, <1>5, <1>6, <1>7

\* Each call keeps the buffer, the register and the length it was made with
LEMMA CallsStep ==
    ASSUME TypeOK, Shape, \A p \in Processes : CallOK(p), [Next]_vars
    PROVE  \A p \in Processes : CallOK(p)'
<1> DEFINE Inv == \A p \in Processes : CallOK(p)
<1>1. /\ pos \in [Processes -> 0 .. Size] /\ DOMAIN got = Processes
      /\ call \in [Processes -> Calls] /\ driver \in DOMAIN Table
      /\ loaded \in [Processes -> [n : 0 .. Size, len : 0 .. Size, offset : Nat, sequence : Nat]]
      /\ snapshots \in [Processes -> SUBSET [Keys -> 0 .. Bound]] /\ calls \in Nat
  BY DEF TypeOK, Shape
<1>2. CASE UNCHANGED vars
  BY <1>2 DEF vars, callVars, copyVars, history, CallOK
<1>3. ASSUME NEW p \in Processes, UNCHANGED <<driver, callVars, copyVars, snapshots>>
      PROVE  Inv'
  BY <1>3, CallsKept DEF copyVars
<1>4. ASSUME NEW p \in Processes, todo[p] # <<>>, Head(todo[p]).do \notin OpeningDos
      PROVE  call[p].op # "none"
  <2> DEFINE open == p \in opened
  <2> HIDE DEF open
  <2>1. Shaped(driver, todo[p], call[p].op, open)
    BY DEF Shape, open
  <2>2. QED
    BY <1>1, <1>4, <2>1, ShapedCalls
<1>5. ASSUME NEW p \in Processes, Count(p) \/ CopyOut(p) \/ CopyIn(p) \/ LoadOffset(p)
                                  \/ StoreOffset(p) \/ SeqBegin(p) \/ SeqRetry(p) \/ Get(p)
                                  \/ GetValue(p)
      PROVE  Inv'
  <2>1. todo[p] # <<>> /\ Head(todo[p]).do \notin OpeningDos
    BY <1>5 DEF Count, CopyOut, CopyIn, LoadOffset, StoreOffset, SeqBegin, SeqRetry, Get,
       GetValue, Doing, OpeningDos
  <2>2. call[p].op # "none"
    BY <2>1, <1>4
  <2>3. UNCHANGED <<driver, callVars, snapshots>>
    BY <1>5 DEF Count, CopyOut, CopyIn, LoadOffset, StoreOffset, SeqBegin, SeqRetry, Get,
       GetValue, history
  <2>4. ASSUME NEW q \in Processes, q # p
        PROVE  pos'[q] = pos[q] /\ got'[q] = got[q] /\ loaded'[q] = loaded[q]
    <3>1. Count(p) \/ CopyOut(p) \/ CopyIn(p) => pos'[q] = pos[q] /\ got'[q] = got[q]
                                                 /\ loaded'[q] = loaded[q]
      BY <1>1, <2>4 DEF Count, CopyOut, CopyIn
    <3>2. LoadOffset(p) \/ StoreOffset(p) \/ SeqBegin(p) \/ SeqRetry(p)
            => pos'[q] = pos[q] /\ got'[q] = got[q] /\ loaded'[q] = loaded[q]
      BY <1>1, <2>4 DEF LoadOffset, StoreOffset, SeqBegin, SeqRetry
    <3>3. Get(p) \/ GetValue(p) => pos'[q] = pos[q] /\ got'[q] = got[q]
                                   /\ loaded'[q] = loaded[q]
      BY <1>1, <2>4 DEF Get, GetValue
    <3>4. QED
      BY <1>5, <3>1, <3>2, <3>3
  <2>5. QED
    BY <2>2, <2>3, <2>4, CallsKept
<1>6. ASSUME NEW p \in Processes, WriteUnlock(p) PROVE Inv'
  <2>1. \A q \in Processes : call[q].op = "none" => snapshots'[q] = snapshots[q]
    BY <1>6, <1>1 DEF WriteUnlock, InCall
  <2>2. UNCHANGED <<driver, callVars, copyVars>>
    BY <1>6 DEF WriteUnlock
  <2>3. QED
    BY <2>1, <2>2, CallsKept DEF copyVars
<1>7. ASSUME NEW p \in Processes, Return(p) \/ Failed(p) PROVE Inv'
  <2>1. Leave(p)
    BY <1>7 DEF Return, Failed
  <2>2. ASSUME NEW q \in Processes PROVE CallOK(q)'
    <3>1. CASE q = p
      <4>1. /\ call'[q] = NoCall /\ pos'[q] = 0 /\ got'[q] = <<>> /\ loaded'[q] = NothingLoaded
            /\ snapshots'[q] = {}
        BY <3>1, <2>1, <1>1 DEF Leave
      <4>2. QED
        BY <4>1 DEF CallOK, NoCall
    <3>2. CASE q # p
      <4>1. /\ call'[q] = call[q] /\ pos'[q] = pos[q] /\ got'[q] = got[q]
            /\ loaded'[q] = loaded[q] /\ snapshots'[q] = snapshots[q]
            /\ calls' = calls /\ driver' = driver
        BY <3>2, <2>1, <1>1 DEF Leave
      <4>2. QED
        BY <4>1 DEF CallOK
    <3>3. QED
      BY <3>1, <3>2
  <2>3. QED
    BY <2>2
<1>8. ASSUME NEW p \in Processes, Call(p) PROVE Inv'
  <2>1. PICK op \in DOMAIN Table[driver].ops, n \in 1 .. Size, buffer \in Buffers,
             reg \in Registers \union {"POLLPRI", "none"} :
              /\ Enter(p, op, n, buffer, reg)
              /\ driver # "chardev_minor" => buffer = "kbuffer"
              /\ driver \notin Messages /\ (\E s \in Steps(Prog(driver, op)) : s.reg = "*")
                 => reg \in Registers
    BY <1>8, CallsEnter
  <2>2. /\ calls' = calls + 1 /\ UNCHANGED <<driver, pos, got, loaded>>
        /\ call' = [call EXCEPT ![p] = [op |-> op, n |-> n, id |-> calls', buffer |-> buffer,
                                        reg |-> reg]]
        /\ \A q \in Processes \ {p} : snapshots'[q] = snapshots[q]
    BY <2>1, <1>1 DEF Enter, copyVars
  <2>3. ASSUME NEW q \in Processes PROVE CallOK(q)'
    <3>1. CASE q = p
      <4>1. /\ call'[q].op = op /\ call'[q].n = n /\ call'[q].id = calls'
            /\ call'[q].buffer = buffer /\ call'[q].reg = reg
        BY <3>1, <2>2, <1>1
      <4>2. op # "none"
        BY <1>1, Programs DEF Ops
      <4>3. calls' \in 1 .. calls'
        BY <1>1, <2>2
      <4>4. QED
        BY <4>1, <4>2, <4>3, <2>1, <2>2 DEF CallOK
    <3>2. CASE q # p
      <4>1. call'[q] = call[q] /\ snapshots'[q] = snapshots[q]
        BY <3>2, <2>2, <1>1
      <4>2. \A i \in 1 .. calls : i \in 1 .. calls'
        BY <2>2, <1>1
      <4>3. QED
        BY <4>1, <4>2, <2>2 DEF CallOK
    <3>3. QED
      BY <3>1, <3>2
  <2>4. QED
    BY <2>3
<1>9. ASSUME NEW p \in Processes,
             \/ Open(p) \/ TryLock(p) \/ Capable(p) \/ Fault(p)
             \/ SetSize(p) \/ Forget(p) \/ Clear(p) \/ Fill(p)
             \/ Await(p) \/ Complete(p) \/ Poll(p)
             \/ ReadLock(p) \/ ReadUnlock(p) \/ WriteLock(p) \/ PortLock(p) \/ PortUnlock(p)
             \/ Killed(p) \/ Address(p) \/ Set(p) \/ SetValue(p)
      PROVE  UNCHANGED <<driver, callVars, copyVars, snapshots>>
  BY <1>9 DEF Open, TryLock, Capable, Fault, SetSize, Forget, Clear, Fill, Await,
     Complete, Poll, ReadLock, ReadUnlock, WriteLock, PortLock, PortUnlock, Killed, Address, Set,
     SetValue, history
<1>10. ASSUME NEW p \in Processes, Opened(p) \/ Release(p) PROVE Inv'
  <2>1. UNCHANGED <<driver, call, calls, copyVars, snapshots>>
    BY <1>10 DEF Opened, Release, history
  <2>2. QED
    BY <2>1 DEF CallOK, copyVars
<1>11. CASE Next
  BY <1>11, <1>3, <1>5, <1>6, <1>7, <1>8, <1>9, <1>10 DEF Next
<1>12. QED
  BY <1>2, <1>11

\* A step at a port names a register
LEMMA PortKey ==
    ASSUME TypeOK, Shape, NEW p \in Processes, CallOK(p), todo[p] # <<>>,
           Head(todo[p]).do \in {"address", "get", "set", "getvalue", "setvalue"}
    PROVE  /\ Key(p)[1] \in Registers /\ Key(p) = <<Key(p)[1], 0>> /\ Key(p) \in Keys
           /\ driver \notin Messages /\ call[p].op # "none"
           /\ call[p].op \in DOMAIN Table[driver].ops
           /\ Head(todo[p]) \in Steps(Prog(driver, call[p].op))
<1> DEFINE open == p \in opened
<1> DEFINE op == call[p].op
<1> DEFINE s == Head(todo[p])
<1>1. driver \in DOMAIN Table /\ Shaped(driver, todo[p], op, open)
  BY DEF Shape
<1> HIDE DEF open, op
<1>2. s.do \notin OpeningDos \union Unlocks \union {"failed"}
  BY DEF OpeningDos, Unlocks
<1>3. Calling(driver, todo[p], op, open) /\ op \in DOMAIN Table[driver].ops /\ op # "none"
  BY <1>1, <1>2, ShapedCalls
<1>4. s \in Steps(todo[p])
  <2>1. Form(driver, todo[p])
    BY <1>1 DEF Shaped
  <2>2. Steps(todo[p]) = {s} \union Steps(Tail(todo[p]))
    BY <2>1, TailForm
  <2>3. QED
    BY <2>2
<1>5. s \in Steps(Prog(driver, op)) /\ s.do \in Dos(Prog(driver, op))
  BY <1>3, <1>4 DEF Calling, Dos
<1>6. driver \notin Messages
  <2> SUFFICES ASSUME driver \in Messages PROVE FALSE
    OBVIOUS
  <2>1. op \in MessageOps(driver)
    BY <1>1, <1>3, Programs
  <2>2. Plain(Prog(driver, op))
    BY <1>1, <1>3, MessagePrograms DEF Runs, Prog
  <2>3. Dos(Prog(driver, op)) = MessageDos(driver, op) \union {"return"}
    BY <1>1, <1>3, Programs
  <2>4. s.do \in {"getvalue", "setvalue"}
    BY <2>2, <1>5 DEF Plain, PortSteps
  <2>5. op \in {"read", "write", "fill", "poll"}
    BY <2>1 DEF MessageOps, When
  <2>6. op \in {"fill", "poll"} => FALSE
    BY <2>3, <2>4, <1>5, FamilyDos
  <2>7. op = "read" => FALSE
    BY <2>3, <2>4, <1>5 DEF MessageDos, When
  <2>8. op = "write" => FALSE
    BY <2>3, <2>4, <1>5 DEF MessageDos, When
  <2>9. QED
    BY <2>5, <2>6, <2>7, <2>8
<1>7. s.reg \in Registers \union {"*"}
  <2>1. NamedSteps(Prog(driver, op))
    BY <1>1, <1>3, <1>6, Programs
  <2>2. QED
    BY <2>1, <1>5 DEF NamedSteps
<1>8. s.reg = "*" => call[p].reg \in Registers
  BY <1>3, <1>5, <1>6 DEF CallOK, op
<1>9. Key(p) = <<IF s.reg = "*" THEN call[p].reg ELSE s.reg, 0>>
  BY DEF Key, KeyOf
<1>10. /\ Key(p)[1] \in Registers /\ Key(p) = <<Key(p)[1], 0>> /\ Key(p) \in Keys
  BY <1>7, <1>8, <1>9 DEF Keys
<1>11. QED
  BY <1>3, <1>5, <1>6, <1>10 DEF op

\* A call's cell
LEMMA CellKey ==
    ASSUME NEW p \in Processes, CallOK(p), call[p].op # "none", NEW i \in 1 .. Size
    PROVE  CellAt(p, i) \in Keys
BY DEF CellAt, CallOK, Keys

\* A process at work is in a call
LEMMA AtWork ==
    ASSUME Shape, NEW p \in Processes, todo[p] # <<>>, Head(todo[p]).do \notin OpeningDos
    PROVE  /\ call[p].op # "none" /\ call[p].op \in DOMAIN Table[driver].ops /\ p \in opened
           /\ Head(todo[p]).do \notin Unlocks \union {"failed"}
                => Calling(driver, todo[p], call[p].op, TRUE)
<1> DEFINE open == p \in opened
<1> DEFINE op == call[p].op
<1>1. driver \in DOMAIN Table /\ Shaped(driver, todo[p], op, open)
  BY DEF Shape
<1> HIDE DEF open, op
<1>2. /\ op \in DOMAIN Table[driver].ops /\ op # "none" /\ open
      /\ Head(todo[p]).do \notin Unlocks \union {"failed"} => Calling(driver, todo[p], op, open)
  BY <1>1, ShapedCalls
<1>3. Calling(driver, todo[p], op, open) => Calling(driver, todo[p], op, TRUE)
  BY DEF Calling
<1>4. QED
  BY <1>2, <1>3 DEF open, op

\* One step along a program, and what comes after it
LEMMA Advance ==
    ASSUME TypeOK, Shape, NEW p \in Processes, Advances(p)
    PROVE  /\ todo'[p] = Tail(todo[p]) /\ todo'[p] # <<>>
           /\ \A q \in Processes \ {p} : todo'[q] = todo[q]
           /\ Steps(todo[p]) = {Head(todo[p])} \union Steps(todo'[p])
           /\ Dos(todo[p]) = {Head(todo[p]).do} \union Dos(todo'[p])
           /\ \A e \in Dos(todo'[p]) : Earlier(Head(todo[p]).do, e)
           /\ Linked(driver, Head(todo[p]), Head(todo'[p]))
           /\ driver' = driver /\ call' = call /\ opened' = opened
<1> DEFINE t == todo[p]
<1> DEFINE open == p \in opened
<1>1. todo \in [Processes -> Seq(Step)] /\ t # <<>>
      /\ Head(t).do \notin {"return", "failed", "opened"}
      /\ todo' = [todo EXCEPT ![p] = Tail(t)]
      /\ driver' = driver /\ call' = call /\ opened' = opened
  BY DEF TypeOK, Advances, Done, callVars
<1>2. todo'[p] = Tail(t) /\ \A q \in Processes \ {p} : todo'[q] = todo[q]
  BY <1>1
<1> HIDE DEF t, open
<1>3. Shaped(driver, t, call[p].op, open)
  BY DEF Shape, t, open
<1>4. Form(driver, t)
  BY <1>3 DEF Shaped
<1>5. /\ Steps(t) = {Head(t)} \union Steps(Tail(t)) /\ Dos(t) = {Head(t).do} \union Dos(Tail(t))
      /\ \A e \in Dos(Tail(t)) : Earlier(Head(t).do, e)
      /\ Tail(t) # <<>> => Linked(driver, Head(t), Head(Tail(t)))
  BY <1>1, <1>4, TailForm
<1>6. Tail(t) # <<>>
  <2>1. "return" \in Dos(t) \/ "failed" \in Dos(t) \/ "opened" \in Dos(t)
    BY <1>1, <1>3 DEF Shaped, Opening, Calling, Failing
  <2> DEFINE u == Tail(t)
  <2> HIDE DEF u
  <2>2. Dos(t) = {Head(t).do} \union Dos(u)
    BY <1>5 DEF u
  <2>3. Dos(u) # {}
    BY <2>1, <2>2, <1>1
  <2>4. u # <<>>
    BY <2>3, EmptyDos
  <2>5. QED
    BY <2>4 DEF u
<1>7. QED
  BY <1>1, <1>2, <1>5, <1>6 DEF t

\* The first step of a call is no access, and begins with the mutex if there is one
LEMMA FirstStep ==
    ASSUME NEW d \in DOMAIN Table, NEW op \in DOMAIN Table[d].ops
    PROVE  /\ Prog(d, op) # <<>> /\ Head(Prog(d, op)).do \notin {"get", "set"}
           /\ d \in Mutexed => Head(Prog(d, op)).do = "mutex"
<1> DEFINE t == Prog(d, op)
<1>1. Form(d, t) /\ t # <<>> /\ Begins(d, t)
  BY Programs
<1> HIDE DEF t
<1>2. Head(t) = t[1]
  BY <1>1 DEF Form
<1>3. t # <<>> /\ Head(t).do \notin {"get", "set"} /\ (d \in Mutexed => Head(t).do = "mutex")
  BY <1>1, <1>2 DEF Begins
<1>4. QED
  BY <1>3 DEF t

AtPort(p) == todo[p] # <<>> /\ Head(todo[p]).do \in {"get", "set"}

\* A process comes to an access of a port by setting the address, and nothing
\* else sets it
LEMMA PortArrives ==
    ASSUME TypeOK, Shape, [Next]_vars
    PROVE  /\ \A q \in Processes :
                 AtPort(q)' => Address(q) \/ (todo'[q] = todo[q] /\ call'[q] = call[q])
           /\ address' = address \/ \E p \in Processes : Address(p)
<1> DEFINE Arrives == \A q \in Processes :
                 AtPort(q)' => Address(q) \/ (todo'[q] = todo[q] /\ call'[q] = call[q])
<1>1. todo \in [Processes -> Seq(Step)] /\ driver \in DOMAIN Table /\ call \in [Processes -> Calls]
  BY DEF TypeOK, Shape
<1>2. CASE UNCHANGED vars
  BY <1>2 DEF vars, dataVars, callVars
<1>3. ASSUME NEW p \in Processes, NEW t, todo' = [todo EXCEPT ![p] = t],
             \A q \in Processes \ {p} : call'[q] = call[q],
             t # <<>> => Head(t).do \notin {"get", "set"}
      PROVE  Arrives
  <2>1. todo'[p] = t /\ \A q \in Processes \ {p} : todo'[q] = todo[q]
    BY <1>1, <1>3
  <2>2. ~AtPort(p)'
    BY <2>1, <1>3 DEF AtPort
  <2>3. QED
    BY <2>1, <2>2, <1>3
<1>4. ASSUME NEW p \in Processes, Advances(p), Address(p) \/ Head(todo[p]).do # "address"
      PROVE  Arrives
  <2>1. /\ \A q \in Processes \ {p} : todo'[q] = todo[q]
        /\ todo'[p] # <<>> /\ Linked(driver, Head(todo[p]), Head(todo'[p])) /\ call' = call
    BY <1>4, Advance
  <2>2. AtPort(p)' => Address(p)
    BY <2>1, <1>4 DEF AtPort, Linked
  <2>3. QED
    BY <2>1, <2>2
<1>5. ASSUME Stays PROVE Arrives
  BY <1>5 DEF Stays, callVars
<1>6. ASSUME NEW p \in Processes, Address(p) PROVE Arrives
  BY <1>6, <1>4, Moves
<1>7. ASSUME NEW p \in Processes, \/ Count(p) \/ SetSize(p) \/ Forget(p) \/ Clear(p) \/ Fill(p)
                                  \/ LoadOffset(p) \/ StoreOffset(p) \/ Await(p) \/ Complete(p)
                                  \/ Poll(p)
      PROVE  Arrives /\ address' = address
  <2>1. Head(todo[p]).do # "address" /\ address' = address
    BY <1>7 DEF Count, SetSize, Forget, Clear, Fill, LoadOffset, StoreOffset, Await, Complete, Poll,
       Doing, dataVars
  <2>2. QED
    BY <2>1, <1>4, <1>7, Moves
<1>8. ASSUME NEW p \in Processes, \/ ReadLock(p) \/ ReadUnlock(p) \/ WriteLock(p) \/ WriteUnlock(p)
                                  \/ SeqBegin(p) \/ PortLock(p) \/ PortUnlock(p)
                                  \/ Get(p) \/ Set(p) \/ GetValue(p) \/ SetValue(p)
      PROVE  Arrives /\ address' = address
  <2>1. Head(todo[p]).do # "address" /\ address' = address
    BY <1>8 DEF ReadLock, ReadUnlock, WriteLock, WriteUnlock, SeqBegin, PortLock, PortUnlock, Get,
       Set, GetValue, SetValue, Doing, dataVars
  <2>2. QED
    BY <2>1, <1>4, <1>8, Moves
<1>9. ASSUME NEW p \in Processes, CopyOut(p) \/ CopyIn(p) \/ TryLock(p) \/ Capable(p)
      PROVE  Arrives /\ address' = address
  <2>1. Head(todo[p]).do # "address" /\ address' = address
    BY <1>9 DEF CopyOut, CopyIn, TryLock, Capable, Doing, dataVars
  <2>2. \/ Stays \/ Advances(p)
        \/ todo' = [todo EXCEPT ![p] = <<>>] /\ UNCHANGED <<driver, callVars>>
    BY <1>9, Moves
  <2>3. QED
    BY <2>1, <2>2, <1>3, <1>4, <1>5 DEF callVars
<1>10. ASSUME NEW p \in Processes, Call(p) PROVE Arrives /\ address' = address
  <2>1. PICK op \in DOMAIN Table[driver].ops : \E n, buffer, reg : Enter(p, op, n, buffer, reg)
    BY <1>10 DEF Call
  <2>2. todo' = [todo EXCEPT ![p] = Prog(driver, op)] /\ address' = address
        /\ \A q \in Processes \ {p} : call'[q] = call[q]
    BY <2>1, <1>1 DEF Enter, Prog, dataVars
  <2>3. Head(Prog(driver, op)).do \notin {"get", "set"}
    BY <1>1, FirstStep
  <2>4. QED
    BY <2>2, <2>3, <1>3
<1>11. ASSUME NEW p \in Processes, SeqRetry(p) PROVE Arrives /\ address' = address
  <2>1. todo[p] # <<>> /\ Head(todo[p]).do = "seqretry" /\ address' = address /\ call' = call
    BY <1>11 DEF SeqRetry, Doing, dataVars, callVars
  <2>2. call[p].op \in DOMAIN Table[driver].ops
    BY <2>1, AtWork DEF OpeningDos
  <2>3. Program(p) = Prog(driver, call[p].op)
    BY DEF Program, Prog
  <2>4. Head(Program(p)).do \notin {"get", "set"}
    BY <1>1, <2>2, <2>3, FirstStep
  <2>5. Advances(p) \/ todo' = [todo EXCEPT ![p] = Program(p)]
    BY <1>11, Moves
  <2>6. QED
    BY <2>1, <2>4, <2>5, <1>3, <1>4
<1>12. ASSUME NEW p \in Processes, Killed(p) PROVE Arrives /\ address' = address
  <2> DEFINE u == SubSeq(todo[p], 5, Len(todo[p]))
  <2>1. todo[p] # <<>> /\ Head(todo[p]).do = "mutex" /\ todo' = [todo EXCEPT ![p] = u]
        /\ address' = address /\ call' = call
    BY <1>12 DEF Killed, Doing, dataVars, callVars
  <2> DEFINE open == p \in opened
  <2> HIDE DEF open
  <2>2. Shaped(driver, todo[p], call[p].op, open)
    BY DEF Shape, open
  <2>3. Head(u).do \in {"mutex", "return"}
    BY <1>1, <2>1, <2>2, ShapedSkip
  <2> HIDE DEF u
  <2>4. QED
    BY <2>1, <2>3, <1>3
<1>13. ASSUME NEW p \in Processes, Fault(p) PROVE Arrives /\ address' = address
  <2>1. /\ address' = address /\ call' = call
        /\ \E t : todo' = [todo EXCEPT ![p] = t] /\ Head(t).do \in Unlocks \union {"failed"}
    <3> DEFINE none == S("failed")
    <3> DEFINE one(unlock) == S(unlock) \o S("failed")
    <3>1. Head(none).do = "failed" /\ \A unlock : Head(one(unlock)).do = unlock
      BY DEF S
    <3>2. \/ todo' = [todo EXCEPT ![p] = none]
          \/ \E unlock \in Unlocks : todo' = [todo EXCEPT ![p] = one(unlock)]
      BY <1>13 DEF Fault
    <3>3. address' = address /\ call' = call
      BY <1>13 DEF Fault, dataVars, callVars
    <3> HIDE DEF none, one
    <3>4. QED
      BY <3>1, <3>2, <3>3
  <2>2. QED
    BY <2>1, <1>3 DEF Unlocks
<1>14. ASSUME NEW p \in Processes, Return(p) \/ Failed(p) PROVE Arrives /\ address' = address
  <2>1. Leave(p) /\ todo[p] # <<>> /\ Head(todo[p]).do \in {"return", "failed"}
    BY <1>14 DEF Return, Failed, Doing
  <2>2. todo'[p] = <<>>
    BY <2>1, ShapeLeaves
  <2>3. /\ \A q \in Processes \ {p} : todo'[q] = todo[q] /\ call'[q] = call[q]
        /\ address' = address
    BY <2>1, <1>1 DEF Leave, Done, dataVars
  <2>4. QED
    BY <2>2, <2>3 DEF AtPort
<1>15. ASSUME NEW p \in Processes, Open(p) PROVE Arrives /\ address' = address
  <2> DEFINE t == Table[driver].open \o S("opened")
  <2>1. todo' = [todo EXCEPT ![p] = t] /\ address' = address /\ call' = call /\ driver \in Alone
    BY <1>15 DEF Open, dataVars, callVars, Shape
  <2>2. Plain(t) /\ Dos(t) \subseteq OpeningDos
    BY <1>1, <2>1, Openings
  <2> HIDE DEF t
  <2>3. t # <<>> /\ Form("char_dev", t)
    BY <2>2, PlainForm DEF Plain
  <2>4. Head(t).do \in OpeningDos
    BY <2>2, <2>3, HeadDos
  <2>5. QED
    BY <2>1, <2>4, <1>3 DEF OpeningDos
<1>16. ASSUME NEW p \in Processes, Opened(p) PROVE Arrives /\ address' = address
  <2>1. todo' = [todo EXCEPT ![p] = Tail(todo[p])] /\ address' = address /\ call' = call
        /\ todo[p] # <<>> /\ Head(todo[p]).do = "opened"
    BY <1>16 DEF Opened, Done, Doing, dataVars
  <2>2. Form(driver, todo[p])
    BY DEF Shape, Shaped
  <2>3. Tail(todo[p]) # <<>> => Head(Tail(todo[p])).do \notin {"get", "set"}
    BY <2>1, <2>2, TailForm DEF Linked
  <2>4. QED
    BY <2>1, <2>3, <1>3
<1>17. ASSUME NEW p \in Processes, Release(p) PROVE Arrives /\ address' = address
  BY <1>17 DEF Release, dataVars
<1>18. CASE Next
  BY <1>18, <1>6, <1>7, <1>8, <1>9, <1>10, <1>11, <1>12, <1>13, <1>14, <1>15, <1>16, <1>17
     DEF Next
<1>19. QED
  BY <1>2, <1>18

\* An access finds that some address has been set
LEMMA AddressStep ==
    ASSUME TypeOK, Shape, \A p \in Processes : CallOK(p), AddressSet, [Next]_vars
    PROVE  AddressSet'
<1> SUFFICES ASSUME NEW q \in Processes, AtPort(q)' PROVE address' \in Registers
  BY DEF AddressSet, AtPort
<1>1. ASSUME NEW p \in Processes, Address(p) PROVE address' \in Registers
  <2>1. address' = Key(p)[1] /\ todo[p] # <<>> /\ Head(todo[p]).do = "address"
    BY <1>1 DEF Address, Doing
  <2>2. QED
    BY <2>1, PortKey
<1>2. CASE address' = address
  <2>1. Address(q) \/ todo'[q] = todo[q]
    BY PortArrives
  <2>2. QED
    BY <2>1, <1>1, <1>2 DEF AddressSet, AtPort
<1>3. QED
  BY <1>1, <1>2, PortArrives

\* The steps left are steps
LEMMA TodoType ==
    ASSUME TypeOK, Shape', NEW p \in Processes, NEW t, todo' = [todo EXCEPT ![p] = t]
    PROVE  todo' \in [Processes -> Seq(Step)]
<1>1. todo \in [Processes -> Seq(Step)]
  BY DEF TypeOK
<1>2. todo'[p] = t /\ Shaped(driver', todo'[p], call'[p].op, p \in opened')
  BY <1>1 DEF Shape
<1>3. t \in Seq(Step)
  BY <1>2 DEF Shaped, Form
<1>4. QED
  BY <1>1, <1>3

\* The type of what a process has read
GotOK(g) == DOMAIN g \subseteq Keys /\ \A k \in DOMAIN g : g[k] \in 0 .. Bound

\* One more value read is well typed
LEMMA GotWith ==
    ASSUME NEW g, GotOK(g), NEW k \in Keys, NEW v \in 0 .. Bound
    PROVE  GotOK(With(g, k, v))
BY DEF GotOK, With

\* The variables stay well typed
LEMMA TypeStep ==
    ASSUME TypeOK, Shape, \A p \in Processes : CallOK(p), AddressSet, Shape', [Next]_vars
    PROVE  TypeOK'
<1> USE BoundsAssumption, SizeAssumption
<1> DEFINE Loads == [n : 0 .. Size, len : 0 .. Size, offset : Nat, sequence : Nat]
<1>1. Bound \in Nat /\ Size \in Nat
  BY DEF Bound
<1>2. CASE UNCHANGED vars
  BY <1>2 DEF vars, dataVars, lockVars, callVars, copyVars, history, TypeOK, Calls, Bound
\* the parts of the type
<1> DEFINE Data == /\ mem \in [Keys -> 0 .. Bound] /\ size_of_msg \in 0 .. Size
                   /\ address \in Registers \union {"none"}
                   /\ readoffset \in Nat /\ completions \in Nat
<1> DEFINE Locks == /\ mutex \subseteq Processes /\ \A p, q \in mutex : p = q
                    /\ readers \subseteq Processes
                    /\ writer \subseteq Processes /\ \A p, q \in writer : p = q
                    /\ sequence \in Nat
<1> DEFINE Files == opened \subseteq Processes /\ call \in [Processes -> Calls]
                    /\ calls \in 0 .. Bound
<1> DEFINE Copies == /\ pos \in [Processes -> 0 .. Size]
                     /\ loaded \in [Processes -> Loads]
                     /\ DOMAIN got = Processes /\ \A p \in Processes : GotOK(got[p])
<1> DEFINE Past == /\ latest \in [mem : [Keys -> 0 .. Bound], size : 0 .. Size]
                   /\ returned \in Nat /\ dirty \in BOOLEAN /\ strayed \in BOOLEAN
                   /\ snapshots \in [Processes -> SUBSET [Keys -> 0 .. Bound]]
                   /\ spoiled \subseteq {"fault", "changed", "lost", "signal", "mixed"}
                   /\ message \in [id : 0 .. Bound, n : 0 .. Size] /\ crossed \subseteq Processes
<1>4. Data /\ Locks /\ Files /\ Copies /\ Past /\ todo \in [Processes -> Seq(Step)]
      /\ driver \in Drivers
  BY DEF TypeOK, GotOK
<1>5. ASSUME driver' = driver, Data', Locks', Files', Copies', Past',
             \/ todo' = todo
             \/ \E p \in Processes : \E t : todo' = [todo EXCEPT ![p] = t]
      PROVE  TypeOK'
  <2>1. todo' \in [Processes -> Seq(Step)]
    BY <1>4, <1>5, TodoType
  <2>2. QED
    BY <1>4, <1>5, <2>1 DEF TypeOK, GotOK
<1>6. ASSUME driver' = driver
      PROVE  /\ UNCHANGED dataVars => Data'
             /\ UNCHANGED lockVars => Locks'
             /\ UNCHANGED callVars => Files'
             /\ UNCHANGED copyVars => Copies'
             /\ UNCHANGED history => Past'
  <2>1. Bound' = Bound /\ Calls' = Calls
    BY <1>6 DEF Bound, Calls
  <2>2. UNCHANGED dataVars => Data'
    BY <1>4, <2>1 DEF dataVars
  <2>3. UNCHANGED lockVars => Locks'
    BY <1>4 DEF lockVars
  <2>4. UNCHANGED callVars => Files'
    BY <1>4, <2>1 DEF callVars
  <2>5. UNCHANGED copyVars => Copies'
    BY <1>4, <2>1 DEF copyVars, GotOK
  <2>6. UNCHANGED history => Past'
    BY <1>4, <2>1 DEF history
  <2>7. QED
    BY <2>2, <2>3, <2>4, <2>5, <2>6
<1>7. ASSUME driver' = driver PROVE Bound' = Bound /\ Calls' = Calls
  BY <1>7 DEF Bound, Calls
<1> HIDE DEF Data, Locks, Files, Copies, Past
\* files
<1>8. ASSUME NEW p \in Processes, Open(p) \/ Poll(p) PROVE TypeOK'
  BY <1>8, <1>5, <1>6 DEF Open, Poll, Done
<1>9. ASSUME NEW p \in Processes, TryLock(p) \/ Capable(p) \/ PortLock(p) \/ PortUnlock(p)
      PROVE  TypeOK'
  <2>1. driver' = driver /\ UNCHANGED <<dataVars, readers, writer, sequence, callVars, copyVars,
                                        history>>
    BY <1>9 DEF TryLock, Capable, PortLock, PortUnlock
  <2>2. mutex' \in {mutex, {p}, mutex \ {p}, {}}
    BY <1>9 DEF TryLock, Capable, PortLock, PortUnlock
  <2>3. Locks'
    BY <1>4, <2>1, <2>2 DEF Locks
  <2>4. \E t : todo' = [todo EXCEPT ![p] = t]
    BY <1>9 DEF TryLock, Capable, PortLock, PortUnlock, Done
  <2>5. QED
    BY <2>1, <2>3, <2>4, <1>5, <1>6
<1>10. ASSUME NEW p \in Processes, Opened(p) \/ Release(p) PROVE TypeOK'
  <2>1. driver' = driver /\ UNCHANGED <<dataVars, readers, writer, sequence, call, calls, copyVars,
                                        history>>
    BY <1>10 DEF Opened, Release, lockVars
  <2>2. opened' \in {opened \union {p}, opened \ {p}} /\ mutex' \in {mutex, mutex \ {p}}
    BY <1>10 DEF Opened, Release, lockVars
  <2>3. Locks'
    BY <1>4, <2>1, <2>2 DEF Locks
  <2>4. Files'
    BY <1>4, <1>7, <2>1, <2>2 DEF Files
  <2>5. todo' = todo \/ \E t : todo' = [todo EXCEPT ![p] = t]
    BY <1>10 DEF Opened, Release, Done
  <2>6. QED
    BY <2>1, <2>3, <2>4, <2>5, <1>5, <1>6
<1>11. ASSUME NEW p \in Processes, Call(p) PROVE TypeOK'
  <2>1. PICK op \in DOMAIN Table[driver].ops, n \in 1 .. Size, buffer \in Buffers,
             reg \in Registers \union {"POLLPRI", "none"} : Enter(p, op, n, buffer, reg)
    BY <1>11, CallsEnter
  <2>2. /\ UNCHANGED <<driver, dataVars, lockVars, opened, copyVars, strayed, latest, returned,
                       spoiled, message, crossed>>
        /\ calls < Bound /\ calls' = calls + 1
        /\ call' = [call EXCEPT ![p] = [op |-> op, n |-> n, id |-> calls', buffer |-> buffer,
                                        reg |-> reg]]
        /\ todo' = [todo EXCEPT ![p] = Table[driver].ops[op] \o S("return")]
    BY <2>1 DEF Enter
  <2>3. op \in Ops
    BY Programs DEF Shape
  <2>4. Files'
    <3>1. calls' \in 0 .. Bound
      BY <1>1, <1>4, <2>2 DEF Files
    <3>2. [op |-> op, n |-> n, id |-> calls', buffer |-> buffer, reg |-> reg] \in Calls
      BY <1>1, <2>3, <3>1 DEF Calls
    <3>3. QED
      BY <3>1, <3>2, <2>2, <1>4, <1>7 DEF Files
  <2>5. Past'
    <3>1. snapshots' = [snapshots EXCEPT ![p] = IF driver \in Locked /\ writer = {} THEN {mem} ELSE {}]
          /\ dirty' \in BOOLEAN
      BY <2>1, <1>4 DEF Enter, Past
    <3>2. mem \in [Keys -> 0 .. Bound]
      BY <1>4 DEF Data
    <3>3. snapshots' \in [Processes -> SUBSET [Keys -> 0 .. Bound]]
      BY <3>1, <3>2, <1>4 DEF Past
    <3>4. QED
      BY <3>1, <3>3, <2>2, <1>4, <1>7 DEF Past
  <2>6. QED
    BY <2>2, <2>4, <2>5, <1>5, <1>6
<1>12. ASSUME NEW p \in Processes, Return(p) \/ Failed(p) PROVE TypeOK'
  <2>1. /\ Leave(p) /\ driver' = driver /\ UNCHANGED <<dataVars, lockVars, opened, calls>>
        /\ call' = [call EXCEPT ![p] = NoCall]
        /\ pos' = [pos EXCEPT ![p] = 0]
        /\ got' = [got EXCEPT ![p] = <<>>]
        /\ loaded' = [loaded EXCEPT ![p] = NothingLoaded]
        /\ snapshots' = [snapshots EXCEPT ![p] = {}]
        /\ crossed' = crossed \ {p} /\ message' = message
    BY <1>12 DEF Return, Failed, Leave
  <2>2. Files'
    <3>1. NoCall \in Calls
      BY <1>1 DEF NoCall, Calls
    <3>2. QED
      BY <3>1, <2>1, <1>4, <1>7 DEF Files
  <2>3. Copies'
    <3>1. NothingLoaded \in Loads /\ 0 \in 0 .. Size
      BY <1>1 DEF NothingLoaded
    <3>2. GotOK(<<>>)
      BY DEF GotOK
    <3>3. \A q \in Processes : GotOK(got'[q])
      BY <3>2, <2>1, <1>4 DEF Copies
    <3>4. pos' \in [Processes -> 0 .. Size] /\ loaded' \in [Processes -> Loads]
          /\ DOMAIN got' = Processes
      BY <3>1, <2>1, <1>4 DEF Copies
    <3>5. QED
      BY <3>3, <3>4, <2>1, <1>7 DEF Copies, GotOK
  <2>4. Past'
    <3>1. snapshots' \in [Processes -> SUBSET [Keys -> 0 .. Bound]]
      BY <2>1, <1>4 DEF Past
    <3>2. UNCHANGED <<dirty, strayed, spoiled>>
      BY <1>12 DEF Return, Failed
    <3>3. call[p].id \in 0 .. Bound /\ call[p].n \in 0 .. Size
      BY <1>4 DEF Files, Calls
    <3>4. latest' \in [mem : [Keys -> 0 .. Bound], size : 0 .. Size]
      <4> DEFINE m == [k \in Keys |-> IF k \in Written(p) THEN call[p].id ELSE latest.mem[k]]
      <4> DEFINE s == IF call[p].op = "write" THEN call[p].n ELSE latest.size
      <4>1. m \in [Keys -> 0 .. Bound] /\ s \in 0 .. Size
        BY <3>3, <1>4 DEF Past
      <4>2. latest' = latest \/ latest' = [mem |-> m, size |-> s]
        BY <1>12 DEF Return, Failed
      <4> HIDE DEF m, s
      <4>3. QED
        BY <4>1, <4>2, <1>4 DEF Past
    <3>5. returned' \in Nat
      <4>1. loaded[p].len \in Nat
        BY <1>4, <1>1 DEF Copies
      <4>2. returned' = returned \/ returned' = returned + loaded[p].len
        BY <1>12 DEF Return, Failed
      <4>3. QED
        BY <4>1, <4>2, <1>4 DEF Past
    <3>6. QED
      BY <3>1, <3>2, <3>4, <3>5, <2>1, <1>4, <1>7 DEF Past
  <2>5. \E t : todo' = [todo EXCEPT ![p] = t]
    BY <2>1 DEF Leave, Done
  <2>6. QED
    BY <2>1, <2>2, <2>3, <2>4, <2>5, <1>5, <1>6
<1>13. ASSUME NEW p \in Processes, Fault(p) \/ Killed(p) PROVE TypeOK'
  <2>1. /\ UNCHANGED <<driver, dataVars, lockVars, callVars, copyVars, dirty, strayed, latest,
                       snapshots, returned, message, crossed>>
        /\ spoiled' \in {spoiled \union {"fault"}, spoiled}
    BY <1>13 DEF Fault, Killed
  <2>2. \E t : todo' = [todo EXCEPT ![p] = t]
    BY <1>13 DEF Fault, Killed
  <2>3. Past'
    BY <2>1, <1>4, <1>7 DEF Past
  <2>4. QED
    BY <2>1, <2>2, <2>3, <1>5, <1>6
\* messages
<1>14. ASSUME NEW p \in Processes, Count(p) \/ LoadOffset(p) \/ SeqBegin(p) PROVE TypeOK'
  <2>1. UNCHANGED <<driver, dataVars, lockVars, callVars, pos, got, history>>
    BY <1>14 DEF Count, LoadOffset, SeqBegin
  <2>2. loaded' \in [Processes -> Loads]
    <3>1. CASE Count(p)
      BY <3>1, <1>4 DEF Count, Copies, Data
    <3>2. CASE LoadOffset(p)
      BY <3>2, <1>4 DEF LoadOffset, Copies, Data
    <3>3. CASE SeqBegin(p)
      BY <3>3, <1>4 DEF SeqBegin, Copies, Locks
    <3>4. QED
      BY <3>1, <3>2, <3>3, <1>14
  <2>3. Copies'
    BY <2>1, <2>2, <1>4, <1>7 DEF Copies, GotOK
  <2>4. QED
    BY <2>1, <2>3, <1>14, <1>5, <1>6 DEF Count, LoadOffset, SeqBegin, Done
<1>15. ASSUME NEW p \in Processes, CopyOut(p) \/ CopyIn(p) PROVE TypeOK'
  <2>1. UNCHANGED <<driver, size_of_msg, readoffset, completions, address, lockVars, callVars,
                    loaded, dirty, strayed, latest, snapshots, returned, spoiled, crossed>>
    BY <1>15 DEF CopyOut, CopyIn, dataVars, history
  <2>2. todo' = todo \/ \E t : todo' = [todo EXCEPT ![p] = t]
    BY <1>15 DEF CopyOut, CopyIn, Done
  <2>3. loaded[p].n \in 0 .. Size /\ pos[p] \in 0 .. Size
    BY <1>4 DEF Copies
  <2>4. pos[p] < loaded[p].n => pos[p] + 1 \in 1 .. Size
    BY <2>3
  <2>5. call[p].op # "none" /\ CallOK(p)
    <3>1. todo[p] # <<>> /\ Head(todo[p]).do \notin OpeningDos
      BY <1>15 DEF CopyOut, CopyIn, Doing, OpeningDos
    <3>2. QED
      BY <3>1, AtWork
  <2>6. pos[p] < loaded[p].n => CellAt(p, pos[p] + 1) \in Keys
    BY <2>4, <2>5, CellKey
  <2>7. pos' \in [Processes -> 0 .. Size]
    <3>1. pos[p] < loaded[p].n => pos[p] + 1 \in 0 .. Size
      BY <2>3
    <3>2. \/ pos' = pos
          \/ pos[p] < loaded[p].n /\ pos' = [pos EXCEPT ![p] = pos[p] + 1]
      <4>1. CASE CopyOut(p)
        BY <4>1 DEF CopyOut
      <4>2. CASE CopyIn(p)
        BY <4>2 DEF CopyIn
      <4>3. QED
        BY <4>1, <4>2, <1>15
    <3>3. QED
      BY <3>1, <3>2, <1>4 DEF Copies
  <2>8. CASE CopyOut(p)
    <3>1. UNCHANGED mem /\ \/ got' = got
                           \/ /\ pos[p] < loaded[p].n
                              /\ got' = [got EXCEPT ![p] = With(@, CellAt(p, pos[p] + 1),
                                                                mem[CellAt(p, pos[p] + 1)])]
      BY <2>8 DEF CopyOut, dataVars
    <3>2. pos[p] < loaded[p].n => mem[CellAt(p, pos[p] + 1)] \in 0 .. Bound
      BY <2>6, <1>4 DEF Data
    <3>3. pos[p] < loaded[p].n
          => GotOK(With(got[p], CellAt(p, pos[p] + 1), mem[CellAt(p, pos[p] + 1)]))
      BY <3>2, <2>6, <1>4, GotWith DEF Copies
    <3>4. DOMAIN got' = Processes /\ \A q \in Processes : GotOK(got'[q])
      BY <3>1, <3>3, <1>4 DEF Copies
    <3>5. Copies'
      BY <3>4, <2>1, <2>7, <1>4, <1>7 DEF Copies, GotOK
    <3>6. Data'
      BY <2>1, <3>1, <1>4, <1>7 DEF Data
    <3>7. UNCHANGED history
      BY <2>8 DEF CopyOut
    <3>8. QED
      BY <3>5, <3>6, <3>7, <2>1, <2>2, <1>5, <1>6
  <2>9. CASE CopyIn(p)
    <3>1. call[p].id \in 0 .. Bound
      BY <1>4 DEF Files, Calls
    <3>2. mem' \in [Keys -> 0 .. Bound]
      BY <2>9, <3>1, <1>4 DEF CopyIn, Data
    <3>3. Data'
      BY <3>2, <2>1, <1>4, <1>7 DEF Data
    <3>4. got' = got
      BY <2>9 DEF CopyIn
    <3>5. Copies'
      BY <3>4, <2>1, <2>7, <1>4, <1>7 DEF Copies, GotOK
    <3>6. message' \in [id : 0 .. Bound, n : 0 .. Size]
      <4>1. call[p].n \in 0 .. Size
        BY <1>4 DEF Files, Calls
      <4>2. message' \in {message, [id |-> call[p].id, n |-> call[p].n]}
        BY <2>9 DEF CopyIn
      <4>3. QED
        BY <4>1, <4>2, <3>1, <1>4 DEF Past
    <3>7. Past'
      BY <3>6, <2>1, <1>4, <1>7 DEF Past
    <3>8. QED
      BY <3>3, <3>5, <3>7, <2>1, <2>2, <1>5, <1>6
  <2>10. QED
    BY <2>8, <2>9, <1>15
<1>16. ASSUME NEW p \in Processes, SetSize(p) \/ Forget(p) \/ StoreOffset(p) \/ Await(p)
                                   \/ Complete(p) \/ Clear(p) \/ Fill(p)
       PROVE  TypeOK'
  <2>1. UNCHANGED <<driver, address, lockVars, callVars, pos, got, dirty, strayed, latest,
                    snapshots, returned, message>>
    BY <1>16 DEF SetSize, Forget, StoreOffset, Await, Complete, Clear, Fill, history, copyVars
  <2>2. \E t : todo' = [todo EXCEPT ![p] = t]
    BY <1>16 DEF SetSize, Forget, StoreOffset, Await, Complete, Clear, Fill, Done
  <2>3. spoiled' \subseteq spoiled \union {"changed", "lost", "signal", "mixed"}
        /\ crossed' \subseteq crossed \union Processes
    <3>1. CASE SetSize(p)
      BY <3>1 DEF SetSize
    <3>2. CASE Forget(p) \/ Complete(p) \/ Clear(p) \/ Fill(p)
      BY <3>2 DEF Forget, Complete, Clear, Fill, history
    <3>3. CASE StoreOffset(p) \/ Await(p)
      BY <3>3 DEF StoreOffset, Await
    <3>4. QED
      BY <3>1, <3>2, <3>3, <1>16
  <2>4. Past'
    BY <2>1, <2>3, <1>4, <1>7 DEF Past
  <2>5. call[p].id \in 0 .. Bound /\ call[p].n \in 0 .. Size /\ loaded[p].offset \in Nat
    BY <1>4 DEF Files, Calls, Copies
  <2>6. mem' \in [Keys -> 0 .. Bound] /\ size_of_msg' \in 0 .. Size /\ readoffset' \in Nat
        /\ completions' \in Nat
    <3>1. CASE SetSize(p) \/ Forget(p)
      BY <3>1, <2>5, <1>1, <1>4 DEF SetSize, Forget, Data
    <3>2. CASE StoreOffset(p)
      BY <3>2, <2>5, <1>1, <1>4 DEF StoreOffset, Data
    <3>3. CASE Await(p) \/ Complete(p)
      BY <3>3, <1>4 DEF Await, Complete, Data
    <3>4. CASE Clear(p) \/ Fill(p)
      <4>1. UNCHANGED <<size_of_msg, readoffset, completions>>
        BY <3>4 DEF Clear, Fill
      <4>2. \A k \in Keys : mem[k] \in 0 .. Bound /\ 0 \in 0 .. Bound
        BY <1>1, <1>4 DEF Data
      <4>3. Clear(p) => mem' \in [Keys -> 0 .. Bound]
        BY <4>2 DEF Clear
      <4>4. Fill(p) => mem' \in [Keys -> 0 .. Bound]
        BY <4>2, <2>5 DEF Fill
      <4>5. QED
        BY <3>4, <4>1, <4>3, <4>4, <1>4 DEF Data
    <3>5. QED
      BY <3>1, <3>2, <3>3, <3>4, <1>16
  <2>7. Data'
    BY <2>1, <2>6, <1>4, <1>7 DEF Data
  <2>8. Copies'
    <3>1. loaded' = loaded \/ loaded' = [loaded EXCEPT ![p].len = size_of_msg]
      BY <1>16 DEF SetSize, Forget, StoreOffset, Await, Complete, Clear, Fill, copyVars
    <3>2. size_of_msg \in 0 .. Size
      BY <1>4 DEF Data
    <3>3. loaded' \in [Processes -> Loads]
      BY <3>1, <3>2, <1>4 DEF Copies
    <3>4. QED
      BY <3>3, <2>1, <1>4, <1>7 DEF Copies, GotOK
  <2>9. QED
    BY <2>1, <2>2, <2>4, <2>7, <2>8, <1>5, <1>6
\* locks
<1>17. ASSUME NEW p \in Processes, ReadLock(p) \/ ReadUnlock(p) \/ WriteLock(p) PROVE TypeOK'
  <2>1. UNCHANGED <<driver, dataVars, mutex, callVars, copyVars, history>>
    BY <1>17 DEF ReadLock, ReadUnlock, WriteLock
  <2>2. /\ readers' \in {readers, readers \union {p}, readers \ {p}} /\ writer' \in {writer, {p}}
        /\ sequence' \in {sequence, sequence + 1}
    BY <1>17 DEF ReadLock, ReadUnlock, WriteLock
  <2>3. Locks'
    BY <2>1, <2>2, <1>4 DEF Locks
  <2>4. \E t : todo' = [todo EXCEPT ![p] = t]
    BY <1>17 DEF ReadLock, ReadUnlock, WriteLock, Done
  <2>5. QED
    BY <2>1, <2>3, <2>4, <1>5, <1>6
<1>18. ASSUME NEW p \in Processes, WriteUnlock(p) PROVE TypeOK'
  <2>1. /\ UNCHANGED <<driver, dataVars, mutex, readers, callVars, copyVars, dirty, strayed, latest,
                       returned, spoiled, message, crossed>>
        /\ writer' = {} /\ sequence' = sequence + 1
        /\ snapshots' = [q \in Processes |-> IF InCall(q) /\ Reading(call[q].op)
                                             THEN snapshots[q] \union {mem} ELSE snapshots[q]]
    BY <1>18 DEF WriteUnlock
  <2>2. Locks'
    BY <2>1, <1>4 DEF Locks
  <2>3. snapshots' \in [Processes -> SUBSET [Keys -> 0 .. Bound]]
    <3>1. mem \in [Keys -> 0 .. Bound]
      BY <1>4 DEF Data
    <3>2. QED
      BY <2>1, <3>1, <1>4 DEF Past
  <2>4. Past'
    BY <2>1, <2>3, <1>4, <1>7 DEF Past
  <2>5. \E t : todo' = [todo EXCEPT ![p] = t]
    BY <1>18 DEF WriteUnlock, Done
  <2>6. QED
    BY <2>1, <2>2, <2>4, <2>5, <1>5, <1>6
<1>19. ASSUME NEW p \in Processes, SeqRetry(p) PROVE TypeOK'
  <2>1. UNCHANGED <<driver, dataVars, lockVars, callVars, loaded, dirty, strayed, latest,
                    snapshots, spoiled, message, crossed>>
    BY <1>19 DEF SeqRetry
  <2>2. returned' \in Nat
    <3>1. returned' \in {returned, returned + loaded[p].len} /\ loaded[p].len \in Nat
      BY <1>19, <1>4, <1>1 DEF SeqRetry, Copies
    <3>2. QED
      BY <3>1, <1>4 DEF Past
  <2>3. Past'
    BY <2>1, <2>2, <1>4, <1>7 DEF Past
  <2>4. Copies'
    <3>1. GotOK(<<>>)
      BY DEF GotOK
    <3>2. /\ pos' = pos \/ pos' = [pos EXCEPT ![p] = 0]
          /\ got' = got \/ got' = [got EXCEPT ![p] = <<>>]
      BY <1>19 DEF SeqRetry
    <3>4. pos' \in [Processes -> 0 .. Size] /\ DOMAIN got' = Processes
      <4>1. 0 \in 0 .. Size
        BY <1>1
      <4>2. pos' \in [Processes -> 0 .. Size]
        BY <3>2, <4>1, <1>4 DEF Copies
      <4>3. DOMAIN got' = Processes
        BY <3>2, <1>4 DEF Copies
      <4>4. QED
        BY <4>2, <4>3
    <3>5. \A q \in Processes : GotOK(got'[q])
      BY <3>1, <3>2, <1>4 DEF Copies
    <3>3. QED
      BY <3>4, <3>5, <2>1, <1>4, <1>7 DEF Copies, GotOK
  <2>5. \E t : todo' = [todo EXCEPT ![p] = t]
    BY <1>19 DEF SeqRetry, Done
  <2>6. QED
    BY <2>1, <2>3, <2>4, <2>5, <1>5, <1>6
\* ports
<1>20. ASSUME NEW p \in Processes, Address(p) PROVE TypeOK'
  <2>1. /\ UNCHANGED <<driver, mem, size_of_msg, readoffset, completions, lockVars, callVars,
                       copyVars, history>>
        /\ address' = Key(p)[1] /\ todo[p] # <<>> /\ Head(todo[p]).do = "address"
        /\ todo' = [todo EXCEPT ![p] = Tail(todo[p])]
    BY <1>20 DEF Address, Doing, Done
  <2>2. address' \in Registers
    BY <2>1, PortKey
  <2>3. Data'
    BY <2>1, <2>2, <1>4, <1>7 DEF Data
  <2>4. QED
    BY <2>1, <2>3, <1>5, <1>6
<1>21. ASSUME NEW p \in Processes, Get(p) \/ GetValue(p) PROVE TypeOK'
  <2>1. /\ UNCHANGED <<driver, dataVars, lockVars, callVars, pos, loaded, dirty, latest, snapshots,
                       returned, spoiled, message, crossed>>
        /\ todo' = [todo EXCEPT ![p] = Tail(todo[p])] /\ todo[p] # <<>>
        /\ Head(todo[p]).do \in {"get", "getvalue"}
    BY <1>21 DEF Get, GetValue, Doing, Done, history
  <2>2. strayed' \in BOOLEAN
    BY <1>21, <1>4 DEF Get, GetValue, history, Past
  <2>3. Key(p) \in Keys
    BY <2>1, PortKey
  <2>4. Get(p) => <<address, 0>> \in Keys
    <3>1. Get(p) => address \in Registers
      BY <2>1 DEF AddressSet, Get, Doing
    <3>2. QED
      BY <3>1 DEF Keys
  <2>5. \E v \in 0 .. Bound : got' = [got EXCEPT ![p] = With(@, Key(p), v)]
    <3>1. CASE Get(p)
      <4>1. mem[<<address, 0>>] \in 0 .. Bound
        BY <3>1, <2>4, <1>4 DEF Data
      <4>2. QED
        BY <3>1, <4>1 DEF Get
    <3>2. CASE GetValue(p)
      <4>1. mem[Key(p)] \in 0 .. Bound
        BY <2>3, <1>4 DEF Data
      <4>2. QED
        BY <3>2, <4>1 DEF GetValue
    <3>3. QED
      BY <3>1, <3>2, <1>21
  <2>6. DOMAIN got' = Processes /\ \A q \in Processes : GotOK(got'[q])
    BY <2>3, <2>5, <1>4, GotWith DEF Copies
  <2>7. Copies'
    BY <2>1, <2>6, <1>4, <1>7 DEF Copies, GotOK
  <2>8. Past'
    BY <2>1, <2>2, <1>4, <1>7 DEF Past
  <2>9. QED
    BY <2>1, <2>7, <2>8, <1>5, <1>6
<1>22. ASSUME NEW p \in Processes, Set(p) \/ SetValue(p) PROVE TypeOK'
  <2>1. /\ UNCHANGED <<driver, size_of_msg, readoffset, completions, address, lockVars, callVars,
                       copyVars, dirty, latest, snapshots, returned, spoiled, message, crossed>>
        /\ todo' = [todo EXCEPT ![p] = Tail(todo[p])]
    BY <1>22 DEF Set, SetValue, Done, history
  <2>2. strayed' \in BOOLEAN
    BY <1>22, <1>4 DEF Set, SetValue, history, Past
  <2>3. call[p].id \in 0 .. Bound
    BY <1>4 DEF Files, Calls
  <2>4. mem' \in [Keys -> 0 .. Bound]
    BY <1>22, <2>3, <1>4 DEF Set, SetValue, Data
  <2>5. Data'
    BY <2>1, <2>4, <1>4, <1>7 DEF Data
  <2>6. Past'
    BY <2>1, <2>2, <1>4, <1>7 DEF Past
  <2>7. QED
    BY <2>1, <2>5, <2>6, <1>5, <1>6
<1>23. CASE Next
  BY <1>23, <1>8, <1>9, <1>10, <1>11, <1>12, <1>13, <1>14, <1>15, <1>16, <1>17, <1>18, <1>19,
     <1>20, <1>21, <1>22 DEF Next
<1>24. QED
  BY <1>2, <1>23

\* The types hold in every reachable state of every driver: the copies stay
\* within the buffer, an access goes to a register, the steps that a process
\* has left are those of its program.
THEOREM TypeCorrect == Spec => []TypeOK
<1>1. Init => TypeInv
  BY ShapeInit, TypeInit DEF TypeInv
<1>2. TypeInv /\ [Next]_vars => TypeInv'
  <2> SUFFICES ASSUME TypeInv, [Next]_vars PROVE TypeInv'
    OBVIOUS
  <2>1. Shape'
    BY ShapeStep DEF TypeInv
  <2>2. TypeOK' /\ AddressSet' /\ \A p \in Processes : CallOK(p)'
    BY <2>1, TypeStep, AddressStep, CallsStep DEF TypeInv
  <2>3. QED
    BY <2>1, <2>2 DEF TypeInv
<1>3. TypeInv => TypeOK
  BY DEF TypeInv
<1>4. QED
  BY <1>1, <1>2, <1>3, PTL DEF Spec

-----------------------------------------------------------------------------
(* Exclusion.                                                              *)

\* Where a process holds the lock of the open, and where that of a register
Holds(p) ==
    p \in opened \/ (todo[p] # <<>> /\ call[p].op = "none" /\ "trylock" \notin Dos(todo[p]))
Inside(p) ==
    todo[p] # <<>> /\ Head(todo[p]).do \in {"address", "get", "set", "unmutex"}

Exclusive ==
    /\ driver \in Alone => \A p \in Processes : p \in mutex <=> Holds(p)
    /\ driver \in Mutexed => \A p \in Processes : p \in mutex <=> Inside(p)

\* No access of a register that another process has chosen
Chosen ==
    driver \notin BareSysfs => \A p \in Processes : AtPort(p) => address = Key(p)[1]

\* A mutex is taken by the drivers that have one for the ports
LEMMA MutexSteps ==
    ASSUME Shape, NEW p \in Processes, todo[p] # <<>>, Head(todo[p]).do \in {"mutex", "unmutex"}
    PROVE  driver \in Mutexed
<1> DEFINE op == call[p].op
<1> DEFINE h == Head(todo[p]).do
<1>1. driver \in DOMAIN Table /\ Form(driver, todo[p])
  BY DEF Shape, Shaped
<1>2. h \notin OpeningDos \union Unlocks \union {"failed"}
  BY DEF OpeningDos, Unlocks
<1>3. Calling(driver, todo[p], op, TRUE) /\ op \in DOMAIN Table[driver].ops
  BY <1>2, AtWork
<1>4. h \in Dos(todo[p])
  BY <1>1, HeadDos
<1>5. h \in Dos(Prog(driver, op))
  BY <1>3, <1>4 DEF Calling, Dos
<1>6. driver \notin Messages
  <2> SUFFICES ASSUME driver \in Messages PROVE FALSE
    OBVIOUS
  <2>1. Plain(Prog(driver, op))
    BY <1>1, <1>3, MessagePrograms DEF Runs, Prog
  <2>2. QED
    BY <2>1, <1>5 DEF Plain, PortSteps
<1>7. h \in RegisterDos(driver, op)
  BY <1>1, <1>3, <1>5, <1>6, Programs
<1>8. QED
  BY <1>7 DEF RegisterDos, When

\* An opening is an opening of a driver that one process at a time may open
LEMMA OpeningSteps ==
    ASSUME Shape, NEW p \in Processes, todo[p] # <<>>, Head(todo[p]).do \in OpeningDos
    PROVE  /\ driver \in Alone /\ p \notin opened /\ call[p].op = "none"
           /\ Dos(todo[p]) \subseteq OpeningDos /\ "opened" \in Dos(todo[p])
<1> DEFINE open == p \in opened
<1> DEFINE op == call[p].op
<1>1. driver \in DOMAIN Table /\ Shaped(driver, todo[p], op, open)
  BY DEF Shape
<1> HIDE DEF open, op
<1>2. Opening(driver, todo[p], op, open)
  BY <1>1, ShapedCalls
<1>3. QED
  BY <1>2 DEF Opening, open, op

\* Which calls have which steps
LEMMA StepOwners ==
    ASSUME NEW d \in DOMAIN Table, NEW op \in DOMAIN Table[d].ops, NEW a \in Dos(Prog(d, op)),
           a \notin PortSteps \union {"getvalue", "setvalue", "return"}
    PROVE  /\ d \in Messages /\ a \in MessageDos(d, op) /\ op \in {"read", "write", "fill", "poll"}
           /\ a \in {"rlock", "runlock"} => d = "chardrv_lock" /\ op = "read"
           /\ a \in {"wlock", "wunlock"} => d \in Locked /\ op = "write"
           /\ a \in {"seqbegin", "seqretry"} => d = "chardrv_seqlock" /\ op = "read"
           /\ a \in {"load", "add"} => d \in Offsets /\ op = "read"
           /\ a = "await" => d = "chardev_sync" /\ op = "read"
           /\ a = "complete" => d = "chardev_sync" /\ op = "write"
           /\ a \in {"clear", "forget"} => d \in Alone
           /\ a = "out" => op = "read"
           /\ a = "in" => op = "write"
           /\ a = "count" => op \in {"read", "write"}
           /\ a = "size" => op = "write" \/ (op = "read" /\ d \in Lengths)
           /\ a = "fill" => op = "fill"
           /\ a = "clear" => op = "write"
<1>1. d \in Messages
  <2> SUFFICES ASSUME d \notin Messages PROVE FALSE
    OBVIOUS
  <2>1. a \in RegisterDos(d, op)
    BY Programs
  <2>2. QED
    BY <2>1 DEF RegisterDos, When, PortSteps
<1>2. op \in MessageOps(d) /\ a \in MessageDos(d, op)
  BY <1>1, Programs
<1>3. op \in {"read", "write", "fill", "poll"}
  BY <1>2 DEF MessageOps, When
<1>4. CASE op = "read"
  <2>1. /\ a \in {"count", "out", "size", "forget", "await", "load", "add", "rlock", "runlock",
                  "seqbegin", "seqretry"}
        /\ a = "size" => d \in Lengths
        /\ a = "forget" => d \in Alone
        /\ a = "await" => d = "chardev_sync"
        /\ a \in {"load", "add"} => d \in Offsets
        /\ a \in {"rlock", "runlock"} => d = "chardrv_lock"
        /\ a \in {"seqbegin", "seqretry"} => d = "chardrv_seqlock"
    BY <1>2, <1>4 DEF MessageDos, When
  <2>2. QED
    BY <1>1, <1>2, <1>3, <1>4, <2>1
<1>5. CASE op = "write"
  <2>1. /\ a \in {"size", "count", "in", "clear", "forget", "complete", "wlock", "wunlock"}
        /\ a \in {"clear", "forget"} => d \in Alone
        /\ a = "complete" => d = "chardev_sync"
        /\ a \in {"wlock", "wunlock"} => d \in Locked
    BY <1>2, <1>5 DEF MessageDos, When
  <2>2. QED
    BY <1>1, <1>2, <1>3, <1>5, <2>1
<1>6. CASE op \in {"fill", "poll"}
  BY <1>1, <1>2, <1>3, <1>6, FamilyDos
<1>7. QED
  BY <1>3, <1>4, <1>5, <1>6

\* A process in a call is at a step of its program, unless the call is failing
LEMMA OwnStep ==
    ASSUME Shape, NEW p \in Processes, todo[p] # <<>>,
           Head(todo[p]).do \notin OpeningDos \union {"failed"}
    PROVE  /\ driver \in DOMAIN Table /\ call[p].op \in DOMAIN Table[driver].ops
           /\ Head(todo[p]).do \in Dos(Prog(driver, call[p].op))
<1> DEFINE open == p \in opened
<1> DEFINE op == call[p].op
<1> DEFINE h == Head(todo[p]).do
<1>1. driver \in DOMAIN Table /\ Shaped(driver, todo[p], op, open) /\ Form(driver, todo[p])
  BY DEF Shape, Shaped
<1> HIDE DEF open
<1>2. op \in DOMAIN Table[driver].ops /\ h \in Dos(todo[p])
  BY <1>1, AtWork, HeadDos
<1>3. ~Opening(driver, todo[p], op, open)
  BY <1>2 DEF Opening
<1>4. Calling(driver, todo[p], op, open) \/ Failing(driver, todo[p], op, open)
  BY <1>1, <1>3 DEF Shaped
<1>5. h \in Dos(Prog(driver, op))
  <2>1. CASE Calling(driver, todo[p], op, open)
    BY <1>2, <2>1 DEF Calling, Dos
  <2>2. CASE Failing(driver, todo[p], op, open)
    BY <1>2, <2>2 DEF Failing
  <2>3. QED
    BY <1>4, <2>1, <2>2
<1>6. QED
  BY <1>1, <1>2, <1>5

\* Only the seqlock driver begins a read again
LEMMA RetryLocked ==
    ASSUME Shape, NEW p \in Processes, todo[p] # <<>>, Head(todo[p]).do = "seqretry"
    PROVE  driver = "chardrv_seqlock" /\ driver \in Messages /\ call[p].op = "read"
<1> DEFINE h == Head(todo[p]).do
<1>1. h \notin OpeningDos \union {"failed"} /\ h \notin PortSteps \union {"getvalue", "setvalue", "return"}
  BY DEF OpeningDos, PortSteps
<1>2. driver \in DOMAIN Table /\ call[p].op \in DOMAIN Table[driver].ops
      /\ h \in Dos(Prog(driver, call[p].op))
  BY <1>1, OwnStep
<1>3. h \in {"seqbegin", "seqretry"}
  OBVIOUS
<1> HIDE DEF h
<1>4. QED
  BY <1>1, <1>2, <1>3, StepOwners

\* The drivers that one process at a time may open: the lock of the open
LEMMA AloneStep ==
    ASSUME TypeOK, Shape, Exclusive, [Next]_vars, driver \in Alone
    PROVE  \A p \in Processes : (p \in mutex <=> Holds(p))'
<1> DEFINE Inv == \A p \in Processes : p \in mutex <=> Holds(p)
<1>1. /\ Inv /\ todo \in [Processes -> Seq(Step)] /\ call \in [Processes -> Calls]
      /\ driver \in DOMAIN Table /\ driver \notin Mutexed
      /\ \A p, q \in mutex : p = q
  BY DEF Exclusive, TypeOK, Shape, Alone, Mutexed
<1>2. ASSUME UNCHANGED <<mutex, opened, todo, call>> PROVE Inv'
  BY <1>1, <1>2 DEF Holds
<1>3. ASSUME NEW p \in Processes, UNCHANGED <<mutex, opened>>, p \in opened,
             \A q \in Processes \ {p} : todo'[q] = todo[q] /\ call'[q] = call[q]
      PROVE  Inv'
  BY <1>1, <1>3 DEF Holds
<1>4. ASSUME NEW p \in Processes, todo[p] # <<>>, Head(todo[p]).do \notin OpeningDos
      PROVE  p \in opened
  BY <1>4, AtWork
<1>5. ASSUME NEW p \in Processes, Advances(p), Head(todo[p]).do \notin OpeningDos,
             UNCHANGED mutex
      PROVE  Inv'
  <2>1. todo[p] # <<>>
    BY <1>5 DEF Advances
  <2>2. p \in opened /\ UNCHANGED <<mutex, opened, call>>
        /\ \A q \in Processes \ {p} : todo'[q] = todo[q]
    BY <2>1, <1>4, <1>5, Advance
  <2>3. QED
    BY <2>2, <1>3
<1>6. ASSUME NEW p \in Processes, Stays, UNCHANGED mutex PROVE Inv'
  BY <1>6, <1>2 DEF Stays, callVars
<1>7. ASSUME NEW p \in Processes, TryLock(p) PROVE Inv'
  <2>1. todo[p] # <<>> /\ Head(todo[p]).do = "trylock" /\ UNCHANGED <<opened, call>>
    BY <1>7 DEF TryLock, Doing, callVars
  <2>2. p \notin opened /\ call[p].op = "none"
    BY <2>1, OpeningSteps DEF OpeningDos
  <2>3. "trylock" \in Dos(todo[p])
    BY <2>1, HeadDos DEF Shape, Shaped
  <2>4. p \notin mutex
    BY <2>2, <2>3, <1>1 DEF Holds
  <2>5. CASE mutex = {}
    <3>1. mutex' = {p} /\ Advances(p)
      BY <2>1, <2>5, <1>7 DEF TryLock, Advances
    <3>2. todo'[p] # <<>> /\ (\A q \in Processes \ {p} : todo'[q] = todo[q])
          /\ \A e \in Dos(todo'[p]) : Earlier("trylock", e)
      BY <3>1, <2>1, Advance
    <3>3. "trylock" \notin Dos(todo'[p])
      BY <3>2 DEF Earlier, Rank, PortSteps
    <3>4. Holds(p)'
      BY <2>1, <2>2, <3>2, <3>3 DEF Holds
    <3>5. ASSUME NEW q \in Processes \ {p} PROVE q \notin mutex' /\ ~Holds(q)'
      BY <3>1, <3>2, <2>1, <2>5, <1>1 DEF Holds
    <3>6. QED
      BY <3>1, <3>4, <3>5
  <2>6. CASE mutex # {}
    <3>1. mutex' = mutex /\ todo' = [todo EXCEPT ![p] = <<>>]
      BY <2>6, <1>7 DEF TryLock
    <3>2. todo'[p] = <<>> /\ \A q \in Processes \ {p} : todo'[q] = todo[q]
      BY <3>1, <1>1
    <3>3. p \notin mutex' /\ ~Holds(p)'
      BY <3>1, <3>2, <2>1, <2>2, <2>4 DEF Holds
    <3>4. ASSUME NEW q \in Processes \ {p} PROVE (q \in mutex <=> Holds(q))'
      BY <3>1, <3>2, <2>1, <1>1 DEF Holds
    <3>5. QED
      BY <3>3, <3>4
  <2>7. QED
    BY <2>5, <2>6
<1>8. ASSUME NEW p \in Processes, Capable(p) PROVE Inv'
  <2>1. todo[p] # <<>> /\ Head(todo[p]).do = "capable" /\ UNCHANGED <<opened, call>>
    BY <1>8 DEF Capable, Doing, callVars
  <2>2. p \notin opened /\ call[p].op = "none"
    BY <2>1, OpeningSteps DEF OpeningDos
  <2>3. "trylock" \notin Dos(todo[p])
    <3>1. Form(driver, todo[p])
      BY DEF Shape, Shaped
    <3>2. /\ Dos(todo[p]) = {Head(todo[p]).do} \union Dos(Tail(todo[p]))
          /\ \A e \in Dos(Tail(todo[p])) : Earlier(Head(todo[p]).do, e)
      BY <2>1, <3>1, TailForm
    <3>3. ~Earlier("capable", "trylock")
      BY DEF Earlier, Rank, PortSteps
    <3>4. QED
      BY <2>1, <3>2, <3>3
  <2>4. p \in mutex
    BY <2>1, <2>2, <2>3, <1>1 DEF Holds
  <2>5. CASE Done(p) /\ mutex' = mutex
    <3>1. Advances(p)
      BY <2>1, <2>5, <1>8 DEF Capable, Advances
    <3>2. todo'[p] # <<>> /\ (\A q \in Processes \ {p} : todo'[q] = todo[q])
          /\ Dos(todo'[p]) \subseteq Dos(todo[p])
      BY <3>1, Advance
    <3>3. Holds(p)'
      BY <2>1, <2>2, <2>3, <3>2 DEF Holds
    <3>4. ASSUME NEW q \in Processes \ {p} PROVE (q \in mutex <=> Holds(q))'
      BY <3>2, <2>1, <2>5, <1>1 DEF Holds
    <3>5. QED
      BY <2>4, <2>5, <3>3, <3>4
  <2>6. CASE todo' = [todo EXCEPT ![p] = <<>>] /\ mutex' = mutex \ {p}
    <3>1. todo'[p] = <<>> /\ \A q \in Processes \ {p} : todo'[q] = todo[q]
      BY <2>6, <1>1
    <3>2. p \notin mutex' /\ ~Holds(p)'
      BY <2>6, <3>1, <2>1, <2>2 DEF Holds
    <3>3. ASSUME NEW q \in Processes \ {p} PROVE (q \in mutex <=> Holds(q))'
      BY <2>6, <3>1, <2>1, <1>1 DEF Holds
    <3>4. QED
      BY <3>2, <3>3
  <2>7. QED
    BY <2>5, <2>6, <1>8 DEF Capable
<1>9. ASSUME NEW p \in Processes, Open(p) PROVE Inv'
  <2> DEFINE t == Table[driver].open \o S("opened")
  <2>1. p \notin opened /\ todo[p] = <<>> /\ todo' = [todo EXCEPT ![p] = t]
        /\ UNCHANGED <<mutex, opened, call>>
    BY <1>9 DEF Open, lockVars, callVars
  <2>2. "trylock" \in Dos(t)
    BY <1>1, Openings
  <2> HIDE DEF t
  <2>3. "trylock" \in Dos(todo'[p]) /\ \A q \in Processes \ {p} : todo'[q] = todo[q]
    BY <2>1, <2>2, <1>1
  <2>4. p \notin mutex' /\ ~Holds(p)'
    BY <2>1, <2>3, <1>1 DEF Holds
  <2>5. ASSUME NEW q \in Processes \ {p} PROVE (q \in mutex <=> Holds(q))'
    BY <2>1, <2>3, <1>1 DEF Holds
  <2>6. QED
    BY <2>4, <2>5
<1>10. ASSUME NEW p \in Processes, Opened(p) PROVE Inv'
  <2>1. todo[p] # <<>> /\ Head(todo[p]).do = "opened" /\ opened' = opened \union {p}
        /\ todo' = [todo EXCEPT ![p] = Tail(todo[p])] /\ UNCHANGED <<mutex, call>>
    BY <1>10 DEF Opened, Doing, Done, lockVars
  <2>2. p \notin opened /\ call[p].op = "none" /\ Dos(todo[p]) \subseteq OpeningDos
    BY <2>1, OpeningSteps DEF OpeningDos
  <2>3. Dos(todo[p]) = {"opened"}
    <3>1. Form(driver, todo[p])
      BY DEF Shape, Shaped
    <3>2. Tail(todo[p]) = <<>> /\ Dos(todo[p]) = {"opened"} \union Dos(Tail(todo[p]))
      BY <2>1, <2>2, <3>1, LastStep, TailForm
    <3>3. QED
      BY <3>2, EmptyDos
  <2>4. p \in mutex
    BY <2>1, <2>2, <2>3, <1>1 DEF Holds
  <2>5. \A q \in Processes \ {p} : todo'[q] = todo[q]
    BY <2>1, <1>1
  <2>6. ASSUME NEW q \in Processes \ {p} PROVE (q \in mutex <=> Holds(q))'
    BY <2>1, <2>5, <1>1 DEF Holds
  <2>7. Holds(p)'
    BY <2>1 DEF Holds
  <2>8. QED
    BY <2>1, <2>4, <2>6, <2>7
<1>11. ASSUME NEW p \in Processes, Release(p) PROVE Inv'
  <2>1. todo[p] = <<>> /\ opened' = opened \ {p} /\ mutex' = mutex \ {p}
        /\ UNCHANGED <<todo, call>>
    BY <1>11 DEF Release
  <2>2. p \notin mutex' /\ ~Holds(p)'
    BY <2>1 DEF Holds
  <2>3. ASSUME NEW q \in Processes \ {p} PROVE (q \in mutex <=> Holds(q))'
    BY <2>1, <1>1 DEF Holds
  <2>4. QED
    BY <2>2, <2>3
<1>12. ASSUME NEW p \in Processes, Call(p) PROVE Inv'
  <2>1. PICK op \in DOMAIN Table[driver].ops : \E n, buffer, reg : Enter(p, op, n, buffer, reg)
    BY <1>12 DEF Call
  <2>2. /\ p \in opened /\ UNCHANGED <<mutex, opened>>
        /\ \A q \in Processes \ {p} : todo'[q] = todo[q] /\ call'[q] = call[q]
    BY <2>1, <1>1 DEF Enter, lockVars
  <2>3. QED
    BY <2>2, <1>3
<1>13. ASSUME NEW p \in Processes, \/ Return(p) \/ Failed(p) \/ Fault(p) \/ SeqRetry(p)
                                   \/ CopyOut(p) \/ CopyIn(p)
       PROVE  Inv'
  <2>1. todo[p] # <<>> /\ Head(todo[p]).do \notin OpeningDos
    BY <1>13 DEF Return, Failed, Fault, SeqRetry, CopyOut, CopyIn, Doing, OpeningDos
  <2>2. UNCHANGED <<mutex, opened>>
        /\ \A q \in Processes \ {p} : todo'[q] = todo[q] /\ call'[q] = call[q]
    <3>1. CASE Return(p) \/ Failed(p)
      BY <3>1, <1>1 DEF Return, Failed, Leave, Done, lockVars
    <3>2. CASE Fault(p) \/ SeqRetry(p)
      BY <3>2, <1>1 DEF Fault, SeqRetry, Done, lockVars, callVars
    <3>3. CASE CopyOut(p) \/ CopyIn(p)
      BY <3>3, <1>1 DEF CopyOut, CopyIn, Done, lockVars, callVars
    <3>4. QED
      BY <3>1, <3>2, <3>3, <1>13
  <2>3. QED
    BY <2>1, <2>2, <1>3, <1>4
<1>14. ASSUME NEW p \in Processes, \/ Count(p) \/ SetSize(p) \/ Forget(p) \/ Clear(p) \/ Fill(p)
                                   \/ LoadOffset(p) \/ StoreOffset(p) \/ Await(p) \/ Complete(p)
                                   \/ Poll(p) \/ ReadLock(p) \/ ReadUnlock(p) \/ WriteLock(p)
                                   \/ WriteUnlock(p) \/ SeqBegin(p)
       PROVE  Inv'
  <2>1. Head(todo[p]).do \notin OpeningDos /\ mutex' = mutex
    BY <1>14 DEF Count, SetSize, Forget, Clear, Fill, LoadOffset, StoreOffset, Await, Complete,
       Poll, ReadLock, ReadUnlock, WriteLock, WriteUnlock, SeqBegin, Doing, OpeningDos, lockVars
  <2>2. QED
    BY <2>1, <1>5, <1>14, Moves
<1>15. ASSUME NEW p \in Processes, Address(p) \/ Get(p) \/ Set(p) \/ GetValue(p) \/ SetValue(p)
       PROVE  Inv'
  <2>1. Head(todo[p]).do \notin OpeningDos /\ mutex' = mutex
    BY <1>15 DEF Address, Get, Set, GetValue, SetValue, Doing, OpeningDos, lockVars
  <2>2. QED
    BY <2>1, <1>5, <1>15, Moves
<1>16. ASSUME NEW p \in Processes PROVE ~(PortLock(p) \/ PortUnlock(p) \/ Killed(p))
  BY <1>1, MutexSteps DEF PortLock, PortUnlock, Killed, Doing
<1>17. CASE Next
  BY <1>17, <1>7, <1>8, <1>9, <1>10, <1>11, <1>12, <1>13, <1>14, <1>15, <1>16 DEF Next
<1>18. CASE UNCHANGED vars
  BY <1>18, <1>2 DEF vars, lockVars, callVars
<1>19. QED
  BY <1>17, <1>18

\* rtc_proc and rtc_sync: the mutex of a register
LEMMA MutexedStep ==
    ASSUME TypeOK, Shape, Exclusive, [Next]_vars, driver \in Mutexed
    PROVE  \A p \in Processes : (p \in mutex <=> Inside(p))'
<1> DEFINE Inv == \A p \in Processes : p \in mutex <=> Inside(p)
<1>1. /\ Inv /\ todo \in [Processes -> Seq(Step)] /\ driver \in DOMAIN Table /\ driver \notin Alone
      /\ \A p, q \in mutex : p = q
  BY DEF Exclusive, TypeOK, Shape, Alone, Mutexed
<1>2. ASSUME UNCHANGED <<mutex, todo>> PROVE Inv'
  BY <1>1, <1>2 DEF Inside
<1>3. ASSUME NEW p \in Processes, UNCHANGED mutex, Inside(p) <=> Inside(p)',
             \A q \in Processes \ {p} : todo'[q] = todo[q]
      PROVE  Inv'
  <2>1. ASSUME NEW q \in Processes PROVE (q \in mutex <=> Inside(q))'
    <3>1. CASE q = p
      BY <3>1, <1>1, <1>3
    <3>2. CASE q # p
      BY <3>2, <1>1, <1>3 DEF Inside
    <3>3. QED
      BY <3>1, <3>2
  <2>2. QED
    BY <2>1
\* what follows what at the ports
<1>4. ASSUME NEW p \in Processes, Advances(p)
      PROVE  /\ Inside(p)' <=> Head(todo[p]).do \in {"mutex", "address", "get", "set"}
             /\ Inside(p) <=> Head(todo[p]).do \in {"address", "get", "set", "unmutex"}
             /\ \A q \in Processes \ {p} : todo'[q] = todo[q]
  <2>1. todo'[p] # <<>> /\ Linked(driver, Head(todo[p]), Head(todo'[p]))
        /\ \A q \in Processes \ {p} : todo'[q] = todo[q]
    BY <1>4, Advance
  <2>2. Inside(p)' <=> Head(todo[p]).do \in {"mutex", "address", "get", "set"}
    BY <2>1 DEF Linked, Inside
  <2>3. QED
    BY <2>1, <2>2, <1>4 DEF Inside, Advances
<1>5. ASSUME NEW p \in Processes, Advances(p), Head(todo[p]).do \notin {"mutex", "unmutex"},
             UNCHANGED mutex
      PROVE  Inv'
  BY <1>4, <1>5, <1>3
<1>6. ASSUME NEW p \in Processes, PortLock(p) PROVE Inv'
  <2>1. Advances(p) /\ Head(todo[p]).do = "mutex" /\ mutex = {} /\ mutex' = {p}
    BY <1>6, Moves DEF PortLock, Doing
  <2>2. Inside(p)' /\ \A q \in Processes \ {p} : todo'[q] = todo[q]
    BY <2>1, <1>4
  <2>3. ASSUME NEW q \in Processes \ {p} PROVE (q \in mutex <=> Inside(q))'
    BY <2>1, <2>2, <1>1 DEF Inside
  <2>4. QED
    BY <2>1, <2>2, <2>3
<1>7. ASSUME NEW p \in Processes, PortUnlock(p) PROVE Inv'
  <2>1. Advances(p) /\ Head(todo[p]).do = "unmutex" /\ mutex' = {}
    BY <1>7, Moves DEF PortUnlock, Doing
  <2>2. ~Inside(p)' /\ Inside(p) /\ \A q \in Processes \ {p} : todo'[q] = todo[q]
    BY <2>1, <1>4
  <2>3. ASSUME NEW q \in Processes \ {p} PROVE ~Inside(q)'
    BY <2>2, <1>1 DEF Inside
  <2>4. QED
    BY <2>1, <2>2, <2>3
<1>8. ASSUME NEW p \in Processes, \/ Count(p) \/ SetSize(p) \/ Forget(p) \/ Clear(p) \/ Fill(p)
                                  \/ LoadOffset(p) \/ StoreOffset(p) \/ Await(p) \/ Complete(p)
                                  \/ Poll(p) \/ ReadLock(p) \/ ReadUnlock(p) \/ WriteLock(p)
                                  \/ WriteUnlock(p) \/ SeqBegin(p)
      PROVE  Inv'
  <2>1. Head(todo[p]).do \notin {"mutex", "unmutex"} /\ mutex' = mutex
    BY <1>8 DEF Count, SetSize, Forget, Clear, Fill, LoadOffset, StoreOffset, Await, Complete,
       Poll, ReadLock, ReadUnlock, WriteLock, WriteUnlock, SeqBegin, Doing, lockVars
  <2>2. QED
    BY <2>1, <1>5, <1>8, Moves
<1>9. ASSUME NEW p \in Processes, Address(p) \/ Get(p) \/ Set(p) \/ GetValue(p) \/ SetValue(p)
      PROVE  Inv'
  <2>1. Head(todo[p]).do \notin {"mutex", "unmutex"} /\ mutex' = mutex
    BY <1>9 DEF Address, Get, Set, GetValue, SetValue, Doing, lockVars
  <2>2. QED
    BY <2>1, <1>5, <1>9, Moves
<1>10. ASSUME NEW p \in Processes, CopyOut(p) \/ CopyIn(p) PROVE Inv'
  <2>1. Head(todo[p]).do \notin {"mutex", "unmutex"} /\ mutex' = mutex
    BY <1>10 DEF CopyOut, CopyIn, Doing, lockVars
  <2>2. QED
    BY <2>1, <1>2, <1>5, <1>10, Moves DEF Stays
<1>11. ASSUME NEW p \in Processes, Call(p) PROVE Inv'
  <2>1. PICK op \in DOMAIN Table[driver].ops : \E n, buffer, reg : Enter(p, op, n, buffer, reg)
    BY <1>11 DEF Call
  <2>2. todo[p] = <<>> /\ todo' = [todo EXCEPT ![p] = Prog(driver, op)] /\ UNCHANGED mutex
    BY <2>1 DEF Enter, lockVars, Prog
  <2>3. Head(Prog(driver, op)).do = "mutex"
    BY <1>1, FirstStep
  <2>4. ~Inside(p) /\ ~Inside(p)' /\ \A q \in Processes \ {p} : todo'[q] = todo[q]
    BY <2>2, <2>3, <1>1 DEF Inside
  <2>5. QED
    BY <2>2, <2>4, <1>3
<1>12. ASSUME NEW p \in Processes, Return(p) \/ Failed(p) PROVE Inv'
  <2>1. Leave(p) /\ todo[p] # <<>> /\ Head(todo[p]).do \in {"return", "failed"}
    BY <1>12 DEF Return, Failed, Doing
  <2>2. todo'[p] = <<>> /\ UNCHANGED mutex /\ \A q \in Processes \ {p} : todo'[q] = todo[q]
    BY <2>1, <1>1, ShapeLeaves DEF Leave, Done, lockVars
  <2>3. ~Inside(p) /\ ~Inside(p)'
    BY <2>1, <2>2 DEF Inside
  <2>4. QED
    BY <2>2, <2>3, <1>3
<1>13. ASSUME NEW p \in Processes, Killed(p) PROVE Inv'
  <2> DEFINE u == SubSeq(todo[p], 5, Len(todo[p]))
  <2>1. todo[p] # <<>> /\ Head(todo[p]).do = "mutex" /\ todo' = [todo EXCEPT ![p] = u]
        /\ UNCHANGED mutex
    BY <1>13 DEF Killed, Doing, lockVars
  <2> DEFINE open == p \in opened
  <2> HIDE DEF open
  <2>2. Shaped(driver, todo[p], call[p].op, open)
    BY DEF Shape, open
  <2>3. Head(u).do \in {"mutex", "return"}
    BY <1>1, <2>1, <2>2, ShapedSkip
  <2> HIDE DEF u
  <2>4. ~Inside(p) /\ ~Inside(p)' /\ \A q \in Processes \ {p} : todo'[q] = todo[q]
    BY <2>1, <2>3, <1>1 DEF Inside
  <2>5. QED
    BY <2>1, <2>4, <1>3
\* what only the other drivers do
<1>14. ASSUME NEW p \in Processes PROVE ~(Open(p) \/ Opened(p) \/ Release(p))
  <2>1. ~Open(p)
    BY <1>1 DEF Open, Shape
  <2>2. ~Opened(p)
    BY <1>1, OpeningSteps DEF Opened, Doing, OpeningDos
  <2>3. ~Release(p)
    <3>1. S("unlock") # <<>>
      BY DEF S
    <3>2. QED
      BY <1>1, <3>1, Openings DEF Release
  <2>4. QED
    BY <2>1, <2>2, <2>3
<1>15. ASSUME NEW p \in Processes PROVE ~(TryLock(p) \/ Capable(p))
  BY <1>1, OpeningSteps DEF TryLock, Capable, Doing, OpeningDos
<1>16. ASSUME NEW p \in Processes PROVE ~(Fault(p) \/ SeqRetry(p))
  <2>1. Mutexed \cap Messages = {}
    BY DEF Mutexed, Messages, Ports
  <2>2. ~Fault(p)
    <3> SUFFICES ASSUME Fault(p) PROVE FALSE
      OBVIOUS
    <3> DEFINE open == p \in opened
    <3> HIDE DEF open
    <3>1. Shaped(driver, todo[p], call[p].op, open)
      BY DEF Shape, open
    <3>2. todo[p] # <<>> /\ Head(todo[p]).do \in {"in", "out"}
      BY DEF Fault, Doing
    <3>3. QED
      BY <1>1, <2>1, <3>1, <3>2, CopiesMessages
  <2>3. ~SeqRetry(p)
    <3> SUFFICES ASSUME SeqRetry(p) PROVE FALSE
      OBVIOUS
    <3>1. todo[p] # <<>> /\ Head(todo[p]).do = "seqretry"
      BY DEF SeqRetry, Doing
    <3>2. QED
      BY <1>1, <2>1, <3>1, RetryLocked
  <2>4. QED
    BY <2>2, <2>3
<1>17. CASE Next
  BY <1>17, <1>6, <1>7, <1>8, <1>9, <1>10, <1>11, <1>12, <1>13, <1>14, <1>15, <1>16 DEF Next
<1>18. CASE UNCHANGED vars
  BY <1>18, <1>2 DEF vars, lockVars
<1>19. QED
  BY <1>17, <1>18

\* The driver that is loaded stays
LEMMA NextDriver ==
    ASSUME [Next]_vars
    PROVE  driver' = driver
<1>1. ASSUME NEW p \in Processes, \/ Open(p) \/ TryLock(p) \/ Capable(p) \/ Opened(p) \/ Release(p)
                                  \/ Call(p) \/ Return(p) \/ Fault(p) \/ Failed(p)
      PROVE  driver' = driver
  BY ZenonT(60), <1>1 DEF Open, TryLock, Capable, Opened, Release, Call, Enter, Return, Leave,
     Fault, Failed
<1>2. ASSUME NEW p \in Processes, \/ Count(p) \/ CopyOut(p) \/ CopyIn(p) \/ SetSize(p) \/ Forget(p)
                                  \/ Clear(p) \/ Fill(p) \/ LoadOffset(p) \/ StoreOffset(p)
                                  \/ Await(p) \/ Complete(p) \/ Poll(p)
      PROVE  driver' = driver
  BY <1>2 DEF Count, CopyOut, CopyIn, SetSize, Forget, Clear, Fill, LoadOffset, StoreOffset, Await,
     Complete, Poll
<1>3. ASSUME NEW p \in Processes, \/ ReadLock(p) \/ ReadUnlock(p) \/ WriteLock(p) \/ WriteUnlock(p)
                                  \/ SeqBegin(p) \/ SeqRetry(p) \/ PortLock(p) \/ PortUnlock(p)
                                  \/ Killed(p) \/ Address(p) \/ Get(p) \/ Set(p)
                                  \/ GetValue(p) \/ SetValue(p)
      PROVE  driver' = driver
  BY <1>3 DEF ReadLock, ReadUnlock, WriteLock, WriteUnlock, SeqBegin, SeqRetry, PortLock,
     PortUnlock, Killed, Address, Get, Set, GetValue, SetValue
<1>4. CASE UNCHANGED vars
  BY <1>4 DEF vars
<1>5. QED
  BY <1>1, <1>2, <1>3, <1>4 DEF Next

\* proc_skel has no ports
LEMMA PortDrivers ==
    ASSUME Shape, NEW p \in Processes, todo[p] # <<>>,
           Head(todo[p]).do \in {"address", "get", "set"}
    PROVE  driver \in Ports
<1> DEFINE op == call[p].op
<1> DEFINE h == Head(todo[p]).do
<1>1. h \notin OpeningDos \union {"failed"} /\ h \in PortSteps
  BY DEF OpeningDos, PortSteps
<1>2. /\ driver \in DOMAIN Table /\ op \in DOMAIN Table[driver].ops
      /\ h \in Dos(Prog(driver, op))
  BY <1>1, OwnStep
<1>3. driver \notin Messages
  <2> SUFFICES ASSUME driver \in Messages PROVE FALSE
    OBVIOUS
  <2>1. Plain(Prog(driver, op))
    BY <1>2, MessagePrograms DEF Runs, Prog
  <2>2. QED
    BY <2>1, <1>1, <1>2 DEF Plain
<1>4. driver # "proc_skel"
  <2> SUFFICES ASSUME driver = "proc_skel" PROVE FALSE
    OBVIOUS
  <2>1. DOMAIN Table[driver].ops = {"read", "write"}
        /\ Table[driver].ops["read"] = At("getvalue", "VALUE")
        /\ Table[driver].ops["write"] = At("setvalue", "VALUE")
    BY TableRegisters DEF proc_skel
  <2>2. ASSUME NEW a \in {"getvalue", "setvalue"}
        PROVE  Dos(At(a, "VALUE") \o S("return")) = {a, "return"}
    <3> DEFINE s == [do |-> a, reg |-> "VALUE"]
    <3> DEFINE q == S("return")
    <3>1. At(a, "VALUE") = <<s>> /\ s.do = a /\ s \in Step
      BY DEF At, Step, StepNames, Registers
    <3> HIDE DEF s
    <3>2. <<s>> \in Seq(Step) /\ Steps(<<s>>) = {s}
      BY <3>1 DEF Steps
    <3>3. Dos(<<s>>) = {a}
      BY <3>1, <3>2 DEF Dos
    <3>4. q \in Seq(Step) /\ Dos(q) = {"return"}
      BY ReturnStep
    <3> HIDE DEF q
    <3> DEFINE v == <<s>>
    <3>5. v \in Seq(Step) /\ Dos(v) = {a}
      BY <3>2, <3>3
    <3> HIDE DEF v
    <3>6. Dos(v \o q) = {a} \union {"return"}
      BY <3>4, <3>5, ConcatSteps
    <3>7. QED
      BY <3>1, <3>6 DEF q, v
  <2>3. op = "read" \/ op = "write"
    BY <1>2, <2>1
  <2>4. h \in {"getvalue", "setvalue", "return"}
    <3>1. CASE op = "read"
      BY <3>1, <2>1, <2>2, <1>2 DEF Prog
    <3>2. CASE op = "write"
      BY <3>2, <2>1, <2>2, <1>2 DEF Prog
    <3>3. QED
      BY <2>3, <3>1, <3>2
  <2>5. QED
    BY <2>4
<1>5. QED
  BY <1>2, <1>3, <1>4, RegisterFamilies

\* Exclusion at the ports
LEMMA OneAtPort ==
    ASSUME TypeOK, Shape, Exclusive, driver \notin BareSysfs,
           NEW p \in Processes, todo[p] # <<>>, Head(todo[p]).do \in {"address", "get", "set"},
           NEW q \in Processes, todo[q] # <<>>, Head(todo[q]).do \in {"address", "get", "set"}
    PROVE  p = q
<1>1. driver \in Alone \/ driver \in Mutexed
  <2>1. driver \in Ports
    BY PortDrivers
  <2>2. QED
    BY <2>1 DEF Ports, BareSysfs, Alone, Mutexed
<1>2. \A i, j \in mutex : i = j
  BY DEF TypeOK
<1>3. CASE driver \in Alone
  <2>1. p \in opened /\ q \in opened
    BY AtWork DEF OpeningDos
  <2>2. QED
    BY <2>1, <1>2, <1>3 DEF Exclusive, Holds
<1>4. CASE driver \in Mutexed
  BY <1>2, <1>4 DEF Exclusive, Inside
<1>5. QED
  BY <1>1, <1>3, <1>4

\* Who is at an access of a port has its own register selected
LEMMA ChosenStep ==
    ASSUME TypeOK, Shape, Exclusive, Chosen, [Next]_vars
    PROVE  Chosen'
<1> SUFFICES ASSUME driver' \notin BareSysfs, NEW q \in Processes, AtPort(q)'
             PROVE  address' = Key(q)'[1]
  BY DEF Chosen
<1>1. driver' = driver
  BY NextDriver
<1>2. ASSUME NEW p \in Processes, Address(p)
      PROVE  address' = Key(q)'[1]
  <2>1. /\ Advances(p) /\ address' = Key(p)[1] /\ todo[p] # <<>>
        /\ Head(todo[p]).do = "address"
    BY <1>2, Moves DEF Address, Doing
  <2>2. CASE q = p
    <3>1. todo'[p] # <<>> /\ call' = call /\ Linked(driver, Head(todo[p]), Head(todo'[p]))
      BY <2>1, Advance
    <3>2. Head(todo'[p]).reg = Head(todo[p]).reg
      BY <3>1, <2>1 DEF Linked
    <3>3. Key(p)' = Key(p)
      BY <3>1, <3>2 DEF Key, KeyOf
    <3>4. QED
      BY <3>3, <2>1, <2>2
  <2>3. CASE q # p
    <3>1. todo'[q] = todo[q]
      BY <2>1, <2>3, Advance
    <3>2. todo[q] # <<>> /\ Head(todo[q]).do \in {"get", "set"}
      BY <3>1 DEF AtPort
    <3>3. QED
      BY <1>1, <2>1, <2>3, <3>2, OneAtPort
  <2>4. QED
    BY <2>2, <2>3
<1>3. CASE address' = address /\ ~Address(q)
  <2>1. todo'[q] = todo[q] /\ call'[q] = call[q]
    BY <1>3, PortArrives
  <2>2. AtPort(q) /\ Key(q)' = Key(q)
    BY <2>1 DEF AtPort, Key, KeyOf
  <2>3. QED
    BY <1>1, <1>3, <2>2 DEF Chosen
<1>4. QED
  BY <1>2, <1>3, PortArrives

\* Only the sysfs drivers of the ports have neither lock nor lone opener
Unstrayed == strayed => driver \in BareSysfs

\* so that no access goes astray
LEMMA UnstrayedStep ==
    ASSUME Chosen, Unstrayed, [Next]_vars
    PROVE  Unstrayed'
<1>1. driver' = driver
  BY NextDriver
<1>2. ASSUME NEW p \in Processes, Get(p) \/ Set(p) PROVE Unstrayed'
  <2>1. AtPort(p) /\ strayed' = (strayed \/ address # Key(p)[1])
    BY <1>2 DEF Get, Set, Doing, AtPort
  <2>2. QED
    BY <2>1, <1>1 DEF Chosen, Unstrayed
<1>3. ASSUME NEW p \in Processes, \/ Open(p) \/ TryLock(p) \/ Capable(p) \/ Opened(p) \/ Release(p)
                                  \/ Call(p) \/ Return(p) \/ Fault(p) \/ Failed(p)
      PROVE  strayed' = strayed
  BY ZenonT(60), <1>3 DEF Open, TryLock, Capable, Opened, Release, Call, Enter, Return, Fault,
     Failed, history
<1>4. ASSUME NEW p \in Processes, \/ Count(p) \/ CopyOut(p) \/ CopyIn(p) \/ SetSize(p) \/ Forget(p)
                                  \/ Clear(p) \/ Fill(p) \/ LoadOffset(p) \/ StoreOffset(p)
                                  \/ Await(p) \/ Complete(p) \/ Poll(p)
      PROVE  strayed' = strayed
  BY <1>4 DEF Count, CopyOut, CopyIn, SetSize, Forget, Clear, Fill, LoadOffset, StoreOffset, Await,
     Complete, Poll, history
<1>5. ASSUME NEW p \in Processes, \/ ReadLock(p) \/ ReadUnlock(p) \/ WriteLock(p) \/ WriteUnlock(p)
                                  \/ SeqBegin(p) \/ SeqRetry(p) \/ PortLock(p) \/ PortUnlock(p)
                                  \/ Killed(p) \/ Address(p) \/ GetValue(p) \/ SetValue(p)
      PROVE  strayed' = strayed
  BY <1>5 DEF ReadLock, ReadUnlock, WriteLock, WriteUnlock, SeqBegin, SeqRetry, PortLock,
     PortUnlock, Killed, Address, GetValue, SetValue, history
<1>6. CASE Next
  BY <1>6, <1>1, <1>2, <1>3, <1>4, <1>5 DEF Next, Unstrayed
<1>7. CASE UNCHANGED vars
  BY <1>7, <1>1 DEF vars, history, Unstrayed
<1>8. QED
  BY <1>6, <1>7

-----------------------------------------------------------------------------
(* The drivers that keep readoffset: chardev_sync, and the two with locks. *)

\* The programs of the drivers that keep readoffset
LEMMA OffsetDos ==
    /\ Offsets \subseteq Messages /\ Offsets \cap Alone = {} /\ Locked \subseteq Offsets
    /\ \A d \in Offsets :
          /\ d \in DOMAIN Table /\ DOMAIN Table[d].ops = {"read", "write"}
          /\ Dos(Prog(d, "read")) = {"count", "out", "load", "add", "return"} \union
                 (CASE d = "chardev_sync" -> {"await"}
                    [] d = "chardrv_lock" -> {"rlock", "runlock"}
                    [] d = "chardrv_seqlock" -> {"seqbegin", "seqretry"})
          /\ Dos(Prog(d, "write")) = {"size", "count", "in", "return"} \union
                 (IF d = "chardev_sync" THEN {"complete"} ELSE {"wlock", "wunlock"})
<1>1. Offsets \subseteq Messages /\ Offsets \cap Alone = {} /\ Locked \subseteq Offsets
  BY MessageFamilies DEF Offsets, Locked, Alone
<1>2. ASSUME NEW d \in Offsets
      PROVE  /\ d \in DOMAIN Table /\ DOMAIN Table[d].ops = {"read", "write"}
             /\ Dos(Prog(d, "read")) = MessageDos(d, "read") \union {"return"}
             /\ Dos(Prog(d, "write")) = MessageDos(d, "write") \union {"return"}
  <2>1. d \in DOMAIN Table /\ d \in Messages
    BY <1>1 DEF Messages
  <2>2. DOMAIN Table[d].ops = {"read", "write"}
    BY <2>1, <1>2, TableOps DEF MessageOps, When, Offsets
  <2>3. QED
    BY <2>1, <2>2, Programs
<1>3. ASSUME NEW d \in Offsets
      PROVE  Dos(Prog(d, "read")) = {"count", "out", "load", "add", "return"} \union
                 (CASE d = "chardev_sync" -> {"await"}
                    [] d = "chardrv_lock" -> {"rlock", "runlock"}
                    [] d = "chardrv_seqlock" -> {"seqbegin", "seqretry"})
  <2>1. CASE d = "chardev_sync"
    BY <1>2, <2>1, FamilyDos
  <2>2. CASE d = "chardrv_lock"
    BY <1>2, <2>2, FamilyDos
  <2>3. CASE d = "chardrv_seqlock"
    BY <1>2, <2>3, FamilyDos
  <2>4. QED
    BY <2>1, <2>2, <2>3 DEF Offsets
<1>4. ASSUME NEW d \in Offsets
      PROVE  Dos(Prog(d, "write")) = {"size", "count", "in", "return"} \union
                 (IF d = "chardev_sync" THEN {"complete"} ELSE {"wlock", "wunlock"})
  <2>1. CASE d = "chardev_sync"
    BY <1>2, <2>1, FamilyDos
  <2>2. CASE d \in Locked
    BY <1>2, <2>2, FamilyDos DEF Locked
  <2>3. QED
    BY <2>1, <2>2 DEF Offsets, Locked
<1>5. QED
  BY <1>1, <1>2, <1>3, <1>4

\* The steps that the drivers have which any process may open at any time
LEMMA OpenSteps ==
    ASSUME Shape, driver \notin Alone, NEW p \in Processes
    PROVE  ~(Open(p) \/ Opened(p) \/ Release(p) \/ TryLock(p) \/ Capable(p))
<1>1. driver \in DOMAIN Table /\ (p \notin opened => FALSE)
  BY DEF Shape
<1>2. ~Open(p)
  BY <1>1 DEF Open
<1>3. ~(Opened(p) \/ TryLock(p) \/ Capable(p))
  BY OpeningSteps DEF Opened, TryLock, Capable, Doing, OpeningDos
<1>4. ~Release(p)
  <2>1. S("unlock") # <<>>
    BY DEF S
  <2>2. QED
    BY <1>1, <2>1, Openings DEF Release
<1>5. QED
  BY <1>2, <1>3, <1>4

\* and that those with a message buffer have
LEMMA MessageSteps ==
    ASSUME TypeOK, Shape, driver \in Messages, NEW p \in Processes, CallOK(p)
    PROVE  ~(\/ PortLock(p) \/ PortUnlock(p) \/ Killed(p)
             \/ Address(p) \/ Get(p) \/ Set(p) \/ GetValue(p) \/ SetValue(p))
<1>1. driver \notin Mutexed
  BY DEF Messages, Mutexed, Ports
<1>2. ~(PortLock(p) \/ PortUnlock(p) \/ Killed(p))
  BY <1>1, MutexSteps DEF PortLock, PortUnlock, Killed, Doing
<1>3. ~(Address(p) \/ Get(p) \/ Set(p) \/ GetValue(p) \/ SetValue(p))
  BY PortKey DEF Address, Get, Set, GetValue, SetValue, Doing
<1>4. QED
  BY <1>2, <1>3

\* Where a call of a driver with a message buffer is
LEMMA MessageAt ==
    ASSUME TypeOK, Shape, driver \in Messages, NEW p \in Processes, InCall(p)
    PROVE  /\ call[p].op \in DOMAIN Table[driver].ops /\ call[p].op \in MessageOps(driver)
           /\ Head(todo[p]).do \in Dos(todo[p])
           /\ Head(todo[p]).do \notin Dos(Tail(todo[p]))
           /\ Dos(todo[p]) = {Head(todo[p]).do} \union Dos(Tail(todo[p]))
           /\ \A e \in Dos(Tail(todo[p])) : Rank[Head(todo[p]).do] < Rank[e]
           /\ Dos(todo[p]) \subseteq Dos(Prog(driver, call[p].op)) \union {"failed"}
           /\ "failed" \in Dos(todo[p])
                => \/ Dos(todo[p]) = {"failed"}
                   \/ \E unlock \in Unlocks \cap Dos(Prog(driver, call[p].op)) :
                         Dos(todo[p]) = {unlock, "failed"}
           /\ "failed" \notin Dos(todo[p]) =>
                 /\ "return" \in Dos(todo[p])
                 /\ Dos(todo[p]) \subseteq Dos(Prog(driver, call[p].op))
                 /\ \A a \in Dos(Prog(driver, call[p].op)) \ Dos(todo[p]) :
                    \A b \in Dos(todo[p]) : Rank[a] < Rank[b]
<1> DEFINE open == p \in opened
<1> DEFINE op == call[p].op
<1> DEFINE t == todo[p]
<1>1. driver \in DOMAIN Table /\ Shaped(driver, t, op, open) /\ t # <<>> /\ op # "none"
  BY DEF Shape, InCall
<1> HIDE DEF open, op, t
<1>2. Form(driver, t)
  BY <1>1 DEF Shaped
<1>3. Calling(driver, t, op, open) \/ Failing(driver, t, op, open)
  BY <1>1, <1>2 DEF Shaped, Opening
<1>4. op \in DOMAIN Table[driver].ops
  BY <1>3 DEF Calling, Failing
<1> DEFINE P == Dos(Prog(driver, op))
<1>5. op \in MessageOps(driver) /\ P \cap PortSteps = {} /\ "failed" \notin P
  <2>1. op \in MessageOps(driver) /\ Plain(Prog(driver, op))
    BY <1>4, MessagePrograms DEF Runs, Prog
  <2>2. "failed" \notin P
    BY <1>1, <1>4, CallSteps
  <2>3. QED
    BY <2>1, <2>2 DEF Plain
<1> HIDE DEF P
<1>6. /\ Dos(t) \subseteq P \union {"failed"}
      /\ "failed" \in Dos(t) => Failing(driver, t, op, open)
      /\ "failed" \notin Dos(t) => Calling(driver, t, op, open)
  <2>1. Calling(driver, t, op, open) => Dos(t) \subseteq P
    BY DEF Calling, Dos, P
  <2>2. Failing(driver, t, op, open) => "failed" \in Dos(t) /\ Dos(t) \subseteq P \union {"failed"}
    BY DEF Failing, P
  <2>3. QED
    BY <2>1, <2>2, <1>3, <1>5
<1>7. Dos(t) \cap PortSteps = {}
  BY <1>5, <1>6 DEF PortSteps
<1>8. \A a, b \in P \union Dos(t) : Earlier(a, b) => Rank[a] < Rank[b]
  BY <1>5, <1>7 DEF Earlier
<1>9. /\ Dos(t) = {Head(t).do} \union Dos(Tail(t))
      /\ \A e \in Dos(Tail(t)) : Earlier(Head(t).do, e)
  BY <1>1, <1>2, TailForm
<1>10. \A e \in Dos(Tail(t)) : Rank[Head(t).do] < Rank[e]
  BY <1>8, <1>9
<1>11. Dos(t) \subseteq StepNames
  <2>1. \A s \in Step : s.do \in StepNames
    BY DEF Step
  <2>2. \A i \in 1 .. Len(t) : t[i] \in Step
    BY <1>2 DEF Form
  <2>3. QED
    BY <2>1, <2>2 DEF Dos, Steps
<1>12. \A a \in StepNames : Rank[a] \in Nat
  BY DEF StepNames, Rank
<1>13. Head(t).do \notin Dos(Tail(t))
  <2>1. Head(t).do \in StepNames
    BY <1>9, <1>11
  <2>2. Rank[Head(t).do] \in Nat
    BY <2>1, <1>12
  <2>3. ~(Rank[Head(t).do] < Rank[Head(t).do])
    BY <2>2
  <2>4. QED
    BY <2>3, <1>10
<1>14. "failed" \in Dos(t)
          => \/ Dos(t) = {"failed"}
             \/ \E unlock \in Unlocks \cap P : Dos(t) = {unlock, "failed"}
  BY <1>6 DEF Failing, P
<1>15. "failed" \notin Dos(t) =>
          /\ "return" \in Dos(t) /\ Dos(t) \subseteq P
          /\ \A a \in P \ Dos(t) : \A b \in Dos(t) : Rank[a] < Rank[b]
  BY <1>6, <1>8 DEF Calling, P
<1>16. QED
  BY <1>4, <1>5, <1>6, <1>9, <1>10, <1>13, <1>14, <1>15 DEF P, t, op

\* One step of such a call
LEMMA MessageDrops ==
    ASSUME TypeOK, Shape, driver \in Messages, NEW p \in Processes, InCall(p), Advances(p)
    PROVE  /\ Dos(todo'[p]) = Dos(todo[p]) \ {Head(todo[p]).do}
           /\ todo'[p] # <<>> /\ \A q \in Processes \ {p} : todo'[q] = todo[q]
           /\ call' = call /\ driver' = driver
<1>1. /\ todo'[p] = Tail(todo[p]) /\ todo'[p] # <<>>
      /\ \A q \in Processes \ {p} : todo'[q] = todo[q]
      /\ call' = call /\ driver' = driver
  BY Advance
<1>2. /\ Dos(todo[p]) = {Head(todo[p]).do} \union Dos(Tail(todo[p]))
      /\ Head(todo[p]).do \notin Dos(Tail(todo[p]))
  BY MessageAt
<1> DEFINE u == Tail(todo[p])
<1> HIDE DEF u
<1>3. Dos(u) = Dos(todo[p]) \ {Head(todo[p]).do}
  BY <1>2 DEF u
<1>4. QED
  BY <1>1, <1>3 DEF u

\* Whoever is at work in a driver that keeps readoffset is in a read or a write
LEMMA OffsetCalls ==
    ASSUME Shape, driver \in Offsets, NEW p \in Processes, todo[p] # <<>>
    PROVE  driver \in Messages /\ InCall(p) /\ call[p].op \in {"read", "write"}
<1> DEFINE open == p \in opened
<1> DEFINE op == call[p].op
<1> DEFINE t == todo[p]
<1>1. driver \in DOMAIN Table /\ Shaped(driver, t, op, open) /\ driver \notin Alone
      /\ DOMAIN Table[driver].ops = {"read", "write"} /\ driver \in Messages
  BY OffsetDos DEF Shape
<1> HIDE DEF open, op, t
<1>2. t # <<>>
  BY DEF t
<1>3. Calling(driver, t, op, open) \/ Failing(driver, t, op, open)
  BY <1>1, <1>2 DEF Shaped, Opening
<1>4. op \in {"read", "write"}
  BY <1>1, <1>3 DEF Calling, Failing
<1>5. QED
  BY <1>1, <1>2, <1>4 DEF InCall, op, t

\* Where a process of such a driver is
LEMMA OffsetAt ==
    ASSUME TypeOK, Shape, driver \in Offsets, NEW p \in Processes, todo[p] # <<>>
    PROVE  /\ call[p].op \in {"read", "write"} /\ InCall(p)
           /\ Head(todo[p]).do \in Dos(todo[p])
           /\ Head(todo[p]).do \notin Dos(Tail(todo[p]))
           /\ Dos(todo[p]) = {Head(todo[p]).do} \union Dos(Tail(todo[p]))
           /\ \A e \in Dos(Tail(todo[p])) : Rank[Head(todo[p]).do] < Rank[e]
           /\ Dos(todo[p]) \subseteq Dos(Prog(driver, call[p].op)) \union {"failed"}
           /\ "failed" \in Dos(todo[p])
                => \/ Dos(todo[p]) = {"failed"}
                   \/ \E unlock \in Unlocks \cap Dos(Prog(driver, call[p].op)) :
                         Dos(todo[p]) = {unlock, "failed"}
           /\ "failed" \notin Dos(todo[p]) =>
                 /\ "return" \in Dos(todo[p])
                 /\ Dos(todo[p]) \subseteq Dos(Prog(driver, call[p].op))
                 /\ \A a \in Dos(Prog(driver, call[p].op)) \ Dos(todo[p]) :
                    \A b \in Dos(todo[p]) : Rank[a] < Rank[b]
BY OffsetCalls, MessageAt

\* One step of such a program
LEMMA OffsetDrops ==
    ASSUME TypeOK, Shape, driver \in Offsets, NEW p \in Processes, Advances(p)
    PROVE  /\ Dos(todo'[p]) = Dos(todo[p]) \ {Head(todo[p]).do}
           /\ todo'[p] # <<>> /\ \A q \in Processes \ {p} : todo'[q] = todo[q]
           /\ call' = call /\ driver' = driver
BY OffsetCalls, MessageDrops DEF Advances

\* All that the processes of such a driver do
OffsetMoves(p) ==
    \/ Call(p) \/ Return(p) \/ Fault(p) \/ Failed(p)
    \/ Count(p) \/ CopyOut(p) \/ CopyIn(p) \/ SetSize(p)
    \/ LoadOffset(p) \/ StoreOffset(p) \/ Await(p) \/ Complete(p)
    \/ ReadLock(p) \/ ReadUnlock(p) \/ WriteLock(p) \/ WriteUnlock(p)
    \/ SeqBegin(p) \/ SeqRetry(p)

\* The actions that such a driver can take
LEMMA OffsetNext ==
    ASSUME TypeOK, Shape, \A p \in Processes : CallOK(p), driver \in Offsets, Next
    PROVE  \E p \in Processes : OffsetMoves(p)
<1>1. driver \in Messages /\ driver \notin Alone
  BY OffsetDos
<1>2. ASSUME NEW p \in Processes PROVE ~(Forget(p) \/ Clear(p) \/ Fill(p) \/ Poll(p))
  <2> SUFFICES ASSUME todo[p] # <<>>, Head(todo[p]).do \in {"forget", "clear", "fill", "poll"}
               PROVE  FALSE
    BY DEF Forget, Clear, Fill, Poll, Doing
  <2> DEFINE h == Head(todo[p]).do
  <2> DEFINE P == Dos(Prog(driver, call[p].op))
  <2>1. h \in P /\ call[p].op \in {"read", "write"}
    <3>1. h \in P \union {"failed"} /\ call[p].op \in {"read", "write"}
      BY OffsetAt
    <3>2. QED
      BY <3>1
  <2>2. \/ P = {"count", "out", "load", "add", "return"} \union
                 (CASE driver = "chardev_sync" -> {"await"}
                    [] driver = "chardrv_lock" -> {"rlock", "runlock"}
                    [] driver = "chardrv_seqlock" -> {"seqbegin", "seqretry"})
        \/ P = {"size", "count", "in", "return"} \union
                 (IF driver = "chardev_sync" THEN {"complete"} ELSE {"wlock", "wunlock"})
    BY <2>1, OffsetDos
  <2> HIDE DEF P
  <2>3. QED
    BY <2>1, <2>2 DEF Offsets
<1>3. QED
  BY <1>1, <1>2, OpenSteps, MessageSteps DEF Next, OffsetMoves

\* Where a process stands to its copy and its addition, by its next step
AddAt(p) ==
    LET D == Dos(todo[p])
        h == Head(todo[p]).do
        op == call[p].op
    IN  /\ op \in {"read", "write"} /\ h \in D
        /\ h \in {"count", "out"} /\ op = "read" => "add" \in D
        /\ h = "count" /\ op = "read" => "out" \in D
        /\ h = "out" => op = "read"
        /\ h = "add" => op = "read" /\ "count" \notin D /\ "out" \notin D /\ "return" \in D
        /\ h = "seqretry" => op = "read" /\ "add" \notin D /\ "count" \notin D
        /\ h = "size" => op = "write"
        /\ h = "in" => op = "write" /\ "size" \notin D
        /\ h \in {"out", "in"} => "count" \notin D
        /\ h \in {"return", "failed"} => D = {h}

\* What the next step of a driver with an offset says of the steps left
LEMMA AddAts ==
    ASSUME TypeOK, Shape, driver \in Offsets, NEW p \in Processes, todo[p] # <<>>
    PROVE  AddAt(p)
<1> DEFINE t == todo[p]
<1> DEFINE D == Dos(t)
<1> DEFINE h == Head(t).do
<1> DEFINE op == call[p].op
<1> DEFINE P == Dos(Prog(driver, op))
<1> DEFINE T == Dos(Tail(t))
<1>1. /\ op \in {"read", "write"} /\ h \in D /\ h \notin T /\ D = {h} \union T
      /\ \A e \in T : Rank[h] < Rank[e]
      /\ D \subseteq P \union {"failed"}
      /\ "failed" \in D => D = {"failed"} \/ \E unlock \in Unlocks \cap P : D = {unlock, "failed"}
      /\ "failed" \notin D => /\ "return" \in D /\ D \subseteq P
                              /\ \A a \in P \ D : \A b \in D : Rank[a] < Rank[b]
  BY OffsetAt
<1>2. /\ op = "read" => /\ {"count", "out", "load", "add", "return"} \subseteq P
                        /\ P \subseteq {"count", "out", "load", "add", "return", "await",
                                        "rlock", "runlock", "seqbegin", "seqretry"}
      /\ op = "write" => P \subseteq {"size", "count", "in", "return", "complete",
                                      "wlock", "wunlock"}
  <2>1. CASE op = "read"
    <3>1. P = {"count", "out", "load", "add", "return"} \union
                 (CASE driver = "chardev_sync" -> {"await"}
                    [] driver = "chardrv_lock" -> {"rlock", "runlock"}
                    [] driver = "chardrv_seqlock" -> {"seqbegin", "seqretry"})
      BY <2>1, OffsetDos
    <3>2. QED
      BY <2>1, <3>1 DEF Offsets
  <2>2. CASE op = "write"
    <3>1. P = {"size", "count", "in", "return"} \union
                 (IF driver = "chardev_sync" THEN {"complete"} ELSE {"wlock", "wunlock"})
      BY <2>2, OffsetDos
    <3>2. QED
      BY <2>2, <3>1
  <2>3. QED
    BY <1>1, <2>1, <2>2
<1> HIDE DEF t, D, h, op, P, T
<1>3. ASSUME h \in {"return", "failed"} PROVE D = {h}
  <2>1. \A e \in P \union {"failed"} : ~(8 < Rank[e])
    BY <1>1, <1>2 DEF Rank
  <2>2. Rank[h] = 8
    BY <1>3 DEF Rank
  <2>3. T = {}
    BY <1>1, <2>1, <2>2
  <2>4. QED
    BY <1>1, <2>3
<1>4. /\ h \in {"add", "seqretry"} => op = "read" /\ "count" \notin D
      /\ h = "seqretry" => "add" \notin D
      /\ h = "add" => "out" \notin D
      /\ h = "in" => "size" \notin D
      /\ h \in {"out", "in"} => "count" \notin D
      /\ h \in {"size", "in"} => op = "write"
      /\ h = "out" => op = "read"
  BY <1>1, <1>2 DEF Rank
<1>5. /\ h \in {"count", "out"} /\ op = "read" => "add" \in D
      /\ h = "count" /\ op = "read" => "out" \in D
      /\ h = "add" => "return" \in D
  <2>1. h \in {"count", "out", "add"} => "failed" \notin D
    BY <1>1 DEF Unlocks
  <2>2. QED
    BY <1>1, <1>2, <2>1 DEF Rank
<1>6. QED
  BY <1>1, <1>3, <1>4, <1>5 DEF AddAt, t, D, h, op

-----------------------------------------------------------------------------
(* Reads and writes under the rwlock or the seqlock.                       *)

\* Where a process of the two drivers with locks is, by its next step
ReadMarks == {"rlock", "runlock", "seqbegin", "seqretry"}
WriteMarks == {"wlock", "wunlock"}
LockedAt(p) ==
    LET D == Dos(todo[p])
        h == Head(todo[p]).do
        op == call[p].op
    IN  /\ op \in {"read", "write"} /\ h \in D /\ h \notin {"await", "complete"}
        /\ op = "read" => D \cap WriteMarks = {} /\ h \notin {"size", "in"}
        /\ op = "write" => D \cap ReadMarks = {} /\ h \notin {"out", "load", "add"}
        /\ driver = "chardrv_lock" => D \cap {"seqbegin", "seqretry"} = {}
        /\ driver = "chardrv_seqlock" => D \cap {"rlock", "runlock"} = {}
        /\ op = "read" /\ h \in {"count", "out", "load", "add"}
             => D \cap {"rlock", "seqbegin"} = {} /\ D \cap {"runlock", "seqretry"} # {}
        /\ op = "write" /\ h \in {"count", "in"} => "wlock" \notin D /\ "wunlock" \in D
        /\ h = "rlock" => "runlock" \in D
        /\ h = "wlock" => "wunlock" \in D
        /\ h = "seqbegin" => "seqretry" \in D
        /\ h = "runlock" => "rlock" \notin D
        /\ h = "wunlock" => "wlock" \notin D
        /\ h = "seqretry" => "seqbegin" \notin D
        /\ h \in {"return", "failed"} => D = {h}

\* What the next step of a driver with a lock says of the steps left
LEMMA LockedAts ==
    ASSUME TypeOK, Shape, driver \in Locked, NEW p \in Processes, todo[p] # <<>>
    PROVE  LockedAt(p)
<1> DEFINE t == todo[p]
<1> DEFINE D == Dos(t)
<1> DEFINE h == Head(t).do
<1> DEFINE op == call[p].op
<1> DEFINE P == Dos(Prog(driver, op))
<1> DEFINE T == Dos(Tail(t))
<1>1. driver \in Offsets
  BY OffsetDos
<1>2. /\ op \in {"read", "write"} /\ h \in D /\ h \notin T /\ D = {h} \union T
      /\ \A e \in T : Rank[h] < Rank[e]
      /\ D \subseteq P \union {"failed"}
      /\ "failed" \in D => D = {"failed"} \/ \E unlock \in Unlocks \cap P : D = {unlock, "failed"}
      /\ "failed" \notin D => /\ "return" \in D /\ D \subseteq P
                              /\ \A a \in P \ D : \A b \in D : Rank[a] < Rank[b]
  BY <1>1, OffsetAt
<1>3. /\ op = "read" => P = {"count", "out", "load", "add", "return"} \union
                 (IF driver = "chardrv_lock" THEN {"rlock", "runlock"}
                                             ELSE {"seqbegin", "seqretry"})
      /\ op = "write" => P = {"size", "count", "in", "return", "wlock", "wunlock"}
  <2>1. /\ Dos(Prog(driver, "read")) = {"count", "out", "load", "add", "return"} \union
                 (CASE driver = "chardev_sync" -> {"await"}
                    [] driver = "chardrv_lock" -> {"rlock", "runlock"}
                    [] driver = "chardrv_seqlock" -> {"seqbegin", "seqretry"})
        /\ Dos(Prog(driver, "write")) = {"size", "count", "in", "return"} \union
                 (IF driver = "chardev_sync" THEN {"complete"} ELSE {"wlock", "wunlock"})
    BY <1>1, OffsetDos
  <2>2. driver = "chardrv_lock" \/ driver = "chardrv_seqlock"
    BY DEF Locked
  <2>3. CASE driver = "chardrv_lock"
    BY <2>1, <2>3
  <2>4. CASE driver = "chardrv_seqlock"
    BY <2>1, <2>4
  <2>5. QED
    BY <2>2, <2>3, <2>4
<1> HIDE DEF t, D, h, op, P, T
<1>4. driver = "chardrv_lock" \/ driver = "chardrv_seqlock"
  BY DEF Locked
\* the order of the steps, and the last ones
<1>5. ASSUME h \in {"return", "failed"} PROVE D = {h}
  <2>1. \A e \in P \union {"failed"} : ~(8 < Rank[e])
    BY <1>2, <1>3, <1>4 DEF Rank
  <2>2. Rank[h] = 8
    BY <1>5 DEF Rank
  <2>3. T = {}
    BY <1>2, <2>1, <2>2
  <2>4. QED
    BY <1>2, <2>3
<1>6. /\ h = "runlock" => "rlock" \notin D
      /\ h = "wunlock" => "wlock" \notin D
      /\ h = "seqretry" => "seqbegin" \notin D
  BY <1>2 DEF Rank
<1>7. ASSUME "failed" \notin D PROVE
      /\ op = "read" /\ h \in {"count", "out", "load", "add", "rlock", "seqbegin"}
            => D \cap {"runlock", "seqretry"} # {}
      /\ op = "write" /\ h \in {"count", "in", "wlock"} => "wunlock" \in D
  <2>1. op = "read" /\ h \in {"count", "out", "load", "add", "rlock", "seqbegin"}
            => D \cap {"runlock", "seqretry"} # {}
    BY <1>2, <1>3, <1>4, <1>7 DEF Rank
  <2>2. op = "write" /\ h \in {"count", "in", "wlock"} => "wunlock" \in D
    BY <1>2, <1>3, <1>4, <1>7 DEF Rank
  <2>3. QED
    BY <2>1, <2>2
<1>8. /\ op = "read" /\ h \in {"count", "out", "load", "add"} => D \cap {"rlock", "seqbegin"} = {}
      /\ op = "write" /\ h \in {"count", "in"} => "wlock" \notin D
  BY <1>2 DEF Rank
<1>9. "failed" \in D => h \notin {"count", "out", "load", "add", "in", "rlock", "seqbegin", "wlock"}
  BY <1>2 DEF Unlocks
<1>10. /\ op = "read" => D \cap WriteMarks = {} /\ h \notin {"size", "in", "await", "complete"}
       /\ op = "write" => D \cap ReadMarks = {} /\ h \notin {"out", "load", "add", "await", "complete"}
       /\ driver = "chardrv_lock" => D \cap {"seqbegin", "seqretry"} = {}
       /\ driver = "chardrv_seqlock" => D \cap {"rlock", "runlock"} = {}
  BY <1>2, <1>3, <1>4 DEF WriteMarks, ReadMarks
<1>11. /\ h = "rlock" => op = "read" /\ driver = "chardrv_lock"
       /\ h = "seqbegin" => op = "read" /\ driver = "chardrv_seqlock"
       /\ h = "wlock" => op = "write"
  BY <1>2, <1>4, <1>10 DEF WriteMarks, ReadMarks
<1>12. /\ h = "rlock" => "runlock" \in D
       /\ h = "wlock" => "wunlock" \in D
       /\ h = "seqbegin" => "seqretry" \in D
  BY <1>7, <1>9, <1>10, <1>11
<1>13. QED
  BY <1>2, <1>5, <1>6, <1>7, <1>8, <1>9, <1>10, <1>12 DEF LockedAt, t, D, h, op

\* What a process has read is in the buffer
Agrees(q, m) == \A k \in DOMAIN got[q] : got[q][k] = m[k]

\* Who holds the locks, by the steps that are left
Locking(q) ==
    /\ q \in writer <=> "wunlock" \in Dos(todo[q]) /\ "wlock" \notin Dos(todo[q])
    /\ q \in readers <=> "runlock" \in Dos(todo[q]) /\ "rlock" \notin Dos(todo[q])
    /\ loaded[q].sequence <= sequence

\* What a read has seen: the buffer as it is while it holds the lock, or while
\* the count is the one it began with; and in the end a buffer that stood
Seen(q) ==
    InCall(q) /\ Reading(call[q].op) =>
        /\ writer = {} => mem \in snapshots[q]
        /\ Dos(todo[q]) \cap {"rlock", "seqbegin"} # {} => DOMAIN got[q] = {}
        /\ q \in readers => Agrees(q, mem)
        /\ driver = "chardrv_seqlock" /\ "seqbegin" \notin Dos(todo[q])
             /\ loaded[q].sequence = sequence
           => writer = {} /\ Agrees(q, mem)
        /\ Dos(todo[q]) \cap {"runlock", "seqretry"} = {} /\ "return" \in Dos(todo[q])
           => \E s \in snapshots[q] : Agrees(q, s)

LockedInv ==
    driver \in Locked => /\ \A q \in Processes : Locking(q) /\ Seen(q)
                         /\ readers # {} => writer = {}

\* A process is untouched where none of this changes for it
Marks == ReadMarks \union WriteMarks \union {"return"}
Untouched(q) ==
    /\ InCall(q)' => InCall(q)
    /\ call'[q] = call[q]
    /\ Dos(todo'[q]) \cap Marks = Dos(todo[q]) \cap Marks
    /\ got'[q] = got[q] /\ loaded'[q].sequence = loaded[q].sequence
    /\ snapshots'[q] = snapshots[q]

\* Who is not touched by a step, and neither is the buffer, keeps what it knows
LEMMA UntouchedHolds ==
    ASSUME NEW q \in Processes, Untouched(q), Locking(q), Seen(q), driver' = driver,
           (q \in writer) = (q \in writer)', (q \in readers) = (q \in readers)', writer' = writer,
           sequence' = sequence, mem' = mem
    PROVE  Locking(q)' /\ Seen(q)'
<1> DEFINE D == Dos(todo[q])
<1> DEFINE E == Dos(todo'[q])
<1>1. \A a \in Marks : a \in E <=> a \in D
  BY DEF Untouched
<1>2. /\ "wunlock" \in Marks /\ "wlock" \in Marks /\ "runlock" \in Marks /\ "rlock" \in Marks
      /\ "seqbegin" \in Marks /\ "seqretry" \in Marks /\ "return" \in Marks
  BY DEF Marks, ReadMarks, WriteMarks
<1> HIDE DEF D, E
<1>3. Locking(q)'
  BY <1>1, <1>2 DEF Locking, Untouched, D, E
<1>4. Seen(q)'
  <2> SUFFICES ASSUME InCall(q)', Reading(call'[q].op) PROVE Seen(q)'
    BY DEF Seen
  <2>1. InCall(q) /\ Reading(call[q].op)
    BY DEF Untouched
  <2>2. QED
    BY <2>1, <1>1, <1>2 DEF Seen, Untouched, Agrees, D, E
<1>5. QED
  BY <1>3, <1>4


\* A copy of a message that fails goes to the end of the call
LEMMA MessageFaults ==
    ASSUME TypeOK, Shape, driver \in Messages, NEW p \in Processes, Fault(p)
    PROVE  /\ \A q \in Processes \ {p} : todo'[q] = todo[q]
           /\ \/ Dos(todo'[p]) = {"failed"} /\ Dos(todo[p]) \cap Unlocks = {}
              \/ \E unlock \in Unlocks :
                    unlock \in Dos(todo[p]) /\ Dos(todo'[p]) = {unlock, "failed"}
<1> DEFINE t == todo[p]
<1> DEFINE open == p \in opened
<1>1. t # <<>> /\ Head(t).do \in {"in", "out"} /\ todo \in [Processes -> Seq(Step)]
  BY DEF Fault, Doing, TypeOK
<1>2. driver \in DOMAIN Table /\ driver \in Messages /\ Shaped(driver, t, call[p].op, open)
  BY DEF Shape
<1>3. Calling(driver, t, call[p].op, TRUE)
  BY <1>1, AtWork DEF OpeningDos, Unlocks
<1> HIDE DEF open, t
<1>4. /\ Dos(S("failed")) = {"failed"}
      /\ \A unlock \in Unlocks : unlock \in Dos(t)
            => Dos(S(unlock) \o S("failed")) = {unlock, "failed"}
  BY <1>2, <1>3, ShapedFault
<1>5. \A do : Left(p, do) <=> do \in Dos(t)
  BY <1>1, LeftDos DEF t
<1>6. CASE /\ \A unlock \in Unlocks : ~Left(p, unlock)
           /\ todo' = [todo EXCEPT ![p] = S("failed")]
  <2>1. todo'[p] = S("failed") /\ \A q \in Processes \ {p} : todo'[q] = todo[q]
    BY <1>1, <1>6
  <2>2. QED
    BY <2>1, <1>4, <1>5, <1>6 DEF t
<1>7. CASE \E unlock \in Unlocks :
              Left(p, unlock) /\ todo' = [todo EXCEPT ![p] = S(unlock) \o S("failed")]
  <2>1. PICK unlock \in Unlocks :
              Left(p, unlock) /\ todo' = [todo EXCEPT ![p] = S(unlock) \o S("failed")]
    BY <1>7
  <2>2. todo'[p] = S(unlock) \o S("failed") /\ \A q \in Processes \ {p} : todo'[q] = todo[q]
    BY <1>1, <2>1
  <2>3. unlock \in Dos(t) /\ Dos(todo'[p]) = {unlock, "failed"}
    BY <2>1, <2>2, <1>4, <1>5
  <2>4. QED
    BY <2>2, <2>3 DEF t
<1>8. QED
  BY <1>6, <1>7 DEF Fault

\* A copy that fails
LEMMA FaultsTo ==
    ASSUME TypeOK, Shape, driver \in Offsets, NEW p \in Processes, Fault(p)
    PROVE  /\ \A q \in Processes \ {p} : todo'[q] = todo[q]
           /\ \/ Dos(todo'[p]) = {"failed"} /\ Dos(todo[p]) \cap Unlocks = {}
              \/ \E unlock \in Unlocks :
                    unlock \in Dos(todo[p]) /\ Dos(todo'[p]) = {unlock, "failed"}
BY OffsetDos, MessageFaults

\* What a call begins with
LEMMA Enters ==
    ASSUME TypeOK, Shape, \A p \in Processes : CallOK(p), NEW p \in Processes, Call(p)
    PROVE  /\ \A q \in Processes \ {p} : /\ todo'[q] = todo[q] /\ call'[q] = call[q]
                                         /\ snapshots'[q] = snapshots[q]
           /\ p \in opened /\ todo[p] = <<>> /\ todo'[p] # <<>>
           /\ call'[p].op \in DOMAIN Table[driver].ops /\ todo'[p] = Prog(driver, call'[p].op)
           /\ call'[p].id \in Nat \ {0} /\ call'[p].n \in 1 .. Size
           /\ driver # "chardev_minor" => call'[p].buffer = "kbuffer"
           /\ got[p] = <<>> /\ pos[p] = 0 /\ loaded[p] = NothingLoaded
           /\ snapshots'[p] = IF driver \in Locked /\ writer = {} THEN {mem} ELSE {}
           /\ dirty' = (dirty \/ \E q \in Processes \ {p} :
                                     /\ InCall(q)
                                     /\ \/ Writing(call'[p].op) \/ Writing(call[q].op)
                                        \/ driver \in BareSysfs \union {"chardev_minor"})
           /\ UNCHANGED <<driver, dataVars, lockVars, copyVars, strayed, latest, returned, spoiled,
                          message, crossed>>
<1>1. PICK op \in DOMAIN Table[driver].ops, n \in 1 .. Size, buffer \in Buffers,
              reg \in Registers \union {"POLLPRI", "none"} :
              /\ Enter(p, op, n, buffer, reg)
              /\ driver # "chardev_minor" => buffer = "kbuffer"
  BY CallsEnter
<1>2. /\ todo \in [Processes -> Seq(Step)] /\ call \in [Processes -> Calls] /\ calls \in Nat
      /\ snapshots \in [Processes -> SUBSET [Keys -> 0 .. Bound]]
  BY DEF TypeOK
<1>3. driver \in DOMAIN Table
  BY DEF Shape
<1>4. /\ todo[p] = <<>> /\ p \in opened /\ calls' = calls + 1
      /\ call' = [call EXCEPT ![p] = [op |-> op, n |-> n, id |-> calls', buffer |-> buffer,
                                      reg |-> reg]]
      /\ todo' = [todo EXCEPT ![p] = Prog(driver, op)]
      /\ snapshots' = [snapshots EXCEPT ![p] =
                          IF driver \in Locked /\ writer = {} THEN {mem} ELSE {}]
      /\ dirty' = (dirty \/ \E q \in Processes \ {p} :
                                /\ InCall(q)
                                /\ \/ Writing(op) \/ Writing(call[q].op)
                                   \/ driver \in BareSysfs \union {"chardev_minor"})
      /\ UNCHANGED <<driver, dataVars, lockVars, copyVars, strayed, latest, returned, spoiled,
                     message, crossed>>
  BY <1>1 DEF Enter, Prog
<1>5. todo'[p] = Prog(driver, op) /\ Prog(driver, op) # <<>>
  BY <1>2, <1>3, <1>4, FirstStep
<1>6. /\ call'[p].op = op /\ call'[p].n = n /\ call'[p].id = calls + 1
      /\ call'[p].buffer = buffer
  BY <1>2, <1>4
<1>7. /\ snapshots'[p] = IF driver \in Locked /\ writer = {} THEN {mem} ELSE {}
      /\ \A q \in Processes \ {p} : /\ todo'[q] = todo[q] /\ call'[q] = call[q]
                                    /\ snapshots'[q] = snapshots[q]
  BY <1>2, <1>4
<1>8. got[p] = <<>> /\ pos[p] = 0 /\ loaded[p] = NothingLoaded
  BY <1>4, IdleShape DEF CallOK
<1>9. calls + 1 \in Nat \ {0}
  BY <1>2
<1>10. QED
  BY <1>1, <1>4, <1>5, <1>6, <1>7, <1>8, <1>9

\* A call that begins
LEMMA OffsetEnters ==
    ASSUME TypeOK, Shape, \A p \in Processes : CallOK(p), driver \in Offsets,
           NEW p \in Processes, Call(p)
    PROVE  /\ \A q \in Processes \ {p} : /\ todo'[q] = todo[q] /\ call'[q] = call[q]
                                         /\ snapshots'[q] = snapshots[q]
           /\ todo[p] = <<>> /\ Dos(todo[p]) = {} /\ todo'[p] # <<>>
           /\ call'[p].op \in {"read", "write"} /\ Dos(todo'[p]) = Dos(Prog(driver, call'[p].op))
           /\ call'[p].id \in Nat \ {0} /\ call'[p].n \in 1 .. Size /\ call'[p].buffer = "kbuffer"
           /\ got[p] = <<>> /\ pos[p] = 0 /\ loaded[p] = NothingLoaded
           /\ snapshots'[p] = IF driver \in Locked /\ writer = {} THEN {mem} ELSE {}
           /\ UNCHANGED <<driver, dataVars, lockVars, copyVars, strayed, latest, returned, spoiled,
                          message, crossed>>
<1>1. /\ driver \in DOMAIN Table /\ DOMAIN Table[driver].ops = {"read", "write"}
      /\ driver # "chardev_minor"
  BY OffsetDos DEF Offsets
<1>2. Dos(todo[p]) = {} /\ call'[p].op \in {"read", "write"}
  BY <1>1, Enters, EmptyDos
<1>3. QED
  BY <1>1, <1>2, Enters

\* Steps at which no lock, no cell and no mark of a process changes
LEMMA LockedQuiet ==
    ASSUME TypeOK, Shape, LockedInv, driver \in Locked, driver' = driver,
           UNCHANGED <<mem, readers, writer, sequence>>, \A q \in Processes : Untouched(q)
    PROVE  LockedInv'
<1>1. ASSUME NEW q \in Processes PROVE Locking(q)' /\ Seen(q)'
  BY UntouchedHolds DEF LockedInv
<1>2. QED
  BY <1>1 DEF LockedInv

\* A step that is no mark touches nobody
LEMMA LockedAdvances ==
    ASSUME TypeOK, Shape, driver \in Locked, NEW p \in Processes, Advances(p),
           Head(todo[p]).do \notin Marks,
           \A q \in Processes : /\ got'[q] = got[q] /\ loaded'[q].sequence = loaded[q].sequence
                                /\ snapshots'[q] = snapshots[q]
    PROVE  \A q \in Processes : Untouched(q)
<1>1. /\ Dos(todo'[p]) = Dos(todo[p]) \ {Head(todo[p]).do}
      /\ \A q \in Processes \ {p} : todo'[q] = todo[q]
      /\ call' = call /\ todo[p] # <<>>
  BY OffsetDos, OffsetDrops DEF Advances
<1>2. Untouched(p)
  <2>1. Dos(todo'[p]) \cap Marks = Dos(todo[p]) \cap Marks
    BY <1>1
  <2>2. QED
    BY <2>1, <1>1 DEF Untouched, InCall
<1>3. ASSUME NEW q \in Processes \ {p} PROVE Untouched(q)
  BY <1>1 DEF Untouched, InCall
<1>4. QED
  BY <1>2, <1>3

\* Steps that work on no lock
LEMMA LockedPlain ==
    ASSUME TypeOK, Shape, LockedInv, driver \in Locked, NEW p \in Processes,
           \/ Count(p) \/ SetSize(p) \/ LoadOffset(p) \/ StoreOffset(p)
           \/ Await(p) \/ Complete(p)
    PROVE  LockedInv'
<1>1. Advances(p)
  BY Moves
<1>2. /\ Head(todo[p]).do \in {"count", "size", "load", "add", "await", "complete"}
      /\ UNCHANGED <<driver, mem, readers, writer, sequence, got, snapshots>>
  <2>1. CASE Count(p)
    BY <2>1 DEF Count, Doing, dataVars, lockVars, history
  <2>2. CASE SetSize(p)
    BY <2>2 DEF SetSize, Doing, lockVars, copyVars
  <2>3. CASE LoadOffset(p)
    BY <2>3 DEF LoadOffset, Doing, dataVars, lockVars, history
  <2>4. CASE StoreOffset(p)
    BY <2>4 DEF StoreOffset, Doing, lockVars
  <2>5. CASE Await(p)
    BY <2>5 DEF Await, Doing, lockVars, copyVars
  <2>6. CASE Complete(p)
    BY <2>6 DEF Complete, Doing, lockVars, copyVars, history
  <2>7. QED
    BY <2>1, <2>2, <2>3, <2>4, <2>5, <2>6
<1>3. \A q \in Processes : loaded'[q].sequence = loaded[q].sequence
  <2>1. loaded \in [Processes -> [n : 0 .. Size, len : 0 .. Size, offset : Nat, sequence : Nat]]
    BY DEF TypeOK
  <2>2. CASE Count(p)
    BY <2>1, <2>2 DEF Count
  <2>3. CASE LoadOffset(p)
    BY <2>1, <2>3 DEF LoadOffset
  <2>4. CASE StoreOffset(p)
    BY <2>1, <2>4 DEF StoreOffset
  <2>5. CASE SetSize(p) \/ Await(p) \/ Complete(p)
    BY <2>5 DEF SetSize, Await, Complete, copyVars
  <2>6. QED
    BY <2>2, <2>3, <2>4, <2>5
<1>4. Head(todo[p]).do \notin Marks
  BY <1>2 DEF Marks, ReadMarks, WriteMarks
<1>5. \A q \in Processes : Untouched(q)
  BY <1>1, <1>2, <1>3, <1>4, LockedAdvances
<1>6. QED
  BY <1>2, <1>5, LockedQuiet

\* A copy to the reader: the cell is what the buffer holds
LEMMA LockedCopyOut ==
    ASSUME TypeOK, Shape, LockedInv, driver \in Locked, NEW p \in Processes, CopyOut(p)
    PROVE  LockedInv'
<1>1. /\ todo[p] # <<>> /\ Head(todo[p]).do = "out"
      /\ UNCHANGED <<driver, mem, readers, writer, sequence, call, loaded, snapshots>>
  BY DEF CopyOut, Doing, dataVars, lockVars, callVars, history
<1>2. CASE pos[p] < loaded[p].n
  <2> DEFINE k == CellAt(p, pos[p] + 1)
  <2>1. got' = [got EXCEPT ![p] = With(@, k, mem[k])] /\ todo' = todo
    BY <1>2 DEF CopyOut
  <2>2. DOMAIN got = Processes
    BY DEF TypeOK
  <2> HIDE DEF k
  <2>3. got'[p] = With(got[p], k, mem[k]) /\ \A q \in Processes \ {p} : got'[q] = got[q]
    BY <2>1, <2>2
  <2>4. ASSUME NEW q \in Processes \ {p} PROVE Locking(q)' /\ Seen(q)'
    <3>1. Untouched(q)
      BY <1>1, <2>1, <2>3 DEF Untouched, InCall
    <3>2. QED
      BY <1>1, <3>1, UntouchedHolds DEF LockedInv
  <2>5. Locking(p)' /\ Seen(p)'
    <3>1. Locking(p) /\ Seen(p)
      BY DEF LockedInv
    <3>2. Locking(p)'
      BY <3>1, <1>1, <2>1 DEF Locking
    <3>3. /\ Dos(todo[p]) \cap {"rlock", "seqbegin"} = {}
          /\ Dos(todo[p]) \cap {"runlock", "seqretry"} # {}
      BY <1>1, LockedAts DEF LockedAt
    <3>4. Agrees(p, mem) => \A j \in DOMAIN got'[p] : got'[p][j] = mem[j]
      BY <2>3 DEF Agrees, With
    <3>5. Seen(p)'
      BY <3>1, <3>3, <3>4, <1>1, <2>1 DEF Seen, InCall, Agrees
    <3>6. QED
      BY <3>2, <3>5
  <2>6. QED
    BY <1>1, <2>4, <2>5 DEF LockedInv
<1>3. CASE ~(pos[p] < loaded[p].n)
  <2>1. Done(p) /\ got' = got
    BY <1>3 DEF CopyOut
  <2>2. Advances(p) /\ Head(todo[p]).do \notin Marks
    BY <1>1, <2>1 DEF Advances, Marks, ReadMarks, WriteMarks, CopyOut
  <2>3. \A q \in Processes : Untouched(q)
    BY <1>1, <2>1, <2>2, LockedAdvances
  <2>4. QED
    BY <1>1, <2>3, LockedQuiet
<1>4. QED
  BY <1>2, <1>3

\* A copy from the writer: no reader has the lock, and no count is the present one
LEMMA LockedCopyIn ==
    ASSUME TypeOK, Shape, LockedInv, driver \in Locked, NEW p \in Processes, CopyIn(p)
    PROVE  LockedInv'
<1>1. /\ todo[p] # <<>> /\ Head(todo[p]).do = "in"
      /\ UNCHANGED <<driver, readers, writer, sequence, call, got, loaded, snapshots>>
  BY DEF CopyIn, Doing, lockVars, callVars, history
<1>2. CASE pos[p] < loaded[p].n
  <2>1. todo' = todo
    BY <1>2 DEF CopyIn
  <2>2. call[p].op = "write" /\ "wlock" \notin Dos(todo[p]) /\ "wunlock" \in Dos(todo[p])
    BY <1>1, LockedAts DEF LockedAt
  <2>3. p \in writer /\ readers = {}
    BY <2>2 DEF LockedInv, Locking
  <2>4. ASSUME NEW q \in Processes PROVE Locking(q)' /\ Seen(q)'
    <3>1. Locking(q) /\ Seen(q)
      BY DEF LockedInv
    <3>2. Locking(q)'
      BY <3>1, <1>1, <2>1 DEF Locking
    <3>3. writer' # {} /\ readers' = {} /\ writer # {}
      BY <1>1, <2>3
    <3>4. Seen(q)'
      BY <3>1, <3>3, <1>1, <2>1 DEF Seen, InCall, Agrees
    <3>5. QED
      BY <3>2, <3>4
  <2>5. QED
    BY <1>1, <2>3, <2>4 DEF LockedInv
<1>3. CASE ~(pos[p] < loaded[p].n)
  <2>1. Done(p) /\ mem' = mem
    BY <1>3 DEF CopyIn
  <2>2. Advances(p) /\ Head(todo[p]).do \notin Marks
    BY <1>1, <2>1 DEF Advances, Marks, ReadMarks, WriteMarks, CopyIn
  <2>3. \A q \in Processes : Untouched(q)
    BY <1>1, <2>1, <2>2, LockedAdvances
  <2>4. QED
    BY <1>1, <2>1, <2>3, LockedQuiet
<1>4. QED
  BY <1>2, <1>3

\* The reader takes the lock and gives it back
LEMMA LockedReaders ==
    ASSUME TypeOK, Shape, LockedInv, driver \in Locked, NEW p \in Processes,
           ReadLock(p) \/ ReadUnlock(p)
    PROVE  LockedInv'
<1> DEFINE D == Dos(todo[p])
<1> DEFINE E == Dos(todo'[p])
<1>1. /\ todo[p] # <<>> /\ Head(todo[p]).do \in {"rlock", "runlock"}
      /\ UNCHANGED <<driver, mem, writer, sequence, call, got, loaded, snapshots>>
      /\ Advances(p)
  <2>1. Advances(p)
    BY Moves
  <2>2. CASE ReadLock(p)
    BY <2>1, <2>2 DEF ReadLock, Doing, dataVars, callVars, copyVars, history
  <2>3. CASE ReadUnlock(p)
    BY <2>1, <2>3 DEF ReadUnlock, Doing, dataVars, callVars, copyVars, history
  <2>4. QED
    BY <2>2, <2>3
<1>2. E = D \ {Head(todo[p]).do} /\ todo'[p] # <<>>
      /\ \A q \in Processes \ {p} : todo'[q] = todo[q]
  BY <1>1, OffsetDos, OffsetDrops
<1>3. LockedAt(p) /\ Locking(p) /\ Seen(p) /\ InCall(p)
  BY <1>1, LockedAts, OffsetDos, OffsetAt DEF LockedInv
<1> HIDE DEF D, E
<1>4. ASSUME NEW q \in Processes \ {p}, (q \in readers') = (q \in readers)
      PROVE  Locking(q)' /\ Seen(q)'
  <2>1. Untouched(q)
    BY <1>1, <1>2 DEF Untouched, InCall
  <2>2. QED
    BY <2>1, <1>1, <1>4, UntouchedHolds DEF LockedInv
<1>5. CASE ReadLock(p)
  <2>1. Head(todo[p]).do = "rlock" /\ writer = {} /\ readers' = readers \union {p}
    BY <1>5 DEF ReadLock, Doing
  <2>2. /\ "rlock" \in D /\ "runlock" \in D /\ call[p].op = "read" /\ driver = "chardrv_lock"
        /\ D \cap WriteMarks = {} /\ D \cap {"seqbegin", "seqretry"} = {}
    <3>1. "rlock" \in D /\ "runlock" \in D /\ call[p].op \in {"read", "write"}
      BY <1>3, <2>1 DEF LockedAt, D
    <3>2. call[p].op # "write" /\ driver # "chardrv_seqlock"
      BY <1>3, <3>1 DEF LockedAt, D, ReadMarks
    <3>3. QED
      BY <1>3, <3>1, <3>2 DEF LockedAt, D, Locked
  <2>3. E = D \ {"rlock"}
    BY <1>2, <2>1
  <2>4. Locking(p)'
    BY <1>1, <1>3, <2>1, <2>2, <2>3 DEF Locking, D, E, WriteMarks
  <2>5. DOMAIN got[p] = {}
    BY <1>3, <2>2 DEF Seen, D, Reading
  <2>6. Seen(p)'
    <3>1. mem \in snapshots[p]
      BY <1>3, <2>1, <2>2 DEF Seen, Reading
    <3>2. E \cap {"rlock", "seqbegin"} = {} /\ "runlock" \in E
      BY <2>2, <2>3
    <3>3. DOMAIN got'[p] = {} /\ mem' \in snapshots'[p] /\ writer' = {} /\ driver' # "chardrv_seqlock"
      BY <1>1, <2>1, <2>2, <2>5, <3>1
    <3>4. QED
      BY <3>2, <3>3 DEF Seen, Agrees, E
  <2>7. \A q \in Processes \ {p} : (q \in readers') = (q \in readers)
    BY <2>1
  <2>8. QED
    BY <1>1, <1>4, <2>1, <2>4, <2>6, <2>7 DEF LockedInv
<1>6. CASE ReadUnlock(p)
  <2>1. Head(todo[p]).do = "runlock" /\ readers' = readers \ {p}
    BY <1>6 DEF ReadUnlock, Doing
  <2>2. /\ "runlock" \in D /\ "rlock" \notin D /\ call[p].op = "read" /\ driver = "chardrv_lock"
        /\ D \cap WriteMarks = {} /\ D \cap {"seqbegin", "seqretry"} = {}
    <3>1. "runlock" \in D /\ "rlock" \notin D /\ call[p].op \in {"read", "write"}
      BY <1>3, <2>1 DEF LockedAt, D
    <3>2. call[p].op # "write" /\ driver # "chardrv_seqlock"
      BY <1>3, <3>1 DEF LockedAt, D, ReadMarks
    <3>3. QED
      BY <1>3, <3>1, <3>2 DEF LockedAt, D, Locked
  <2>3. E = D \ {"runlock"}
    BY <1>2, <2>1
  <2>4. Locking(p)'
    BY <1>1, <1>3, <2>1, <2>2, <2>3 DEF Locking, D, E, WriteMarks
  <2>5. p \in readers /\ writer = {}
    BY <1>3, <2>2 DEF Locking, LockedInv, D
  <2>6. mem \in snapshots[p] /\ Agrees(p, mem)
    BY <1>3, <2>2, <2>5 DEF Seen, Reading
  <2>7. Seen(p)'
    <3>1. E \cap {"rlock", "seqbegin"} = {}
      BY <2>2, <2>3
    <3>2. /\ mem' \in snapshots'[p] /\ writer' = {} /\ driver' # "chardrv_seqlock"
          /\ \A k \in DOMAIN got'[p] : got'[p][k] = mem'[k]
      BY <1>1, <2>2, <2>5, <2>6 DEF Agrees
    <3>3. QED
      BY <3>1, <3>2 DEF Seen, Agrees, E
  <2>8. \A q \in Processes \ {p} : (q \in readers') = (q \in readers)
    BY <2>1
  <2>9. QED
    BY <1>1, <1>4, <2>4, <2>5, <2>7, <2>8 DEF LockedInv
<1>7. QED
  BY <1>5, <1>6

\* The writer takes the lock, and the count moves on
LEMMA LockedWriteLock ==
    ASSUME TypeOK, Shape, LockedInv, driver \in Locked, NEW p \in Processes, WriteLock(p)
    PROVE  LockedInv'
<1> DEFINE D == Dos(todo[p])
<1> DEFINE E == Dos(todo'[p])
<1>1. /\ todo[p] # <<>> /\ Head(todo[p]).do = "wlock" /\ writer = {} /\ readers = {}
      /\ writer' = {p} /\ sequence' = sequence + 1
      /\ UNCHANGED <<driver, mem, readers, call, got, loaded, snapshots>>
  BY DEF WriteLock, Doing, dataVars, callVars, copyVars, history
<1>2. E = D \ {"wlock"} /\ \A q \in Processes \ {p} : todo'[q] = todo[q]
  BY <1>1, OffsetDos, OffsetDrops, Moves
<1>3. sequence \in Nat
      /\ loaded \in [Processes -> [n : 0 .. Size, len : 0 .. Size, offset : Nat, sequence : Nat]]
  BY DEF TypeOK
<1>4. LockedAt(p)
  BY <1>1, LockedAts
<1> HIDE DEF D, E
<1>5. "wlock" \in D /\ "wunlock" \in D /\ call[p].op = "write" /\ D \cap ReadMarks = {}
  <2>1. "wlock" \in D /\ "wunlock" \in D /\ call[p].op \in {"read", "write"}
    BY <1>1, <1>4 DEF LockedAt, D
  <2>2. call[p].op # "read"
    BY <1>4, <2>1 DEF LockedAt, D, WriteMarks
  <2>3. QED
    BY <1>4, <2>1, <2>2 DEF LockedAt, D
<1>6. ASSUME NEW q \in Processes
      PROVE  loaded'[q].sequence <= sequence' /\ loaded'[q].sequence # sequence'
  <2>1. loaded[q].sequence <= sequence /\ loaded[q].sequence \in Nat
    BY <1>3 DEF LockedInv, Locking
  <2>2. QED
    BY <2>1, <1>1, <1>3
<1>7. Locking(p)' /\ Seen(p)'
  <2>1. Locking(p)'
    <3>1. "runlock" \notin E /\ "wunlock" \in E /\ "wlock" \notin E
      BY <1>2, <1>5 DEF ReadMarks
    <3>2. QED
      BY <3>1, <1>1, <1>6 DEF Locking, E
  <2>2. Seen(p)'
    BY <1>1, <1>5 DEF Seen, Reading
  <2>3. QED
    BY <2>1, <2>2
<1>8. ASSUME NEW q \in Processes \ {p} PROVE Locking(q)' /\ Seen(q)'
  <2>1. Locking(q) /\ Seen(q) /\ todo'[q] = todo[q]
    BY <1>2 DEF LockedInv
  <2>2. Locking(q)'
    BY <2>1, <1>1, <1>6 DEF Locking
  <2>3. loaded'[q].sequence # sequence' /\ q \notin readers' /\ writer' # {}
    BY <1>1, <1>6
  <2>4. Seen(q)'
    BY <2>1, <2>3, <1>1 DEF Seen, InCall, Agrees
  <2>5. QED
    BY <2>2, <2>4
<1>9. QED
  BY <1>1, <1>7, <1>8 DEF LockedInv

\* The writer gives it back: what it leaves is a buffer that stands
LEMMA LockedWriteUnlock ==
    ASSUME TypeOK, Shape, LockedInv, driver \in Locked, NEW p \in Processes, WriteUnlock(p)
    PROVE  LockedInv'
<1> DEFINE D == Dos(todo[p])
<1> DEFINE E == Dos(todo'[p])
<1>1. /\ todo[p] # <<>> /\ Head(todo[p]).do = "wunlock" /\ writer' = {}
      /\ sequence' = sequence + 1
      /\ \A q \in Processes : snapshots'[q] = IF InCall(q) /\ Reading(call[q].op)
                                              THEN snapshots[q] \union {mem} ELSE snapshots[q]
      /\ UNCHANGED <<driver, mem, readers, call, got, loaded>>
  BY DEF WriteUnlock, Doing, dataVars, callVars, copyVars
<1>2. E = D \ {"wunlock"} /\ \A q \in Processes \ {p} : todo'[q] = todo[q]
  BY <1>1, OffsetDos, OffsetDrops, Moves
<1>3. /\ sequence \in Nat /\ \A i, j \in writer : i = j
      /\ loaded \in [Processes -> [n : 0 .. Size, len : 0 .. Size, offset : Nat, sequence : Nat]]
  BY DEF TypeOK
<1>4. LockedAt(p)
  BY <1>1, LockedAts
<1> HIDE DEF D, E
<1>5. "wlock" \notin D /\ "wunlock" \in D /\ call[p].op = "write" /\ D \cap ReadMarks = {}
  <2>1. "wlock" \notin D /\ "wunlock" \in D /\ call[p].op \in {"read", "write"}
    BY <1>1, <1>4 DEF LockedAt, D
  <2>2. call[p].op # "read"
    BY <1>4, <2>1 DEF LockedAt, D, WriteMarks
  <2>3. QED
    BY <1>4, <2>1, <2>2 DEF LockedAt, D
<1>6. p \in writer /\ readers = {}
  BY <1>5 DEF LockedInv, Locking, D
<1>7. ASSUME NEW q \in Processes
      PROVE  loaded'[q].sequence <= sequence' /\ loaded'[q].sequence # sequence'
  <2>1. loaded[q].sequence <= sequence /\ loaded[q].sequence \in Nat
    BY <1>3 DEF LockedInv, Locking
  <2>2. QED
    BY <2>1, <1>1, <1>3
<1>8. Locking(p)' /\ Seen(p)'
  <2>1. Locking(p)'
    <3>1. "runlock" \notin E /\ "wunlock" \notin E
      BY <1>2, <1>5 DEF ReadMarks
    <3>2. QED
      BY <3>1, <1>1, <1>6, <1>7 DEF Locking, E
  <2>2. Seen(p)'
    BY <1>1, <1>5 DEF Seen, Reading
  <2>3. QED
    BY <2>1, <2>2
<1>9. ASSUME NEW q \in Processes \ {p} PROVE Locking(q)' /\ Seen(q)'
  <2>1. Locking(q) /\ Seen(q) /\ todo'[q] = todo[q] /\ q \notin writer
    BY <1>2, <1>3, <1>6 DEF LockedInv
  <2>2. Locking(q)'
    BY <2>1, <1>1, <1>7 DEF Locking
  <2>3. Seen(q)'
    <3> SUFFICES ASSUME InCall(q)', Reading(call'[q].op) PROVE Seen(q)'
      BY DEF Seen
    <3>1. InCall(q) /\ Reading(call[q].op)
      BY <2>1, <1>1 DEF InCall
    <3>2. snapshots'[q] = snapshots[q] \union {mem}
      BY <3>1, <1>1
    <3>3. loaded'[q].sequence # sequence' /\ q \notin readers' /\ got'[q] = got[q] /\ mem' = mem
      BY <1>1, <1>6, <1>7
    <3>4. QED
      BY <2>1, <3>1, <3>2, <3>3 DEF Seen, Agrees
  <2>4. QED
    BY <2>2, <2>3
<1>10. QED
  BY <1>1, <1>6, <1>8, <1>9 DEF LockedInv

\* A read of the seqlock begins: the count is that of no writer
LEMMA LockedSeqBegin ==
    ASSUME TypeOK, Shape, LockedInv, driver \in Locked, NEW p \in Processes, SeqBegin(p)
    PROVE  LockedInv'
<1> DEFINE D == Dos(todo[p])
<1> DEFINE E == Dos(todo'[p])
<1>1. /\ todo[p] # <<>> /\ Head(todo[p]).do = "seqbegin" /\ writer = {}
      /\ loaded' = [loaded EXCEPT ![p].sequence = sequence]
      /\ UNCHANGED <<driver, mem, readers, writer, sequence, call, got, snapshots>>
  BY DEF SeqBegin, Doing, dataVars, lockVars, callVars, history
<1>2. /\ E = D \ {"seqbegin"} /\ todo'[p] # <<>>
      /\ \A q \in Processes \ {p} : todo'[q] = todo[q]
  BY <1>1, OffsetDos, OffsetDrops, Moves
<1>3. sequence \in Nat
      /\ loaded \in [Processes -> [n : 0 .. Size, len : 0 .. Size, offset : Nat, sequence : Nat]]
  BY DEF TypeOK
<1>4. LockedAt(p) /\ Locking(p) /\ Seen(p) /\ InCall(p)
  BY <1>1, LockedAts, OffsetDos, OffsetAt DEF LockedInv
<1> HIDE DEF D, E
<1>5. /\ "seqbegin" \in D /\ "seqretry" \in D /\ call[p].op = "read"
      /\ driver = "chardrv_seqlock" /\ D \cap {"rlock", "runlock"} = {} /\ D \cap WriteMarks = {}
  <2>1. "seqbegin" \in D /\ "seqretry" \in D /\ call[p].op \in {"read", "write"}
    BY <1>1, <1>4 DEF LockedAt, D
  <2>2. call[p].op # "write" /\ driver # "chardrv_lock"
    BY <1>4, <2>1 DEF LockedAt, D, ReadMarks
  <2>3. QED
    BY <1>4, <2>1, <2>2 DEF LockedAt, D, Locked
<1>6. loaded'[p].sequence = sequence /\ \A q \in Processes \ {p} : loaded'[q] = loaded[q]
  BY <1>1, <1>3
<1>7. ASSUME NEW q \in Processes \ {p} PROVE Locking(q)' /\ Seen(q)'
  <2>1. Untouched(q)
    BY <1>1, <1>2, <1>6 DEF Untouched, InCall
  <2>2. QED
    BY <2>1, <1>1, UntouchedHolds DEF LockedInv
<1>8. Locking(p)'
  BY <1>1, <1>2, <1>3, <1>4, <1>5, <1>6 DEF Locking, D, E, WriteMarks
<1>9. Seen(p)'
  <2>1. DOMAIN got[p] = {} /\ mem \in snapshots[p]
    BY <1>1, <1>4, <1>5 DEF Seen, D, Reading
  <2>2. E \cap {"rlock", "seqbegin"} = {} /\ "seqretry" \in E
    BY <1>2, <1>5
  <2>3. QED
    BY <2>1, <2>2, <1>1 DEF Seen, Agrees, E
<1>10. QED
  BY <1>1, <1>7, <1>8, <1>9 DEF LockedInv

\* It ends, if no writer came; or begins again
LEMMA LockedSeqRetry ==
    ASSUME TypeOK, Shape, LockedInv, driver \in Locked, NEW p \in Processes, SeqRetry(p)
    PROVE  LockedInv'
<1> DEFINE D == Dos(todo[p])
<1> DEFINE E == Dos(todo'[p])
<1>1. /\ todo[p] # <<>> /\ Head(todo[p]).do = "seqretry"
      /\ UNCHANGED <<driver, mem, readers, writer, sequence, call, loaded, snapshots>>
  BY DEF SeqRetry, Doing, dataVars, lockVars, callVars
<1>2. todo \in [Processes -> Seq(Step)] /\ DOMAIN got = Processes
  BY DEF TypeOK
<1>3. LockedAt(p) /\ Locking(p) /\ Seen(p) /\ InCall(p)
  BY <1>1, LockedAts, OffsetDos, OffsetAt DEF LockedInv
<1> HIDE DEF D, E
<1>4. /\ "seqbegin" \notin D /\ "seqretry" \in D /\ call[p].op = "read"
      /\ driver = "chardrv_seqlock" /\ D \cap {"rlock", "runlock"} = {} /\ D \cap WriteMarks = {}
  <2>1. "seqbegin" \notin D /\ "seqretry" \in D /\ call[p].op \in {"read", "write"}
    BY <1>1, <1>3 DEF LockedAt, D
  <2>2. call[p].op # "write" /\ driver # "chardrv_lock"
    BY <1>3, <2>1 DEF LockedAt, D, ReadMarks
  <2>3. QED
    BY <1>3, <2>1, <2>2 DEF LockedAt, D, Locked
<1>5. ASSUME NEW q \in Processes \ {p}, todo'[q] = todo[q], got'[q] = got[q]
      PROVE  Locking(q)' /\ Seen(q)'
  <2>1. Untouched(q)
    BY <1>1, <1>5 DEF Untouched, InCall
  <2>2. QED
    BY <2>1, <1>1, UntouchedHolds DEF LockedInv
<1>6. CASE sequence = loaded[p].sequence
  <2>1. Done(p) /\ got' = got
    BY <1>6 DEF SeqRetry
  <2>2. Advances(p)
    BY <1>1, <2>1 DEF Advances, SeqRetry
  <2>3. E = D \ {"seqretry"} /\ \A q \in Processes \ {p} : todo'[q] = todo[q]
    BY <1>1, <2>2, OffsetDos, OffsetDrops DEF D, E
  <2>4. Locking(p)'
    BY <1>1, <1>3, <1>4, <2>3 DEF Locking, D, E, WriteMarks
  <2>5. writer = {} /\ Agrees(p, mem) /\ mem \in snapshots[p]
    BY <1>3, <1>4, <1>6 DEF Seen, D, Reading
  <2>6. Seen(p)'
    <3>1. E \cap {"rlock", "seqbegin"} = {}
      BY <2>3, <1>4
    <3>2. /\ mem' \in snapshots'[p] /\ writer' = {}
          /\ \A k \in DOMAIN got'[p] : got'[p][k] = mem'[k]
      BY <1>1, <2>1, <2>5 DEF Agrees
    <3>3. QED
      BY <3>1, <3>2 DEF Seen, Agrees, E
  <2>7. QED
    BY <1>1, <1>5, <2>1, <2>3, <2>4, <2>6 DEF LockedInv
<1>7. CASE sequence # loaded[p].sequence
  <2>1. /\ todo' = [todo EXCEPT ![p] = Program(p)] /\ got' = [got EXCEPT ![p] = <<>>]
    BY <1>7 DEF SeqRetry
  <2>2. /\ todo'[p] = Prog(driver, "read") /\ DOMAIN got'[p] = {}
        /\ \A q \in Processes \ {p} : todo'[q] = todo[q] /\ got'[q] = got[q]
    <3>1. Program(p) = Prog(driver, "read")
      BY <1>4 DEF Program, Prog
    <3>2. todo'[p] = Program(p) /\ got'[p] = <<>>
      BY <1>2, <2>1
    <3>3. \A q \in Processes \ {p} : todo'[q] = todo[q] /\ got'[q] = got[q]
      BY <1>2, <2>1
    <3>4. QED
      BY <3>1, <3>2, <3>3
  <2>3. E = {"count", "out", "load", "add", "return", "seqbegin", "seqretry"}
    BY <1>4, <2>2, OffsetDos DEF Offsets, E
  <2>4. Locking(p)'
    BY <1>1, <1>3, <1>4, <2>3 DEF Locking, D, E, WriteMarks
  <2>5. Seen(p)'
    BY <1>1, <1>3, <1>4, <2>2, <2>3 DEF Seen, E, D, Agrees, Reading
  <2>6. QED
    BY <1>1, <1>5, <2>2, <2>4, <2>5 DEF LockedInv
<1>8. QED
  BY <1>6, <1>7

\* A copy that fails keeps the lock until it is given back
LEMMA LockedFault ==
    ASSUME TypeOK, Shape, LockedInv, driver \in Locked, NEW p \in Processes, Fault(p)
    PROVE  LockedInv'
<1> DEFINE D == Dos(todo[p])
<1> DEFINE E == Dos(todo'[p])
<1>1. /\ todo[p] # <<>> /\ Head(todo[p]).do \in {"in", "out"}
      /\ UNCHANGED <<driver, mem, readers, writer, sequence, call, got, loaded, snapshots>>
  BY DEF Fault, Doing, dataVars, lockVars, callVars, copyVars
<1>2. /\ \A q \in Processes \ {p} : todo'[q] = todo[q]
      /\ \/ E = {"failed"} /\ D \cap Unlocks = {}
         \/ \E unlock \in Unlocks : unlock \in D /\ E = {unlock, "failed"}
  BY OffsetDos, FaultsTo
<1>3. LockedAt(p) /\ Locking(p) /\ Seen(p) /\ InCall(p)
  BY <1>1, LockedAts, OffsetDos, OffsetAt DEF LockedInv
<1> HIDE DEF D, E
<1>4. ASSUME NEW q \in Processes \ {p} PROVE Locking(q)' /\ Seen(q)'
  <2>1. Untouched(q)
    BY <1>1, <1>2 DEF Untouched, InCall
  <2>2. QED
    BY <2>1, <1>1, UntouchedHolds DEF LockedInv
<1>5. call[p].op \in {"read", "write"}
  BY <1>3 DEF LockedAt
<1>6. CASE call[p].op = "read"
  <2>1. /\ D \cap {"rlock", "seqbegin"} = {} /\ D \cap {"runlock", "seqretry"} # {}
        /\ D \cap WriteMarks = {}
        /\ driver = "chardrv_lock" => D \cap {"seqbegin", "seqretry"} = {}
        /\ driver = "chardrv_seqlock" => D \cap {"rlock", "runlock"} = {}
    <3>1. Head(todo[p]).do = "out"
      BY <1>1, <1>3, <1>6 DEF LockedAt
    <3>2. QED
      BY <1>3, <1>6, <3>1 DEF LockedAt, D
  <2>2. PICK unlock \in {"runlock", "seqretry"} : unlock \in D /\ E = {unlock, "failed"}
    BY <1>2, <2>1 DEF Unlocks, WriteMarks
  <2>3. /\ "runlock" \in E <=> "runlock" \in D
        /\ E \cap {"wlock", "wunlock", "rlock", "seqbegin", "return"} = {}
    BY <2>1, <2>2 DEF Locked
  <2>4. Locking(p)'
    BY <1>1, <1>3, <2>1, <2>3 DEF Locking, D, E, WriteMarks
  <2>5. Seen(p)'
    BY <1>1, <1>3, <2>1, <2>3 DEF Seen, Agrees, D, E
  <2>6. QED
    BY <1>1, <1>4, <2>4, <2>5 DEF LockedInv
<1>7. CASE call[p].op = "write"
  <2>1. "wlock" \notin D /\ "wunlock" \in D /\ D \cap ReadMarks = {}
    <3>1. Head(todo[p]).do = "in"
      BY <1>1, <1>3, <1>7 DEF LockedAt
    <3>2. QED
      BY <1>3, <1>7, <3>1 DEF LockedAt, D
  <2>2. E = {"wunlock", "failed"}
    BY <1>2, <2>1 DEF Unlocks, ReadMarks
  <2>3. Locking(p)'
    BY <1>1, <1>3, <2>1, <2>2 DEF Locking, D, E, ReadMarks
  <2>4. Seen(p)'
    BY <1>1, <1>7 DEF Seen, Reading
  <2>5. QED
    BY <1>1, <1>4, <2>3, <2>4 DEF LockedInv
<1>8. QED
  BY <1>5, <1>6, <1>7

\* A call that ends has given its lock back
LEMMA LockedLeaves ==
    ASSUME TypeOK, Shape, LockedInv, driver \in Locked, NEW p \in Processes,
           Return(p) \/ Failed(p)
    PROVE  LockedInv'
<1>1. /\ todo[p] # <<>> /\ Head(todo[p]).do \in {"return", "failed"} /\ Leave(p)
      /\ UNCHANGED <<driver, mem, readers, writer, sequence>>
  BY DEF Return, Failed, Leave, Doing, dataVars, lockVars
<1>2. /\ DOMAIN got = Processes /\ todo \in [Processes -> Seq(Step)]
      /\ call \in [Processes -> Calls] /\ sequence \in Nat
      /\ loaded \in [Processes -> [n : 0 .. Size, len : 0 .. Size, offset : Nat, sequence : Nat]]
      /\ snapshots \in [Processes -> SUBSET [Keys -> 0 .. Bound]]
  BY DEF TypeOK
<1>3. todo'[p] = <<>>
  BY <1>1, ShapeLeaves
<1>4. loaded'[p] = NothingLoaded
      /\ \A q \in Processes \ {p} : /\ todo'[q] = todo[q] /\ call'[q] = call[q]
                                    /\ got'[q] = got[q] /\ loaded'[q] = loaded[q]
                                    /\ snapshots'[q] = snapshots[q]
  BY <1>1, <1>2 DEF Leave, Done
<1>5. Dos(todo'[p]) = {} /\ Dos(todo[p]) = {Head(todo[p]).do}
  BY <1>1, <1>3, EmptyDos, LockedAts DEF LockedAt
<1>6. Locking(p)'
  <2>1. p \notin writer /\ p \notin readers
    BY <1>1, <1>5 DEF LockedInv, Locking
  <2>2. loaded'[p].sequence = 0
    BY <1>4 DEF NothingLoaded
  <2>3. QED
    BY <1>1, <1>2, <1>5, <2>1, <2>2 DEF Locking
<1>7. Seen(p)'
  BY <1>3 DEF Seen, InCall
<1>8. ASSUME NEW q \in Processes \ {p} PROVE Locking(q)' /\ Seen(q)'
  <2>1. Untouched(q)
    BY <1>4 DEF Untouched, InCall
  <2>2. QED
    BY <2>1, <1>1, UntouchedHolds DEF LockedInv
<1>9. QED
  BY <1>1, <1>6, <1>7, <1>8 DEF LockedInv

\* and one that begins has not taken it
LEMMA LockedEnters ==
    ASSUME TypeOK, Shape, \A p \in Processes : CallOK(p), LockedInv, driver \in Locked,
           NEW p \in Processes, Call(p)
    PROVE  LockedInv'
<1> DEFINE E == Dos(todo'[p])
<1>1. /\ \A q \in Processes \ {p} : /\ todo'[q] = todo[q] /\ call'[q] = call[q]
                                    /\ snapshots'[q] = snapshots[q]
      /\ Dos(todo[p]) = {}
      /\ call'[p].op \in {"read", "write"} /\ E = Dos(Prog(driver, call'[p].op))
      /\ got[p] = <<>> /\ snapshots'[p] = IF driver \in Locked /\ writer = {} THEN {mem} ELSE {}
      /\ UNCHANGED <<driver, dataVars, lockVars, copyVars>>
  BY OffsetDos, OffsetEnters
<1>2. UNCHANGED <<driver, mem, readers, writer, sequence, got, loaded>>
  BY <1>1 DEF dataVars, lockVars, copyVars
<1> HIDE DEF E
<1>3. /\ call'[p].op = "read" => E = {"count", "out", "load", "add", "return"} \union
                 (IF driver = "chardrv_lock" THEN {"rlock", "runlock"}
                                             ELSE {"seqbegin", "seqretry"})
      /\ call'[p].op = "write" => E = {"size", "count", "in", "return", "wlock", "wunlock"}
  <2>1. CASE driver = "chardrv_lock"
    BY <1>1, <2>1, OffsetDos DEF Offsets
  <2>2. CASE driver = "chardrv_seqlock"
    BY <1>1, <2>2, OffsetDos DEF Offsets
  <2>3. QED
    BY <2>1, <2>2 DEF Locked
<1>4. Locking(p)'
  <2>1. Locking(p)
    BY DEF LockedInv
  <2>2. ("wunlock" \in E => "wlock" \in E) /\ ("runlock" \in E => "rlock" \in E)
    BY <1>1, <1>3
  <2>3. QED
    BY <2>1, <2>2, <1>1, <1>2 DEF Locking, E
<1>5. Seen(p)'
  <2> SUFFICES ASSUME call'[p].op = "read" PROVE Seen(p)'
    BY <1>1 DEF Seen, Reading
  <2>1. /\ "return" \in E /\ E \cap {"runlock", "seqretry"} # {} /\ DOMAIN got'[p] = {}
        /\ driver = "chardrv_seqlock" => "seqbegin" \in E
    BY <1>1, <1>2, <1>3
  <2>2. writer' = {} => mem' \in snapshots'[p]
    BY <1>1, <1>2
  <2>3. QED
    BY <2>1, <2>2, <1>2 DEF Seen, Agrees, E
<1>6. ASSUME NEW q \in Processes \ {p} PROVE Locking(q)' /\ Seen(q)'
  <2>1. Untouched(q)
    BY <1>1, <1>2 DEF Untouched, InCall
  <2>2. QED
    BY <2>1, <1>2, UntouchedHolds DEF LockedInv
<1>7. QED
  BY <1>2, <1>4, <1>5, <1>6 DEF LockedInv

\* Reads under the lock keep agreeing with a buffer that stood
LEMMA LockedStep ==
    ASSUME TypeOK, Shape, \A p \in Processes : CallOK(p), LockedInv, [Next]_vars
    PROVE  LockedInv'
<1>1. driver' = driver
  BY NextDriver
<1> SUFFICES ASSUME driver \in Locked PROVE LockedInv'
  BY <1>1 DEF LockedInv
<1>2. CASE UNCHANGED vars
  <2>1. UNCHANGED <<driver, mem, readers, writer, sequence, todo, call, got, loaded, snapshots>>
    BY <1>2 DEF vars, dataVars, lockVars, callVars, copyVars, history
  <2>2. \A q \in Processes : Untouched(q)
    BY <2>1 DEF Untouched, InCall
  <2>3. QED
    BY <2>1, <2>2, LockedQuiet
<1>3. CASE Next
  <2>1. PICK p \in Processes : OffsetMoves(p)
    BY <1>3, OffsetDos, OffsetNext
  <2>2. QED
    BY <2>1, LockedPlain, LockedCopyOut, LockedCopyIn, LockedReaders, LockedWriteLock,
       LockedWriteUnlock, LockedSeqBegin, LockedSeqRetry, LockedFault, LockedLeaves, LockedEnters
       DEF OffsetMoves
<1>4. QED
  BY <1>2, <1>3

\* Nobody has a lock at first
LEMMA LockedInit ==
    Init => Exclusive /\ Chosen /\ Unstrayed /\ LockedInv
<1> SUFFICES ASSUME Init PROVE Exclusive /\ Chosen /\ Unstrayed /\ LockedInv
  OBVIOUS
<1>1. /\ mutex = {} /\ writer = {} /\ readers = {} /\ sequence = 0 /\ ~strayed
      /\ driver \in DOMAIN Table
      /\ \A p \in Processes : todo[p] = <<>> /\ loaded[p] = NothingLoaded
  BY DriversAssumption DEF Init
<1>2. Exclusive
  <2>1. driver \in Alone => opened = {}
    BY <1>1, Openings DEF Init
  <2>2. QED
    BY <1>1, <2>1 DEF Exclusive, Holds, Inside
<1>3. Chosen /\ Unstrayed
  BY <1>1 DEF Chosen, AtPort, Unstrayed
<1>4. LockedInv
  <2>1. ASSUME NEW q \in Processes PROVE Locking(q) /\ Seen(q)
    <3>1. Dos(todo[q]) = {} /\ ~InCall(q) /\ loaded[q].sequence = 0
      BY <1>1, EmptyDos DEF InCall, NothingLoaded
    <3>2. QED
      BY <1>1, <3>1 DEF Locking, Seen
  <2>2. QED
    BY <1>1, <2>1 DEF LockedInv
<1>5. QED
  BY <1>2, <1>3, <1>4

\* The mutexes keep excluding each other's ports
LEMMA ExclusiveStep ==
    TypeOK /\ Shape /\ Exclusive /\ [Next]_vars => Exclusive'
<1> SUFFICES ASSUME TypeOK, Shape, Exclusive, [Next]_vars PROVE Exclusive'
  OBVIOUS
<1>1. driver' = driver
  BY NextDriver
<1>2. QED
  BY <1>1, AloneStep, MutexedStep DEF Exclusive

\* The invariant of all drivers
SharedInv == TypeInv /\ Exclusive /\ Chosen /\ Unstrayed /\ LockedInv

\* SharedInv is inductive
LEMMA SharedInvariant ==
    Spec => []SharedInv
<1>1. Init => SharedInv
  BY ShapeInit, TypeInit, LockedInit DEF SharedInv, TypeInv
<1>2. SharedInv /\ [Next]_vars => SharedInv'
  <2> SUFFICES ASSUME SharedInv, [Next]_vars PROVE SharedInv'
    OBVIOUS
  <2>1. TypeOK /\ Shape /\ (\A p \in Processes : CallOK(p)) /\ AddressSet
        /\ Exclusive /\ Chosen /\ Unstrayed /\ LockedInv
    BY DEF SharedInv, TypeInv
  <2>2. Shape'
    BY <2>1, ShapeStep
  <2>3. TypeInv'
    BY <2>1, <2>2, TypeStep, AddressStep, CallsStep DEF TypeInv
  <2>4. Exclusive' /\ Chosen' /\ Unstrayed'
    BY <2>1, ExclusiveStep, ChosenStep, UnstrayedStep
  <2>5. LockedInv'
    BY <2>1, LockedStep
  <2>6. QED
    BY <2>3, <2>4, <2>5 DEF SharedInv
<1>3. QED
  BY <1>1, <1>2, PTL DEF Spec

-----------------------------------------------------------------------------
(* What a read has copied, and the length that it returns.                 *)

\* A read has copied the cells up to pos, in the end as many as it has counted;
\* it returns as many, where no write has set the size in between
Cells(q, n) == {CellAt(q, i) : i \in 1 .. n}
ReadCopy(q) ==
    call[q].op = "read" =>
        /\ got[q] = [k \in Cells(q, pos[q]) |-> got[q][k]]
        /\ "count" \in Dos(todo[q]) => pos[q] = 0
        /\ "count" \notin Dos(todo[q]) => pos[q] <= loaded[q].n
        /\ "out" \notin Dos(todo[q]) /\ "return" \in Dos(todo[q]) => pos[q] = loaded[q].n

Counted(q) == call[q].op = "read" /\ "count" \notin Dos(todo[q]) /\ "add" \in Dos(todo[q])
Added(q) == call[q].op = "read" /\ "add" \notin Dos(todo[q]) /\ "return" \in Dos(todo[q])
ReadLen(q) ==
    /\ Counted(q) => loaded[q].n = size_of_msg
    /\ Added(q) => loaded[q].len = loaded[q].n

CopyInv ==
    driver \in Offsets => /\ \A q \in Processes : ReadCopy(q)
                          /\ "changed" \notin spoiled => \A q \in Processes : ReadLen(q)

\* A process is where it was
Rests(q) ==
    /\ call'[q] = call[q] /\ Dos(todo'[q]) = Dos(todo[q]) /\ pos'[q] = pos[q]
    /\ got'[q] = got[q] /\ loaded'[q].n = loaded[q].n /\ loaded'[q].len = loaded[q].len

\* so that only the process at the step has to be looked at
LEMMA CopyKept ==
    ASSUME CopyInv, driver \in Offsets, driver' = driver, NEW p \in Processes,
           \A q \in Processes \ {p} : Rests(q), "changed" \in spoiled => "changed" \in spoiled',
           \/ "changed" \in spoiled'
           \/ size_of_msg' = size_of_msg
           \/ \A q \in Processes \ {p} : ~Counted(q),
           ReadCopy(p)', "changed" \notin spoiled' => ReadLen(p)'
    PROVE  CopyInv'
<1>1. ASSUME NEW q \in Processes PROVE ReadCopy(q)'
  <2>1. CASE q = p
    BY <2>1
  <2>2. CASE q # p
    BY <2>2 DEF CopyInv, ReadCopy, Rests, Cells, CellAt
  <2>3. QED
    BY <2>1, <2>2
<1>2. ASSUME "changed" \notin spoiled', NEW q \in Processes PROVE ReadLen(q)'
  <2>1. CASE q = p
    BY <2>1, <1>2
  <2>2. CASE q # p
    BY <2>2, <1>2 DEF CopyInv, ReadLen, Counted, Added, Rests
  <2>3. QED
    BY <2>1, <2>2
<1>3. QED
  BY <1>1, <1>2 DEF CopyInv

\* One step of a program
LEMMA CopyDrops ==
    ASSUME TypeOK, Shape, driver \in Offsets, NEW p \in Processes, Advances(p),
           \A q \in Processes \ {p} :
               loaded'[q] = loaded[q] /\ pos'[q] = pos[q] /\ got'[q] = got[q]
    PROVE  /\ Dos(todo'[p]) = Dos(todo[p]) \ {Head(todo[p]).do}
           /\ AddAt(p) /\ call' = call /\ driver' = driver
           /\ \A q \in Processes \ {p} : Rests(q)
<1>1. /\ Dos(todo'[p]) = Dos(todo[p]) \ {Head(todo[p]).do}
      /\ \A q \in Processes \ {p} : todo'[q] = todo[q]
      /\ call' = call /\ driver' = driver
  BY OffsetDrops
<1>2. AddAt(p)
  BY AddAts DEF Advances
<1>3. QED
  BY <1>1, <1>2 DEF Rests

\* Steps of a program that neither count nor copy nor add
LEMMA CopyAdvances ==
    ASSUME TypeOK, Shape, CopyInv, driver \in Offsets, NEW p \in Processes, Advances(p),
           Head(todo[p]).do \notin {"count", "out", "add", "size"},
           UNCHANGED <<size_of_msg, pos, got>>,
           "changed" \in spoiled <=> "changed" \in spoiled',
           \A q \in Processes \ {p} : loaded'[q] = loaded[q],
           loaded'[p].n = loaded[p].n, loaded'[p].len = loaded[p].len
    PROVE  CopyInv'
<1> DEFINE D == Dos(todo[p])
<1> DEFINE E == Dos(todo'[p])
<1>1. /\ E = D \ {Head(todo[p]).do} /\ call' = call /\ driver' = driver
      /\ \A q \in Processes \ {p} : Rests(q)
  BY CopyDrops
<1>2. Head(todo[p]).do # "return"
  BY DEF Advances
<1> HIDE DEF D, E
<1>3. /\ "count" \in E <=> "count" \in D
      /\ "out" \in E <=> "out" \in D
      /\ "add" \in E <=> "add" \in D
      /\ "return" \in E <=> "return" \in D
  BY <1>1, <1>2
<1>4. ReadCopy(p)'
  BY <1>1, <1>3 DEF CopyInv, ReadCopy, Cells, CellAt, D, E
<1>5. "changed" \notin spoiled' => ReadLen(p)'
  BY <1>1, <1>3 DEF CopyInv, ReadLen, Counted, Added, D, E
<1>6. QED
  BY <1>1, <1>4, <1>5, CopyKept

\* The waits, the locks, the load of the offset
LEMMA CopyPlain ==
    ASSUME TypeOK, Shape, CopyInv, driver \in Offsets, NEW p \in Processes,
           \/ LoadOffset(p) \/ Await(p) \/ Complete(p) \/ SeqBegin(p)
           \/ ReadLock(p) \/ ReadUnlock(p) \/ WriteLock(p) \/ WriteUnlock(p)
    PROVE  CopyInv'
<1> DEFINE Quiet == /\ Head(todo[p]).do \notin {"count", "out", "add", "size"}
                    /\ UNCHANGED <<size_of_msg, pos, got>>
                    /\ "changed" \in spoiled <=> "changed" \in spoiled'
                    /\ \A q \in Processes \ {p} : loaded'[q] = loaded[q]
                    /\ loaded'[p].n = loaded[p].n /\ loaded'[p].len = loaded[p].len
<1>1. loaded \in [Processes -> [n : 0 .. Size, len : 0 .. Size, offset : Nat, sequence : Nat]]
  BY DEF TypeOK
<1>2. LoadOffset(p) => Quiet
  BY <1>1 DEF LoadOffset, Doing, dataVars, history
<1>3. SeqBegin(p) => Quiet
  BY <1>1 DEF SeqBegin, Doing, dataVars, history
<1>4. Await(p) \/ Complete(p) => Quiet
  BY DEF Await, Complete, Doing, copyVars, history
<1>5. ReadLock(p) \/ ReadUnlock(p) => Quiet
  BY DEF ReadLock, ReadUnlock, Doing, dataVars, copyVars, history
<1>6. WriteLock(p) \/ WriteUnlock(p) => Quiet
  BY DEF WriteLock, WriteUnlock, Doing, dataVars, copyVars, history
<1>7. Quiet /\ Advances(p)
  BY <1>2, <1>3, <1>4, <1>5, <1>6, Moves
<1>8. QED
  BY <1>7, CopyAdvances

\* The count is the size that there is
LEMMA CopyCount ==
    ASSUME TypeOK, Shape, CopyInv, driver \in Offsets, NEW p \in Processes, Count(p)
    PROVE  CopyInv'
<1> DEFINE D == Dos(todo[p])
<1> DEFINE E == Dos(todo'[p])
<1>1. /\ Head(todo[p]).do = "count" /\ Advances(p)
      /\ loaded' = [loaded EXCEPT ![p].n = size_of_msg]
      /\ UNCHANGED <<size_of_msg, pos, got, spoiled>>
  BY Moves DEF Count, Doing, dataVars, history
<1>2. /\ loaded \in [Processes -> [n : 0 .. Size, len : 0 .. Size, offset : Nat, sequence : Nat]]
      /\ pos \in [Processes -> 0 .. Size] /\ size_of_msg \in 0 .. Size
  BY DEF TypeOK
<1>3. loaded'[p].n = size_of_msg /\ \A q \in Processes \ {p} : loaded'[q] = loaded[q]
  BY <1>1, <1>2
<1>4. /\ E = D \ {"count"} /\ AddAt(p) /\ call' = call /\ driver' = driver
      /\ \A q \in Processes \ {p} : Rests(q)
  BY <1>1, <1>3, CopyDrops
<1> HIDE DEF D, E
<1>5. call[p].op = "read" => {"count", "out", "add"} \subseteq D
  BY <1>1, <1>4 DEF AddAt, D
<1>6. ReadCopy(p)'
  <2>1. call[p].op = "read" => 0 <= size_of_msg /\ "count" \notin E /\ "out" \in E
    BY <1>2, <1>4, <1>5
  <2>2. QED
    BY <2>1, <1>1, <1>3, <1>4, <1>5 DEF CopyInv, ReadCopy, Cells, CellAt, D, E
<1>7. ReadLen(p)'
  <2>1. call[p].op = "read" => "add" \in E
    BY <1>4, <1>5
  <2>2. QED
    BY <2>1, <1>1, <1>3, <1>4 DEF ReadLen, Counted, Added, E
<1>8. QED
  BY <1>1, <1>4, <1>6, <1>7, CopyKept

\* One cell more, or the end of the copy
LEMMA CopyOuts ==
    ASSUME TypeOK, Shape, CopyInv, driver \in Offsets, NEW p \in Processes, CopyOut(p)
    PROVE  CopyInv'
<1> DEFINE D == Dos(todo[p])
<1> DEFINE E == Dos(todo'[p])
<1>1. /\ todo[p] # <<>> /\ Head(todo[p]).do = "out"
      /\ UNCHANGED <<driver, call, loaded, size_of_msg, spoiled>>
  BY DEF CopyOut, Doing, dataVars, callVars, history
<1>2. /\ pos \in [Processes -> 0 .. Size] /\ DOMAIN got = Processes
      /\ pos[p] \in Nat /\ loaded[p].n \in Nat
  BY SizeAssumption DEF TypeOK
<1>3. AddAt(p)
  BY <1>1, AddAts
<1>4. /\ call[p].op = "read" /\ "count" \notin D /\ "out" \in D
      /\ got[p] = [k \in Cells(p, pos[p]) |-> got[p][k]] /\ pos[p] <= loaded[p].n
  BY <1>1, <1>3 DEF AddAt, CopyInv, ReadCopy
<1> HIDE DEF D, E
<1>5. CASE pos[p] < loaded[p].n
  <2> DEFINE k == CellAt(p, pos[p] + 1)
  <2> DEFINE g == got[p]
  <2> HIDE DEF k
  <2>1. /\ got' = [got EXCEPT ![p] = With(@, k, mem[k])] /\ pos' = [pos EXCEPT ![p] = @ + 1]
        /\ todo' = todo
    BY <1>5 DEF CopyOut, k
  <2>2. /\ got'[p] = With(g, k, mem[k]) /\ pos'[p] = pos[p] + 1
        /\ \A q \in Processes \ {p} : got'[q] = got[q] /\ pos'[q] = pos[q]
    BY <1>2, <2>1
  <2>3. DOMAIN g = Cells(p, pos[p])
    BY <1>4
  <2> HIDE DEF g
  <2>4. Cells(p, pos[p] + 1) = Cells(p, pos[p]) \union {k}
    <3>1. 1 .. pos[p] + 1 = (1 .. pos[p]) \union {pos[p] + 1}
      BY <1>2
    <3>2. QED
      BY <3>1 DEF Cells, k
  <2>5. got'[p] = [x \in Cells(p, pos[p] + 1) |-> got'[p][x]]
    BY <2>2, <2>3, <2>4 DEF With
  <2>8. E = D
    BY <2>1 DEF D, E
  <2>9. ReadCopy(p)'
    <3>1. Cells(p, pos[p])' = Cells(p, pos[p] + 1)
      BY <1>1, <2>2 DEF Cells, CellAt
    <3>2. pos'[p] <= loaded'[p].n /\ "out" \in E /\ "count" \notin E
      BY <1>1, <1>2, <1>4, <1>5, <2>2, <2>8
    <3>3. QED
      BY <2>5, <3>1, <3>2 DEF ReadCopy, E
  <2>10. "changed" \notin spoiled' => ReadLen(p)'
    BY <1>1, <2>1 DEF CopyInv, ReadLen, Counted, Added
  <2>11. \A q \in Processes \ {p} : Rests(q)
    BY <1>1, <2>1, <2>2 DEF Rests
  <2>12. QED
    BY <1>1, <2>9, <2>10, <2>11, CopyKept
<1>6. CASE ~(pos[p] < loaded[p].n)
  <2>1. Advances(p) /\ UNCHANGED <<got, pos>>
    BY <1>1, <1>6 DEF CopyOut, Advances
  <2>2. E = D \ {"out"} /\ \A q \in Processes \ {p} : Rests(q)
    BY <1>1, <2>1, CopyDrops DEF D, E
  <2>3. pos[p] = loaded[p].n
    BY <1>2, <1>4, <1>6
  <2>4. ReadCopy(p)'
    BY <1>1, <1>4, <2>1, <2>2, <2>3 DEF CopyInv, ReadCopy, Cells, CellAt, D, E
  <2>5. "changed" \notin spoiled' => ReadLen(p)'
    BY <1>1, <1>4, <2>1, <2>2 DEF CopyInv, ReadLen, Counted, Added, D, E
  <2>6. QED
    BY <1>1, <2>2, <2>4, <2>5, CopyKept
<1>7. QED
  BY <1>5, <1>6

\* A copy from a writer
LEMMA CopyIns ==
    ASSUME TypeOK, Shape, CopyInv, driver \in Offsets, NEW p \in Processes, CopyIn(p)
    PROVE  CopyInv'
<1>1. /\ todo[p] # <<>> /\ Head(todo[p]).do = "in" /\ (Stays \/ Advances(p))
      /\ UNCHANGED <<driver, call, got, loaded, size_of_msg, spoiled>>
  <2>1. Stays \/ Advances(p)
    BY Moves
  <2>2. QED
    BY <2>1 DEF CopyIn, Doing, callVars
<1>2. AddAt(p)
  BY <1>1, AddAts
<1>3. call[p].op = "write"
  BY <1>1, <1>2 DEF AddAt
<1>4. \A q \in Processes \ {p} : todo'[q] = todo[q] /\ pos'[q] = pos[q]
  <2>1. pos \in [Processes -> 0 .. Size]
    BY DEF TypeOK
  <2>2. \A q \in Processes \ {p} : pos'[q] = pos[q]
    BY <2>1 DEF CopyIn
  <2>3. QED
    BY <1>1, <2>2, OffsetDrops DEF Stays
<1>5. ReadCopy(p)' /\ ReadLen(p)' /\ \A q \in Processes \ {p} : Rests(q)
  BY <1>1, <1>3, <1>4 DEF ReadCopy, ReadLen, Counted, Added, Rests
<1>6. QED
  BY <1>1, <1>5, CopyKept

\* A write that sets the size under a reader changes what that will return
LEMMA CopySize ==
    ASSUME TypeOK, Shape, CopyInv, driver \in Offsets, NEW p \in Processes, SetSize(p)
    PROVE  CopyInv'
<1>1. /\ Head(todo[p]).do = "size" /\ Advances(p) /\ todo[p] # <<>>
      /\ "changed" \in spoiled => "changed" \in spoiled'
      /\ (\E q \in Processes \ {p} : /\ InCall(q) /\ call[q].op = "read"
                                     /\ ~Left(q, "count") /\ Left(q, "add"))
            => "changed" \in spoiled'
      /\ UNCHANGED <<pos, got, loaded>>
  BY Moves DEF SetSize, Doing, copyVars
<1>2. /\ AddAt(p) /\ call' = call /\ driver' = driver /\ \A q \in Processes \ {p} : Rests(q)
  BY <1>1, CopyDrops
<1>3. call[p].op = "write"
  BY <1>1, <1>2 DEF AddAt
<1>4. ASSUME "changed" \notin spoiled', NEW q \in Processes \ {p}, Counted(q) PROVE FALSE
  <2>1. InCall(q)
    BY <1>4, IdleShape DEF InCall, Counted
  <2>2. /\ Left(q, "count") <=> "count" \in Dos(todo[q])
        /\ Left(q, "add") <=> "add" \in Dos(todo[q])
    BY LeftDos DEF TypeOK
  <2>3. QED
    BY <1>1, <1>4, <2>1, <2>2 DEF Counted
<1>5. ReadCopy(p)' /\ ReadLen(p)'
  BY <1>2, <1>3 DEF ReadCopy, ReadLen, Counted, Added
<1>6. QED
  BY <1>1, <1>2, <1>4, <1>5, CopyKept

\* The length that is added and will be returned
LEMMA CopyAdds ==
    ASSUME TypeOK, Shape, CopyInv, driver \in Offsets, NEW p \in Processes, StoreOffset(p)
    PROVE  CopyInv'
<1> DEFINE D == Dos(todo[p])
<1> DEFINE E == Dos(todo'[p])
<1>1. /\ Head(todo[p]).do = "add" /\ Advances(p)
      /\ loaded' = [loaded EXCEPT ![p].len = size_of_msg]
      /\ "changed" \in spoiled <=> "changed" \in spoiled'
      /\ UNCHANGED <<size_of_msg, pos, got>>
  BY Moves DEF StoreOffset, Doing
<1>2. loaded \in [Processes -> [n : 0 .. Size, len : 0 .. Size, offset : Nat, sequence : Nat]]
  BY DEF TypeOK
<1>3. /\ loaded'[p].len = size_of_msg /\ loaded'[p].n = loaded[p].n
      /\ \A q \in Processes \ {p} : loaded'[q] = loaded[q]
  BY <1>1, <1>2
<1>4. /\ E = D \ {"add"} /\ AddAt(p) /\ call' = call /\ driver' = driver
      /\ \A q \in Processes \ {p} : Rests(q)
  BY <1>1, <1>3, CopyDrops
<1> HIDE DEF D, E
<1>5. call[p].op = "read" /\ "count" \notin D /\ "add" \in D /\ "add" \notin E
  BY <1>1, <1>4 DEF AddAt, D
<1>6. ReadCopy(p)'
  BY <1>1, <1>3, <1>4 DEF CopyInv, ReadCopy, Cells, CellAt, D, E
<1>7. "changed" \notin spoiled' => ReadLen(p)'
  BY <1>1, <1>3, <1>4, <1>5 DEF CopyInv, ReadLen, Counted, Added, D, E
<1>8. QED
  BY <1>1, <1>4, <1>6, <1>7, CopyKept

\* A copy that fails returns nothing
LEMMA CopyFault ==
    ASSUME TypeOK, Shape, CopyInv, driver \in Offsets, NEW p \in Processes, Fault(p)
    PROVE  CopyInv'
<1> DEFINE D == Dos(todo[p])
<1> DEFINE E == Dos(todo'[p])
<1>1. /\ todo[p] # <<>> /\ Head(todo[p]).do \in {"in", "out"}
      /\ UNCHANGED <<driver, call, size_of_msg, pos, got, loaded>>
      /\ "changed" \in spoiled <=> "changed" \in spoiled'
  BY DEF Fault, Doing, dataVars, callVars, copyVars
<1>2. /\ \A q \in Processes \ {p} : todo'[q] = todo[q]
      /\ \/ E = {"failed"}
         \/ \E unlock \in Unlocks : unlock \in D /\ E = {unlock, "failed"}
  BY FaultsTo
<1>3. AddAt(p)
  BY <1>1, AddAts
<1> HIDE DEF D, E
<1>4. E \cap {"return", "count", "add"} = {}
  BY <1>2 DEF Unlocks
<1>5. "count" \notin D
  BY <1>1, <1>3 DEF AddAt, D
<1>6. ReadCopy(p)'
  BY <1>1, <1>4, <1>5 DEF CopyInv, ReadCopy, Cells, CellAt, D, E
<1>7. ReadLen(p)'
  BY <1>4 DEF ReadLen, Counted, Added, E
<1>8. \A q \in Processes \ {p} : Rests(q)
  BY <1>1, <1>2 DEF Rests
<1>9. QED
  BY <1>1, <1>6, <1>7, <1>8, CopyKept

\* A call that ends
LEMMA CopyLeaves ==
    ASSUME TypeOK, Shape, CopyInv, driver \in Offsets, NEW p \in Processes,
           Return(p) \/ Failed(p)
    PROVE  CopyInv'
<1>1. Leave(p) /\ driver' = driver /\ UNCHANGED <<size_of_msg, spoiled>>
  BY DEF Return, Failed, Leave, dataVars
<1>2. /\ DOMAIN got = Processes /\ todo \in [Processes -> Seq(Step)]
      /\ call \in [Processes -> Calls] /\ pos \in [Processes -> 0 .. Size]
      /\ loaded \in [Processes -> [n : 0 .. Size, len : 0 .. Size, offset : Nat, sequence : Nat]]
  BY DEF TypeOK
<1>3. /\ call'[p] = NoCall
      /\ \A q \in Processes \ {p} : /\ todo'[q] = todo[q] /\ call'[q] = call[q]
                                    /\ got'[q] = got[q] /\ pos'[q] = pos[q]
                                    /\ loaded'[q] = loaded[q]
  BY <1>1, <1>2 DEF Leave, Done
<1>4. ReadCopy(p)' /\ ReadLen(p)' /\ \A q \in Processes \ {p} : Rests(q)
  BY <1>3 DEF ReadCopy, ReadLen, Counted, Added, NoCall, Rests
<1>5. QED
  BY <1>1, <1>4, CopyKept

\* A call that begins has copied nothing
LEMMA CopyEnters ==
    ASSUME TypeOK, Shape, \A p \in Processes : CallOK(p), CopyInv, driver \in Offsets,
           NEW p \in Processes, Call(p)
    PROVE  CopyInv'
<1>1. /\ \A q \in Processes \ {p} : todo'[q] = todo[q] /\ call'[q] = call[q]
      /\ call'[p].op \in {"read", "write"} /\ Dos(todo'[p]) = Dos(Prog(driver, call'[p].op))
      /\ pos[p] = 0 /\ got[p] = <<>>
      /\ UNCHANGED <<driver, dataVars, copyVars, spoiled>>
  BY OffsetEnters
<1>2. UNCHANGED <<driver, size_of_msg, pos, got, loaded, spoiled>>
  BY <1>1 DEF dataVars, copyVars
<1>3. call'[p].op = "read" => {"count", "out", "add"} \subseteq Dos(todo'[p])
  BY <1>1, OffsetDos
<1>4. ReadCopy(p)'
  <2>1. Cells(p, pos[p])' = {} /\ got'[p] = <<>> /\ pos'[p] = 0
    BY <1>1, <1>2 DEF Cells
  <2>2. got'[p] = [k \in Cells(p, pos[p])' |-> got'[p][k]]
    BY <2>1
  <2>3. QED
    BY <2>1, <2>2, <1>3 DEF ReadCopy
<1>5. ReadLen(p)' /\ \A q \in Processes \ {p} : Rests(q)
  BY <1>1, <1>2, <1>3 DEF ReadLen, Counted, Added, Rests
<1>6. QED
  BY <1>2, <1>4, <1>5, CopyKept

\* A read of the seqlock that begins again has copied nothing either
LEMMA CopyRetry ==
    ASSUME TypeOK, Shape, CopyInv, driver \in Offsets, NEW p \in Processes, SeqRetry(p)
    PROVE  CopyInv'
<1>1. /\ todo[p] # <<>> /\ Head(todo[p]).do = "seqretry"
      /\ UNCHANGED <<driver, call, size_of_msg, loaded, spoiled>>
  BY DEF SeqRetry, Doing, dataVars, callVars
<1>2. /\ todo \in [Processes -> Seq(Step)] /\ pos \in [Processes -> 0 .. Size]
      /\ DOMAIN got = Processes
  BY DEF TypeOK
<1>3. AddAt(p)
  BY <1>1, AddAts
<1>4. call[p].op = "read"
  BY <1>1, <1>3 DEF AddAt
<1>5. CASE sequence = loaded[p].sequence
  <2>1. Advances(p) /\ UNCHANGED <<pos, got>>
    BY <1>1, <1>5 DEF SeqRetry, Advances
  <2>2. QED
    BY <1>1, <2>1, CopyAdvances
<1>6. CASE sequence # loaded[p].sequence
  <2>1. /\ todo' = [todo EXCEPT ![p] = Program(p)]
        /\ pos' = [pos EXCEPT ![p] = 0] /\ got' = [got EXCEPT ![p] = <<>>]
    BY <1>6 DEF SeqRetry
  <2>2. /\ todo'[p] = Prog(driver, "read") /\ pos'[p] = 0 /\ got'[p] = <<>>
        /\ \A q \in Processes \ {p} : /\ todo'[q] = todo[q] /\ pos'[q] = pos[q]
                                      /\ got'[q] = got[q]
    BY <1>2, <1>4, <2>1 DEF Program, Prog
  <2>3. {"count", "out", "add"} \subseteq Dos(todo'[p])
    BY <2>2, OffsetDos
  <2>4. ReadCopy(p)'
    BY <2>2, <2>3 DEF ReadCopy, Cells
  <2>5. ReadLen(p)' /\ \A q \in Processes \ {p} : Rests(q)
    BY <1>1, <2>2, <2>3 DEF ReadLen, Counted, Added, Rests
  <2>6. QED
    BY <1>1, <2>4, <2>5, CopyKept
<1>7. QED
  BY <1>5, <1>6

\* Every read keeps what it has copied, and what it will return
LEMMA CopyStep ==
    ASSUME TypeOK, Shape, \A p \in Processes : CallOK(p), CopyInv, [Next]_vars
    PROVE  CopyInv'
<1>1. driver' = driver
  BY NextDriver
<1> SUFFICES ASSUME driver \in Offsets PROVE CopyInv'
  BY <1>1 DEF CopyInv
<1>2. CASE UNCHANGED vars
  <2>1. UNCHANGED <<size_of_msg, todo, call, pos, got, loaded, spoiled>>
    BY <1>2 DEF vars, dataVars, callVars, copyVars, history
  <2>2. QED
    BY <2>1, <1>1 DEF CopyInv, ReadCopy, ReadLen, Counted, Added, Cells, CellAt
<1>3. CASE Next
  <2>1. PICK p \in Processes : OffsetMoves(p)
    BY <1>3, OffsetNext
  <2>2. QED
    BY <2>1, CopyPlain, CopyCount, CopyOuts, CopyIns, CopySize, CopyAdds, CopyFault, CopyLeaves,
       CopyEnters, CopyRetry DEF OffsetMoves
<1>4. QED
  BY <1>2, <1>3

\* CopyInv holds throughout
LEMMA CopyInvariant ==
    Spec => []CopyInv
<1>1. Init => CopyInv
  BY DEF Init, CopyInv, NoCall, ReadCopy, ReadLen, Counted, Added
<1>2. SharedInv /\ CopyInv /\ [Next]_vars => CopyInv'
  BY CopyStep DEF SharedInv, TypeInv
<1>3. QED
  BY <1>1, <1>2, SharedInvariant, PTL DEF Spec

\* Under the rwlock and the seqlock what a read copies is a buffer that stood at
\* one moment of the call, in which nobody was writing: under the rwlock that in
\* which the reader gives the lock back; under the seqlock that in which it
\* finds the count it began with. The length that it returns is that of what it
\* copied unless a write has set the size between its count and its addition.
\* And the lone opener and the mutex keep each access at the register that its
\* process has chosen.
THEOREM LocksKeepReadsWhole == Spec => []LockedIsWhole
<1>1. SharedInv /\ CopyInv => LockedIsWhole
  <2> SUFFICES ASSUME SharedInv, CopyInv PROVE LockedIsWhole
    OBVIOUS
  <2>1. TypeOK /\ Shape /\ Unstrayed /\ LockedInv
    BY DEF SharedInv, TypeInv
  <2>2. ASSUME NEW p \in Processes, Doing(p, "return"), Reading(call[p].op), driver \in Locked
        PROVE  /\ \E s \in snapshots[p] : \A k \in DOMAIN got[p] : got[p][k] = s[k]
               /\ "changed" \notin spoiled
                  => DOMAIN got[p] = {CellAt(p, i) : i \in 1 .. loaded[p].len}
    <3>1. todo[p] # <<>> /\ Head(todo[p]).do = "return" /\ driver \in Offsets
      BY <2>2, OffsetDos DEF Doing
    <3>2. Dos(todo[p]) = {"return"} /\ InCall(p)
      BY <2>1, <2>2, <3>1, LockedAts, OffsetAt DEF LockedAt
    <3>3. call[p].op = "read"
      BY <2>1, <2>2, <3>1, OffsetAt DEF Reading
    <3>4. \E s \in snapshots[p] : \A k \in DOMAIN got[p] : got[p][k] = s[k]
      <4>1. Seen(p)
        BY <2>1, <2>2 DEF LockedInv
      <4>2. QED
        BY <2>2, <3>2, <4>1 DEF Seen, Agrees
    <3>5. DOMAIN got[p] = Cells(p, loaded[p].n)
      BY <3>1, <3>2, <3>3 DEF CopyInv, ReadCopy
    <3>6. "changed" \notin spoiled => loaded[p].len = loaded[p].n
      BY <3>1, <3>2, <3>3 DEF CopyInv, ReadLen, Added
    <3>7. QED
      BY <3>4, <3>5, <3>6 DEF Cells
  <2>3. QED
    BY <2>1, <2>2 DEF LockedIsWhole, Unstrayed
<1>2. QED
  BY <1>1, SharedInvariant, CopyInvariant, PTL

-----------------------------------------------------------------------------
(* chardev_sync: a read waits for the message of a write.                  *)

\* Where a process of it is, by its next step
SyncAt(p) ==
    LET D == Dos(todo[p])
        h == Head(todo[p]).do
        op == call[p].op
    IN  /\ op \in {"read", "write"} /\ h \in D
        /\ op = "read" => h \in {"await", "count", "out", "load", "add", "return", "failed"}
        /\ op = "write" => h \in {"size", "count", "in", "complete", "return", "failed"}
        /\ op = "read" /\ h # "await" => "await" \notin D
        /\ op = "read" /\ h = "await" => {"count", "out"} \subseteq D
        /\ op = "read" /\ h = "count" => "out" \in D
        /\ op = "write" /\ h # "size" => "size" \notin D
        /\ op = "write" /\ h = "size" => {"count", "in"} \subseteq D
        /\ op = "write" /\ h = "count" => "in" \in D
        /\ h \in {"out", "in"} => "count" \notin D
        /\ h = "complete" => "in" \notin D /\ "return" \in D
        /\ h \in {"return", "failed"} => D = {h}

\* What the next step of chardev_sync says of the steps left
LEMMA SyncAts ==
    ASSUME TypeOK, Shape, driver = "chardev_sync", NEW p \in Processes, todo[p] # <<>>
    PROVE  SyncAt(p)
<1> DEFINE t == todo[p]
<1> DEFINE D == Dos(t)
<1> DEFINE h == Head(t).do
<1> DEFINE op == call[p].op
<1> DEFINE P == Dos(Prog(driver, op))
<1> DEFINE T == Dos(Tail(t))
<1>1. driver \in Offsets
  BY DEF Offsets
<1>2. /\ op \in {"read", "write"} /\ h \in D /\ h \notin T /\ D = {h} \union T
      /\ \A e \in T : Rank[h] < Rank[e]
      /\ D \subseteq P \union {"failed"}
      /\ "failed" \in D => D = {"failed"} \/ \E unlock \in Unlocks \cap P : D = {unlock, "failed"}
      /\ "failed" \notin D => /\ "return" \in D /\ D \subseteq P
                              /\ \A a \in P \ D : \A b \in D : Rank[a] < Rank[b]
  BY <1>1, OffsetAt
<1>3. /\ op = "read" => P = {"count", "out", "load", "add", "return", "await"}
      /\ op = "write" => P = {"size", "count", "in", "return", "complete"}
  <2>1. /\ Dos(Prog(driver, "read")) = {"count", "out", "load", "add", "return"} \union
                 (CASE driver = "chardev_sync" -> {"await"}
                    [] driver = "chardrv_lock" -> {"rlock", "runlock"}
                    [] driver = "chardrv_seqlock" -> {"seqbegin", "seqretry"})
        /\ Dos(Prog(driver, "write")) = {"size", "count", "in", "return"} \union
                 (IF driver = "chardev_sync" THEN {"complete"} ELSE {"wlock", "wunlock"})
    BY <1>1, OffsetDos
  <2>2. QED
    BY <2>1
<1> HIDE DEF t, D, h, op, P, T
<1>4. "failed" \in D => D = {"failed"}
  BY <1>2, <1>3 DEF Unlocks
<1>5. ASSUME h \in {"return", "failed"} PROVE D = {h}
  <2>1. \A e \in P \union {"failed"} : ~(8 < Rank[e])
    BY <1>2, <1>3 DEF Rank
  <2>2. Rank[h] = 8
    BY <1>5 DEF Rank
  <2>3. T = {}
    BY <1>2, <2>1, <2>2
  <2>4. QED
    BY <1>2, <2>3
<1>6. /\ op = "read" => h \in {"await", "count", "out", "load", "add", "return", "failed"}
      /\ op = "write" => h \in {"size", "count", "in", "complete", "return", "failed"}
  BY <1>2, <1>3
<1>7. /\ op = "read" /\ h # "await" => "await" \notin D
      /\ op = "write" /\ h # "size" => "size" \notin D
      /\ h \in {"out", "in"} => "count" \notin D
      /\ h = "complete" => "in" \notin D
  BY <1>2, <1>6 DEF Rank
<1>8. h \notin {"return", "failed"} => "failed" \notin D
  BY <1>2, <1>4
<1>9. /\ op = "read" /\ h = "await" => {"count", "out"} \subseteq D
      /\ op = "read" /\ h = "count" => "out" \in D
      /\ op = "write" /\ h = "size" => {"count", "in"} \subseteq D
      /\ op = "write" /\ h = "count" => "in" \in D
      /\ h = "complete" => "return" \in D
  BY <1>2, <1>3, <1>8 DEF Rank
<1>10. QED
  BY <1>2, <1>5, <1>6, <1>7, <1>9 DEF SyncAt, t, D, h, op

\* A read that has waited, a write whose message is there, and one that is
\* copying its own
Waited(q) == call[q].op = "read" /\ "await" \notin Dos(todo[q])
Copied(q) == /\ call[q].op = "write" /\ "in" \notin Dos(todo[q]) /\ "return" \in Dos(todo[q])
Under(q) == call[q].op = "write" /\ "size" \notin Dos(todo[q]) /\ "in" \in Dos(todo[q])

\* Before the first message there is nothing that would let a read go on
SyncInv ==
    driver = "chardev_sync" /\ "signal" \notin spoiled /\ message.id = 0 =>
        /\ completions = 0 /\ readoffset = 0
        /\ \A q \in Processes : ~Waited(q) /\ ~Copied(q)

\* The buffer has the last message while no write is under way, and so has what
\* a read has copied that has met none; a write has left in it what it has copied
Filled(n, id) == \A i \in 1 .. n : mem[<<"kbuffer", i>>] = id
WriteLeft(q) ==
    call[q].op = "write" =>
        /\ "count" \in Dos(todo[q]) => pos[q] = 0
        /\ Under(q) =>
              /\ size_of_msg = call[q].n
              /\ "count" \notin Dos(todo[q]) => /\ loaded[q].n = call[q].n /\ pos[q] <= call[q].n
                                                /\ Filled(pos[q], call[q].id)
Fresh(q) == Waited(q) /\ "return" \in Dos(todo[q]) /\ q \notin crossed
ReadHas(q) ==
    /\ "count" \notin Dos(todo[q]) => loaded[q].n = message.n
    /\ \A k \in DOMAIN got[q] : got[q][k] = message.id

MessageInv ==
    driver = "chardev_sync" /\ spoiled \cap {"fault", "mixed"} = {} =>
        /\ \A q, r \in Processes : Under(q) /\ Under(r) => q = r
        /\ (\A q \in Processes : ~Under(q))
              => size_of_msg = message.n /\ Filled(message.n, message.id)
        /\ \A q \in Processes : WriteLeft(q)
        /\ \A q \in Processes : Fresh(q) => ReadHas(q) /\ \A r \in Processes : ~Under(r)

\* Only what the process at the step does, and what it says of itself, is looked at
LEMMA SyncKept ==
    ASSUME SyncInv, driver = "chardev_sync", NEW p \in Processes, spoiled \subseteq spoiled',
           message' = message \/ message'.id # 0,
           \A q \in Processes \ {p} : Rests(q),
           message.id = 0 /\ completions = 0 /\ readoffset = 0 /\ ~Waited(p) /\ ~Copied(p)
              => \/ "signal" \in spoiled' \/ message'.id # 0
                 \/ /\ completions' = 0 /\ readoffset' = 0
                    /\ ~Waited(p)' /\ ~Copied(p)'
    PROVE  SyncInv'
<1> SUFFICES ASSUME "signal" \notin spoiled', message'.id = 0
             PROVE  /\ completions' = 0 /\ readoffset' = 0
                    /\ \A q \in Processes : ~Waited(q)' /\ ~Copied(q)'
  BY DEF SyncInv
<1>1. /\ message.id = 0 /\ completions = 0 /\ readoffset = 0
      /\ \A q \in Processes : ~Waited(q) /\ ~Copied(q)
  BY DEF SyncInv
<1>2. completions' = 0 /\ readoffset' = 0 /\ ~Waited(p)' /\ ~Copied(p)'
  BY <1>1
<1>3. ASSUME NEW q \in Processes PROVE ~Waited(q)' /\ ~Copied(q)'
  <2>1. CASE q = p
    BY <2>1, <1>2
  <2>2. CASE q # p
    BY <2>2, <1>1 DEF Waited, Copied, Rests
  <2>3. QED
    BY <2>1, <2>2
<1>4. QED
  BY <1>2, <1>3

LEMMA MessageKept ==
    ASSUME MessageInv, driver = "chardev_sync", NEW p \in Processes, spoiled \subseteq spoiled',
           UNCHANGED <<mem, size_of_msg, message>>,
           \A q \in Processes \ {p} : Rests(q) /\ (q \in crossed => q \in crossed'),
           spoiled' \cap {"fault", "mixed"} = {}
              => /\ Under(p)' <=> Under(p)
                 /\ WriteLeft(p)'
                 /\ Fresh(p)' => ReadHas(p)' /\ \A r \in Processes : ~Under(r)
    PROVE  MessageInv'
<1> SUFFICES ASSUME spoiled' \cap {"fault", "mixed"} = {} PROVE MessageInv'
  BY DEF MessageInv
<1>1. /\ \A q, r \in Processes : Under(q) /\ Under(r) => q = r
      /\ (\A q \in Processes : ~Under(q))
            => size_of_msg = message.n /\ Filled(message.n, message.id)
      /\ \A q \in Processes : WriteLeft(q)
      /\ \A q \in Processes : Fresh(q) => ReadHas(q) /\ \A r \in Processes : ~Under(r)
  BY DEF MessageInv
<1>2. ASSUME NEW q \in Processes PROVE Under(q)' <=> Under(q)
  <2>1. CASE q = p
    BY <2>1
  <2>2. CASE q # p
    BY <2>2 DEF Under, Rests
  <2>3. QED
    BY <2>1, <2>2
<1>3. ASSUME NEW q \in Processes
      PROVE  /\ WriteLeft(q)'
             /\ Fresh(q)' => ReadHas(q)' /\ \A r \in Processes : ~Under(r)
  <2>1. CASE q = p
    BY <2>1
  <2>2. CASE q # p
    <3>1. WriteLeft(q) /\ Rests(q) /\ (q \in crossed => q \in crossed')
      BY <2>2, <1>1
    <3>2. WriteLeft(q)'
      BY <3>1, <1>2 DEF WriteLeft, Filled, Rests
    <3>3. Fresh(q)' => ReadHas(q)' /\ Fresh(q)
      BY <3>1, <1>1 DEF Fresh, ReadHas, Waited, Rests
    <3>4. QED
      BY <1>1, <3>2, <3>3
  <2>3. QED
    BY <2>1, <2>2
<1>4. QED
  BY <1>1, <1>2, <1>3 DEF MessageInv, Filled

\* A write that is under way is one that the readers and the next write meet
LEMMA UnderIsUnderway ==
    ASSUME TypeOK, Shape, NEW q \in Processes, Under(q)
    PROVE  Underway(q)
<1>1. InCall(q) /\ Writing(call[q].op)
  BY IdleShape DEF Under, InCall, Writing
<1>2. /\ Left(q, "size") <=> "size" \in Dos(todo[q])
      /\ Left(q, "in") <=> "in" \in Dos(todo[q])
  BY LeftDos DEF TypeOK
<1>3. QED
  BY <1>1, <1>2 DEF Underway, Under

\* A step of a program of chardev_sync
LEMMA SyncDrops ==
    ASSUME TypeOK, Shape, driver = "chardev_sync", NEW p \in Processes, Advances(p),
           \A q \in Processes \ {p} :
               loaded'[q] = loaded[q] /\ pos'[q] = pos[q] /\ got'[q] = got[q]
    PROVE  /\ Dos(todo'[p]) = Dos(todo[p]) \ {Head(todo[p]).do}
           /\ SyncAt(p) /\ call' = call /\ driver' = driver
           /\ \A q \in Processes \ {p} : Rests(q)
<1>1. SyncAt(p)
  BY SyncAts DEF Advances
<1>2. QED
  BY <1>1, CopyDrops DEF Offsets

\* A read that waits goes on when there is a message; it may meet a write
LEMMA SyncAwait ==
    ASSUME TypeOK, Shape, CopyInv, SyncInv, MessageInv, driver = "chardev_sync",
           NEW p \in Processes, Await(p)
    PROVE  SyncInv' /\ MessageInv'
<1> DEFINE D == Dos(todo[p])
<1> DEFINE E == Dos(todo'[p])
<1>1. /\ Head(todo[p]).do = "await" /\ Advances(p)
      /\ UNCHANGED <<mem, size_of_msg, readoffset, pos, got, loaded, message>>
      /\ spoiled \subseteq spoiled' /\ crossed \subseteq crossed'
      /\ completions = 0 /\ readoffset = 0 => "signal" \in spoiled'
      /\ (\E q \in Processes : Underway(q)) => p \in crossed'
  <2>1. Head(todo[p]).do = "await" /\ Advances(p)
    BY Moves DEF Await, Doing
  <2>2. /\ UNCHANGED <<mem, size_of_msg, readoffset, pos, got, loaded, message>>
        /\ spoiled \subseteq spoiled'
        /\ completions = 0 /\ readoffset = 0 => "signal" \in spoiled'
    BY DEF Await, copyVars
  <2>3. /\ crossed \subseteq crossed'
        /\ (\E q \in Processes : Underway(q)) => p \in crossed'
    <3>1. crossed' = IF \E q \in Processes : Underway(q) THEN crossed \union {p} ELSE crossed
      BY DEF Await
    <3>2. QED
      BY <3>1
  <2>4. QED
    BY <2>1, <2>2, <2>3
<1>2. /\ E = D \ {"await"} /\ SyncAt(p) /\ call' = call /\ driver' = driver
      /\ \A q \in Processes \ {p} : Rests(q)
  BY <1>1, SyncDrops
<1> HIDE DEF D, E
<1>3. call[p].op = "read" /\ {"await", "count", "out"} \subseteq D
  <2>1. call[p].op = "read"
    BY <1>1, <1>2 DEF SyncAt
  <2>2. QED
    BY <2>1, <1>1, <1>2 DEF SyncAt, D
<1>4. SyncInv'
  BY <1>1, <1>2, SyncKept
<1>5. DOMAIN got[p] = {}
  <2>1. got[p] = [k \in Cells(p, pos[p]) |-> got[p][k]] /\ pos[p] = 0
    BY <1>3 DEF CopyInv, ReadCopy, Offsets, D
  <2>2. Cells(p, pos[p]) = {}
    BY <2>1 DEF Cells
  <2>3. QED
    BY <2>1, <2>2
<1>6. Fresh(p)' => ReadHas(p)' /\ \A r \in Processes : ~Under(r)
  BY <1>1, <1>2, <1>3, <1>5, UnderIsUnderway DEF Fresh, ReadHas, E
<1>7. WriteLeft(p)' /\ ~Under(p) /\ ~Under(p)'
  BY <1>2, <1>3 DEF WriteLeft, Under
<1>8. MessageInv'
  BY <1>1, <1>2, <1>6, <1>7, MessageKept
<1>9. QED
  BY <1>4, <1>8

\* A count: of the message for a reader, of its own size for a writer
LEMMA SyncCount ==
    ASSUME TypeOK, Shape, SyncInv, MessageInv, driver = "chardev_sync", NEW p \in Processes,
           Count(p)
    PROVE  SyncInv' /\ MessageInv'
<1> DEFINE D == Dos(todo[p])
<1> DEFINE E == Dos(todo'[p])
<1>1. /\ Head(todo[p]).do = "count" /\ Advances(p)
      /\ loaded' = [loaded EXCEPT ![p].n = size_of_msg]
      /\ UNCHANGED <<mem, size_of_msg, readoffset, completions, pos, got, spoiled, message,
                     crossed>>
  BY Moves DEF Count, Doing, dataVars, history
<1>2. /\ loaded \in [Processes -> [n : 0 .. Size, len : 0 .. Size, offset : Nat, sequence : Nat]]
      /\ call \in [Processes -> Calls]
  BY DEF TypeOK
<1>3. loaded'[p].n = size_of_msg /\ \A q \in Processes \ {p} : loaded'[q] = loaded[q]
  BY <1>1, <1>2
<1>4. /\ E = D \ {"count"} /\ SyncAt(p) /\ call' = call /\ driver' = driver
      /\ \A q \in Processes \ {p} : Rests(q)
  BY <1>1, <1>3, SyncDrops
<1> HIDE DEF D, E
<1>5. /\ call[p].op \in {"read", "write"}
      /\ call[p].op = "read" => "await" \notin D /\ "out" \in D
      /\ call[p].op = "write" => "size" \notin D /\ "in" \in D /\ "count" \in D
  BY <1>1, <1>4 DEF SyncAt, D
<1>6. /\ "await" \in E <=> "await" \in D
      /\ "return" \in E <=> "return" \in D
      /\ "in" \in E <=> "in" \in D
      /\ "size" \in E <=> "size" \in D
      /\ "count" \notin E
  BY <1>4
<1>7. SyncInv'
  <2>1. ~Waited(p) => ~Waited(p)' /\ ~Copied(p)'
    BY <1>4, <1>5, <1>6 DEF Waited, Copied, D, E
  <2>2. QED
    BY <1>1, <1>4, <2>1, SyncKept
<1>8. Under(p)' <=> Under(p)
  BY <1>4, <1>6 DEF Under, D, E
<1>9. ASSUME spoiled' \cap {"fault", "mixed"} = {}
      PROVE  WriteLeft(p)' /\ (Fresh(p)' => ReadHas(p)' /\ \A r \in Processes : ~Under(r))
  <2>1. /\ WriteLeft(p) /\ (Fresh(p) => ReadHas(p) /\ \A r \in Processes : ~Under(r))
        /\ (\A q \in Processes : ~Under(q)) => size_of_msg = message.n
    BY <1>1, <1>9 DEF MessageInv
  <2>2. WriteLeft(p)'
    <3>1. SUFFICES ASSUME call[p].op = "write"
                   PROVE  /\ size_of_msg = call[p].n /\ pos[p] <= call[p].n
                          /\ Filled(pos[p], call[p].id)'
      BY <1>1, <1>3, <1>4, <1>6 DEF WriteLeft, E
    <3>2. size_of_msg = call[p].n /\ pos[p] = 0
      BY <2>1, <3>1, <1>5 DEF WriteLeft, Under, D
    <3>3. call[p].n \in 0 .. Size
      BY <1>2 DEF Calls
    <3>4. QED
      BY <1>1, <3>2, <3>3, SizeAssumption DEF Filled
  <2>3. Fresh(p)' => Fresh(p)
    BY <1>1, <1>4, <1>6 DEF Fresh, Waited, D, E
  <2>4. Fresh(p)' => ReadHas(p)'
    BY <2>1, <2>3, <1>1, <1>3, <1>4, <1>6 DEF ReadHas, D, E
  <2>5. QED
    BY <2>1, <2>2, <2>3, <2>4
<1>10. MessageInv'
  BY <1>1, <1>4, <1>8, <1>9, MessageKept
<1>11. QED
  BY <1>7, <1>10

\* A write sets its size, and those who have waited meet it
LEMMA SyncSize ==
    ASSUME TypeOK, Shape, SyncInv, MessageInv, driver = "chardev_sync", NEW p \in Processes,
           SetSize(p)
    PROVE  SyncInv' /\ MessageInv'
<1> DEFINE D == Dos(todo[p])
<1> DEFINE E == Dos(todo'[p])
<1>1. /\ Head(todo[p]).do = "size" /\ Advances(p)
      /\ size_of_msg' = call[p].n /\ spoiled \subseteq spoiled'
      /\ (\E q \in Processes : Underway(q)) => "mixed" \in spoiled'
      /\ crossed' = crossed \union {q \in Processes : /\ InCall(q) /\ call[q].op = "read"
                                                     /\ ~Left(q, "await")}
      /\ UNCHANGED <<mem, readoffset, completions, pos, got, loaded, message>>
  BY Moves DEF SetSize, Doing, copyVars
<1>2. /\ E = D \ {"size"} /\ SyncAt(p) /\ call' = call /\ driver' = driver
      /\ \A q \in Processes \ {p} : Rests(q)
  BY <1>1, SyncDrops
<1> HIDE DEF D, E
<1>3. call[p].op = "write" /\ {"size", "count", "in"} \subseteq D
  <2>1. call[p].op = "write"
    BY <1>1, <1>2 DEF SyncAt
  <2>2. QED
    BY <2>1, <1>1, <1>2 DEF SyncAt, D
<1>4. SyncInv'
  <2>1. ~Waited(p)' /\ ~Copied(p)'
    BY <1>2, <1>3 DEF Waited, Copied, E
  <2>2. QED
    BY <1>1, <1>2, <2>1, SyncKept
<1>5. MessageInv'
  <2> SUFFICES ASSUME spoiled' \cap {"fault", "mixed"} = {} PROVE MessageInv'
    BY DEF MessageInv
  <2>1. \A q \in Processes : ~Under(q) /\ WriteLeft(q)
    BY <1>1, UnderIsUnderway DEF MessageInv
  <2>2. Under(p)' /\ \A q \in Processes \ {p} : ~Under(q)'
    BY <1>2, <1>3, <2>1 DEF Under, Rests, D, E
  <2>3. WriteLeft(p)'
    BY <1>1, <1>2, <1>3, <2>1 DEF WriteLeft, D, E
  <2>4. ASSUME NEW q \in Processes \ {p} PROVE WriteLeft(q)'
    BY <1>2, <2>1, <2>2 DEF WriteLeft, Rests
  <2>5. ASSUME NEW q \in Processes PROVE ~Fresh(q)'
    <3>1. CASE q = p
      BY <3>1, <1>2, <1>3 DEF Fresh, Waited
    <3>2. CASE q # p /\ Waited(q)
      <4>1. InCall(q)
        BY <3>2, IdleShape DEF InCall, Waited
      <4>2. Left(q, "await") <=> "await" \in Dos(todo[q])
        BY LeftDos DEF TypeOK
      <4>3. QED
        BY <3>2, <4>1, <4>2, <1>1 DEF Fresh, Waited
    <3>3. CASE q # p /\ ~Waited(q)
      BY <3>3, <1>2 DEF Fresh, Waited, Rests
    <3>4. QED
      BY <3>1, <3>2, <3>3
  <2>6. QED
    BY <2>2, <2>3, <2>4, <2>5 DEF MessageInv
<1>6. QED
  BY <1>4, <1>5

\* The message is copied to the reader
LEMMA SyncCopyOut ==
    ASSUME TypeOK, Shape, SyncInv, MessageInv, driver = "chardev_sync", NEW p \in Processes,
           CallOK(p), CopyOut(p)
    PROVE  SyncInv' /\ MessageInv'
<1> DEFINE D == Dos(todo[p])
<1> DEFINE E == Dos(todo'[p])
<1>1. /\ todo[p] # <<>> /\ Head(todo[p]).do = "out"
      /\ UNCHANGED <<driver, mem, size_of_msg, readoffset, completions, call, loaded, spoiled,
                     message, crossed>>
  BY DEF CopyOut, Doing, dataVars, callVars, history
<1>2. /\ pos \in [Processes -> 0 .. Size] /\ DOMAIN got = Processes
      /\ pos[p] \in Nat /\ loaded[p].n \in Nat
  BY SizeAssumption DEF TypeOK
<1>3. SyncAt(p)
  BY <1>1, SyncAts
<1> HIDE DEF D, E
<1>4. call[p].op = "read" /\ "await" \notin D /\ "count" \notin D
  <2>1. call[p].op = "read"
    BY <1>1, <1>3 DEF SyncAt
  <2>2. QED
    BY <2>1, <1>1, <1>3 DEF SyncAt, D
<1>5. Waited(p) /\ ~Under(p) /\ ~Under(p)' /\ WriteLeft(p)'
  BY <1>1, <1>4 DEF Waited, Under, WriteLeft, D
<1>6. CASE pos[p] < loaded[p].n
  <2> DEFINE k == CellAt(p, pos[p] + 1)
  <2>1. /\ got' = [got EXCEPT ![p] = With(@, k, mem[k])] /\ pos' = [pos EXCEPT ![p] = @ + 1]
        /\ todo' = todo
    BY <1>6 DEF CopyOut
  <2>2. k = <<"kbuffer", pos[p] + 1>>
    BY <1>4 DEF CallOK, CellAt
  <2> HIDE DEF k
  <2>3. /\ got'[p] = With(got[p], k, mem[k])
        /\ \A q \in Processes \ {p} : Rests(q)
    BY <1>1, <1>2, <2>1 DEF Rests
  <2>4. SyncInv'
    BY <1>1, <1>5, <2>3, SyncKept
  <2>5. ASSUME spoiled' \cap {"fault", "mixed"} = {}, Fresh(p)'
        PROVE  ReadHas(p)' /\ \A r \in Processes : ~Under(r)
    <3>1. Fresh(p)
      BY <2>5, <2>1, <1>1 DEF Fresh, Waited
    <3>2. /\ ReadHas(p) /\ Filled(message.n, message.id) /\ \A r \in Processes : ~Under(r)
      BY <3>1, <2>5, <1>1 DEF MessageInv
    <3>3. loaded[p].n = message.n
      BY <3>2, <1>4 DEF ReadHas, D
    <3>4. mem[k] = message.id
      BY <3>2, <3>3, <2>2, <1>2, <1>6 DEF Filled
    <3>5. QED
      BY <3>2, <3>3, <3>4, <2>3, <1>1 DEF ReadHas, With
  <2>6. MessageInv'
    BY <1>1, <1>5, <2>3, <2>5, MessageKept
  <2>7. QED
    BY <2>4, <2>6
<1>7. CASE ~(pos[p] < loaded[p].n)
  <2>1. UNCHANGED <<got, pos>> /\ Advances(p)
    BY <1>1, <1>7 DEF CopyOut, Advances
  <2>2. E = D \ {"out"} /\ \A q \in Processes \ {p} : Rests(q)
    BY <1>1, <2>1, SyncDrops DEF D, E
  <2>3. SyncInv'
    BY <1>1, <1>5, <2>2, SyncKept
  <2>4. Fresh(p)' => Fresh(p)
    BY <1>1, <1>5, <2>2 DEF Fresh, D, E
  <2>5. ReadHas(p) => ReadHas(p)'
    BY <1>1, <1>4, <2>1, <2>2 DEF ReadHas, D, E
  <2>6. ASSUME spoiled' \cap {"fault", "mixed"} = {}, Fresh(p)'
        PROVE  ReadHas(p)' /\ \A r \in Processes : ~Under(r)
    BY <2>4, <2>5, <2>6, <1>1 DEF MessageInv
  <2>7. MessageInv'
    BY <1>1, <1>5, <2>2, <2>6, MessageKept
  <2>8. QED
    BY <2>3, <2>7
<1>8. QED
  BY <1>6, <1>7

\* and from the writer, whom no read has met; with the last cell it is there
LEMMA SyncCopyIn ==
    ASSUME TypeOK, Shape, SyncInv, MessageInv, driver = "chardev_sync", NEW p \in Processes,
           CallOK(p), CopyIn(p)
    PROVE  SyncInv' /\ MessageInv'
<1> DEFINE D == Dos(todo[p])
<1> DEFINE E == Dos(todo'[p])
<1>1. /\ todo[p] # <<>> /\ Head(todo[p]).do = "in"
      /\ UNCHANGED <<driver, size_of_msg, readoffset, completions, call, got, loaded, spoiled,
                     crossed>>
  BY DEF CopyIn, Doing, callVars
<1>2. /\ pos \in [Processes -> 0 .. Size] /\ mem \in [Keys -> 0 .. Bound]
      /\ pos[p] \in 0 .. Size /\ loaded[p].n \in 0 .. Size /\ Size \in Nat
  BY SizeAssumption DEF TypeOK
<1>3. SyncAt(p)
  BY <1>1, SyncAts
<1> HIDE DEF D, E
<1>4. call[p].op = "write" /\ "size" \notin D /\ "count" \notin D /\ "in" \in D
  <2>1. call[p].op = "write"
    BY <1>1, <1>3 DEF SyncAt
  <2>2. QED
    BY <2>1, <1>1, <1>3 DEF SyncAt, D
<1>5. Under(p) /\ ~Waited(p) /\ ~Waited(p)'
  BY <1>1, <1>4 DEF Under, Waited, D
<1>6. ASSUME spoiled \cap {"fault", "mixed"} = {}
      PROVE  /\ \A q \in Processes \ {p} : ~Under(q) /\ WriteLeft(q)
             /\ \A q \in Processes : ~Fresh(q)
             /\ size_of_msg = call[p].n /\ loaded[p].n = call[p].n
             /\ pos[p] <= call[p].n /\ Filled(pos[p], call[p].id)
  <2>1. /\ \A q \in Processes : Under(q) => q = p
        /\ \A q \in Processes : WriteLeft(q)
        /\ \A q \in Processes : ~Fresh(q)
    BY <1>5, <1>6 DEF MessageInv
  <2>2. QED
    BY <2>1, <1>4, <1>5 DEF WriteLeft, D
<1>7. ASSUME spoiled' \cap {"fault", "mixed"} = {}, \A q \in Processes \ {p} : Rests(q)
      PROVE  /\ \A q \in Processes \ {p} : ~Under(q)' /\ WriteLeft(q)'
             /\ \A q \in Processes : ~Fresh(q)'
  <2>1. ASSUME NEW q \in Processes \ {p} PROVE ~Under(q)' /\ WriteLeft(q)' /\ ~Fresh(q)'
    <3>1. ~Under(q) /\ WriteLeft(q) /\ ~Fresh(q) /\ Rests(q)
      BY <1>1, <1>6, <1>7
    <3>2. ~Under(q)'
      BY <3>1 DEF Under, Rests
    <3>3. QED
      BY <3>1, <3>2, <1>1 DEF WriteLeft, Fresh, Waited, Rests
  <2>2. QED
    BY <2>1, <1>5 DEF Fresh
<1>8. CASE pos[p] < loaded[p].n
  <2> DEFINE k == <<"kbuffer", pos[p] + 1>>
  <2>1. /\ mem' = [mem EXCEPT ![k] = call[p].id] /\ pos' = [pos EXCEPT ![p] = @ + 1]
        /\ todo' = todo /\ message' = message
    BY <1>4, <1>8 DEF CopyIn, CallOK, CellAt
  <2>2. k \in Keys
    BY <1>2, <1>8 DEF Keys, Buffers
  <2>3. /\ mem'[k] = call[p].id /\ (\A i \in 1 .. pos[p] : mem'[<<"kbuffer", i>>] = mem[<<"kbuffer", i>>])
        /\ pos'[p] = pos[p] + 1 /\ \A q \in Processes \ {p} : Rests(q)
    <3>1. mem'[k] = call[p].id
      BY <1>2, <2>1, <2>2
    <3>2. ASSUME NEW i \in 1 .. pos[p] PROVE mem'[<<"kbuffer", i>>] = mem[<<"kbuffer", i>>]
      <4>1. i # pos[p] + 1
        BY <1>2
      <4>2. QED
        BY <4>1, <1>2, <2>1
    <3>3. QED
      BY <3>1, <3>2, <1>1, <1>2, <2>1 DEF Rests
  <2>4. SyncInv'
    <3>1. ~Copied(p)'
      BY <1>1, <1>4, <2>1 DEF Copied, D
    <3>2. QED
      BY <3>1, <1>1, <1>5, <2>1, <2>3, SyncKept
  <2>5. MessageInv'
    <3> SUFFICES ASSUME spoiled' \cap {"fault", "mixed"} = {} PROVE MessageInv'
      BY DEF MessageInv
    <3>1. /\ \A q \in Processes \ {p} : ~Under(q)' /\ WriteLeft(q)'
          /\ \A q \in Processes : ~Fresh(q)'
      BY <1>7, <2>3
    <3>2. Under(p)'
      BY <1>1, <1>5, <2>1 DEF Under
    <3>3. /\ size_of_msg = call[p].n /\ loaded[p].n = call[p].n /\ Filled(pos[p], call[p].id)
      BY <1>1, <1>6
    <3>4. pos'[p] <= call[p].n /\ Filled(pos[p], call[p].id)'
      <4>1. 1 .. pos'[p] = (1 .. pos[p]) \union {pos[p] + 1}
        BY <1>2, <2>3
      <4>2. \A i \in 1 .. pos'[p] : mem'[<<"kbuffer", i>>] = call[p].id
        BY <4>1, <3>3, <2>3 DEF Filled
      <4>3. QED
        BY <4>2, <3>3, <2>3, <1>1, <1>2, <1>8 DEF Filled
    <3>5. WriteLeft(p)'
      BY <3>3, <3>4, <1>1, <1>4, <2>1 DEF WriteLeft, D
    <3>6. QED
      BY <3>1, <3>2, <3>5 DEF MessageInv
  <2>6. QED
    BY <2>4, <2>5
<1>9. CASE ~(pos[p] < loaded[p].n)
  <2>1. UNCHANGED <<mem, pos>> /\ Advances(p) /\ message' = [id |-> call[p].id, n |-> call[p].n]
    BY <1>1, <1>9 DEF CopyIn, Advances
  <2>2. E = D \ {"in"} /\ \A q \in Processes \ {p} : Rests(q)
    BY <1>1, <2>1, SyncDrops DEF D, E
  <2>3. message'.id # 0
    <3>1. calls \in Nat /\ call[p].id \in 1 .. calls
      BY <1>4, BoundsAssumption DEF TypeOK, CallOK, Bound
    <3>2. QED
      BY <2>1, <3>1
  <2>4. SyncInv'
    BY <1>1, <2>2, <2>3, SyncKept
  <2>5. MessageInv'
    <3> SUFFICES ASSUME spoiled' \cap {"fault", "mixed"} = {} PROVE MessageInv'
      BY DEF MessageInv
    <3>1. /\ \A q \in Processes \ {p} : ~Under(q)' /\ WriteLeft(q)'
          /\ \A q \in Processes : ~Fresh(q)'
      BY <1>7, <2>2
    <3>2. ~Under(p)' /\ WriteLeft(p)'
      BY <1>1, <1>4, <2>2 DEF Under, WriteLeft, D, E
    <3>3. size_of_msg' = message'.n /\ Filled(message.n, message.id)'
      <4>1. /\ size_of_msg = call[p].n /\ loaded[p].n = call[p].n
            /\ pos[p] <= call[p].n /\ Filled(pos[p], call[p].id)
        BY <1>1, <1>6
      <4>2. pos[p] = call[p].n
        BY <4>1, <1>2, <1>9
      <4>3. QED
        BY <4>1, <4>2, <1>1, <2>1 DEF Filled
    <3>4. QED
      BY <3>1, <3>2, <3>3 DEF MessageInv
  <2>6. QED
    BY <2>4, <2>5
<1>10. QED
  BY <1>8, <1>9

\* The offset and the completion tell that there has been a message
LEMMA SyncTells ==
    ASSUME TypeOK, Shape, SyncInv, MessageInv, driver = "chardev_sync", NEW p \in Processes,
           LoadOffset(p) \/ StoreOffset(p) \/ Complete(p)
    PROVE  SyncInv' /\ MessageInv'
<1> DEFINE D == Dos(todo[p])
<1> DEFINE E == Dos(todo'[p])
<1> DEFINE h == Head(todo[p]).do
<1> DEFINE Tells == /\ h \in {"load", "add", "complete"}
                    /\ UNCHANGED <<mem, size_of_msg, pos, got, message, crossed>>
                    /\ spoiled \subseteq spoiled'
                    /\ spoiled' \cap {"fault", "mixed"} = spoiled \cap {"fault", "mixed"}
                    /\ loaded'[p].n = loaded[p].n
                    /\ \A q \in Processes \ {p} : loaded'[q] = loaded[q]
<1>1. loaded \in [Processes -> [n : 0 .. Size, len : 0 .. Size, offset : Nat, sequence : Nat]]
  BY DEF TypeOK
<1>2. LoadOffset(p) => Tells
  BY <1>1 DEF LoadOffset, Doing, dataVars, history
<1>3. StoreOffset(p) => Tells
  BY <1>1 DEF StoreOffset, Doing
<1>4. Complete(p) => Tells
  BY DEF Complete, Doing, copyVars, history
<1>5. Tells /\ Advances(p)
  BY <1>2, <1>3, <1>4, Moves
<1>6. /\ E = D \ {h} /\ SyncAt(p) /\ call' = call /\ driver' = driver
      /\ \A q \in Processes \ {p} : Rests(q)
  BY <1>5, SyncDrops
<1> HIDE DEF D, E
<1>7. Waited(p) \/ Copied(p)
  <2>1. /\ call[p].op \in {"read", "write"}
        /\ call[p].op = "read" => h # "complete" /\ (h # "await" => "await" \notin D)
        /\ call[p].op = "write" => h \notin {"load", "add"}
        /\ h = "complete" => "in" \notin D /\ "return" \in D
    BY <1>5, <1>6 DEF SyncAt, D
  <2>2. QED
    BY <1>5, <2>1 DEF Waited, Copied, D
<1> HIDE DEF h
<1>8. SyncInv'
  BY <1>5, <1>6, <1>7, SyncKept
<1>9. /\ "await" \in E <=> "await" \in D
      /\ "count" \in E <=> "count" \in D
      /\ "size" \in E <=> "size" \in D
      /\ "in" \in E <=> "in" \in D
      /\ "return" \in E <=> "return" \in D
  BY <1>5, <1>6
<1>10. /\ Under(p)' <=> Under(p)
       /\ Fresh(p)' <=> Fresh(p)
  BY <1>5, <1>6, <1>9 DEF Under, Fresh, Waited, D, E
<1>11. /\ WriteLeft(p) => WriteLeft(p)'
       /\ ReadHas(p) => ReadHas(p)'
  BY <1>5, <1>6, <1>9, <1>10 DEF WriteLeft, ReadHas, Filled, D, E
<1>12. ASSUME spoiled' \cap {"fault", "mixed"} = {}
       PROVE  WriteLeft(p)' /\ (Fresh(p)' => ReadHas(p)' /\ \A r \in Processes : ~Under(r))
  BY <1>5, <1>10, <1>11, <1>12 DEF MessageInv
<1>13. MessageInv'
  BY <1>5, <1>6, <1>10, <1>12, MessageKept
<1>14. QED
  BY <1>8, <1>13

\* A copy that fails returns nothing
LEMMA SyncFault ==
    ASSUME TypeOK, Shape, SyncInv, MessageInv, driver = "chardev_sync", NEW p \in Processes,
           Fault(p)
    PROVE  SyncInv' /\ MessageInv'
<1> DEFINE D == Dos(todo[p])
<1> DEFINE E == Dos(todo'[p])
<1>1. /\ todo[p] # <<>> /\ Head(todo[p]).do \in {"in", "out"}
      /\ UNCHANGED <<driver, mem, size_of_msg, readoffset, completions, call, pos, got, loaded,
                     message, crossed>>
      /\ spoiled \subseteq spoiled' /\ (call[p].op = "write" => "fault" \in spoiled')
  BY DEF Fault, Doing, dataVars, callVars, copyVars, Writing
<1>2. /\ \A q \in Processes \ {p} : todo'[q] = todo[q]
      /\ \/ E = {"failed"}
         \/ \E unlock \in Unlocks : unlock \in D /\ E = {unlock, "failed"}
  BY FaultsTo DEF Offsets
<1>3. SyncAt(p)
  BY <1>1, SyncAts
<1>4. \A q \in Processes \ {p} : Rests(q)
  BY <1>1, <1>2 DEF Rests
<1> HIDE DEF D, E
<1>5. "return" \notin E
  BY <1>2 DEF Unlocks
<1>6. /\ call[p].op \in {"read", "write"}
      /\ call[p].op = "read" => "await" \notin D
  BY <1>1, <1>3 DEF SyncAt, D
<1>7. SyncInv'
  <2>1. ~Waited(p) => ~Waited(p)' /\ ~Copied(p)'
    BY <1>1, <1>5, <1>6 DEF Waited, Copied, D, E
  <2>2. QED
    BY <1>1, <1>4, <2>1, SyncKept
<1>8. ~Fresh(p)'
  BY <1>5 DEF Fresh, E
<1>9. call[p].op = "read" => ~Under(p) /\ ~Under(p)' /\ WriteLeft(p)'
  BY <1>1 DEF Under, WriteLeft
<1>10. MessageInv'
  BY <1>1, <1>4, <1>6, <1>8, <1>9, MessageKept
<1>11. QED
  BY <1>7, <1>10

\* A call that ends
LEMMA SyncLeaves ==
    ASSUME TypeOK, Shape, SyncInv, MessageInv, driver = "chardev_sync", NEW p \in Processes,
           Return(p) \/ Failed(p)
    PROVE  SyncInv' /\ MessageInv'
<1>1. /\ Leave(p) /\ todo[p] # <<>> /\ Head(todo[p]).do \in {"return", "failed"}
      /\ UNCHANGED <<driver, mem, size_of_msg, readoffset, completions, spoiled, message>>
      /\ crossed' = crossed \ {p}
  BY DEF Return, Failed, Leave, dataVars, Doing
<1>2. /\ DOMAIN got = Processes /\ todo \in [Processes -> Seq(Step)]
      /\ call \in [Processes -> Calls] /\ pos \in [Processes -> 0 .. Size]
      /\ loaded \in [Processes -> [n : 0 .. Size, len : 0 .. Size, offset : Nat, sequence : Nat]]
  BY DEF TypeOK
<1>3. call'[p] = NoCall /\ \A q \in Processes \ {p} : Rests(q)
  BY <1>1, <1>2 DEF Leave, Done, Rests
<1>4. ~Waited(p)' /\ ~Copied(p)' /\ ~Under(p)' /\ ~Fresh(p)' /\ WriteLeft(p)'
  BY <1>3 DEF Waited, Copied, Under, Fresh, WriteLeft, NoCall
<1>5. ~Under(p)
  <2>1. SyncAt(p)
    BY <1>1, SyncAts
  <2>2. Dos(todo[p]) = {Head(todo[p]).do}
    BY <1>1, <2>1 DEF SyncAt
  <2>3. QED
    BY <1>1, <2>2 DEF Under
<1>6. SyncInv'
  BY <1>1, <1>3, <1>4, SyncKept
<1>7. MessageInv'
  BY <1>1, <1>3, <1>4, <1>5, MessageKept
<1>8. QED
  BY <1>6, <1>7

\* A call that begins
LEMMA SyncEnters ==
    ASSUME TypeOK, Shape, \A p \in Processes : CallOK(p), SyncInv, MessageInv,
           driver = "chardev_sync", NEW p \in Processes, Call(p)
    PROVE  SyncInv' /\ MessageInv'
<1> DEFINE E == Dos(todo'[p])
<1>1. /\ \A q \in Processes \ {p} : todo'[q] = todo[q] /\ call'[q] = call[q]
      /\ todo[p] = <<>> /\ pos[p] = 0
      /\ call'[p].op \in {"read", "write"} /\ E = Dos(Prog(driver, call'[p].op))
      /\ UNCHANGED <<driver, dataVars, copyVars, spoiled, message, crossed>>
  BY OffsetEnters DEF Offsets
<1>2. /\ UNCHANGED <<mem, size_of_msg, readoffset, completions, pos, got, loaded>>
      /\ \A q \in Processes \ {p} : Rests(q)
  BY <1>1 DEF dataVars, copyVars, Rests
<1> HIDE DEF E
<1>3. /\ call'[p].op = "read" => E = {"count", "out", "load", "add", "return", "await"}
      /\ call'[p].op = "write" => E = {"size", "count", "in", "return", "complete"}
  BY <1>1, OffsetDos DEF Offsets
<1>4. ~Waited(p)' /\ ~Copied(p)' /\ ~Under(p)' /\ ~Fresh(p)'
  BY <1>1, <1>3 DEF Waited, Copied, Under, Fresh, E
<1>5. ~Under(p) /\ WriteLeft(p)'
  <2>1. call[p].op = "none"
    BY <1>1, IdleShape
  <2>2. QED
    BY <2>1, <1>1, <1>2, <1>3, <1>4 DEF Under, WriteLeft, E
<1>6. SyncInv'
  BY <1>1, <1>2, <1>4, SyncKept
<1>7. MessageInv'
  BY <1>1, <1>2, <1>4, <1>5, MessageKept
<1>8. QED
  BY <1>6, <1>7

\* What has let a read go on, and what it has copied
LEMMA SyncStep ==
    ASSUME TypeOK, Shape, \A p \in Processes : CallOK(p), CopyInv, SyncInv, MessageInv,
           [Next]_vars
    PROVE  SyncInv' /\ MessageInv'
<1>1. driver' = driver
  BY NextDriver
<1> SUFFICES ASSUME driver = "chardev_sync" PROVE SyncInv' /\ MessageInv'
  BY <1>1 DEF SyncInv, MessageInv
<1>2. CASE UNCHANGED vars
  <2>1. UNCHANGED <<mem, size_of_msg, readoffset, completions, todo, call, pos, got, loaded,
                    spoiled, message, crossed>>
    BY <1>2 DEF vars, dataVars, callVars, copyVars, history
  <2>2. SyncInv'
    BY <1>1, <2>1 DEF SyncInv, Waited, Copied
  <2>3. MessageInv'
    BY <1>1, <2>1 DEF MessageInv, Under, Filled, WriteLeft, ReadHas, Fresh, Waited
  <2>4. QED
    BY <2>2, <2>3
<1>3. CASE Next
  <2>1. PICK p \in Processes : OffsetMoves(p)
    BY <1>3, OffsetNext DEF Offsets
  <2>2. ~(\/ ReadLock(p) \/ ReadUnlock(p) \/ WriteLock(p) \/ WriteUnlock(p)
          \/ SeqBegin(p) \/ SeqRetry(p))
    <3>1. todo[p] # <<>> => SyncAt(p)
      BY SyncAts
    <3>2. todo[p] # <<>> => Head(todo[p]).do \notin {"rlock", "runlock", "wlock", "wunlock",
                                                     "seqbegin", "seqretry"}
      BY <3>1 DEF SyncAt
    <3>3. QED
      BY <3>2 DEF ReadLock, ReadUnlock, WriteLock, WriteUnlock, SeqBegin, SeqRetry, Doing
  <2>3. QED
    BY <2>1, <2>2, SyncAwait, SyncCount, SyncSize, SyncCopyOut, SyncCopyIn, SyncTells,
       SyncFault, SyncLeaves, SyncEnters DEF OffsetMoves
<1>4. QED
  BY <1>2, <1>3

\* A read of chardev_sync that no signal has cut short has waited for a write
\* that has finished its message: before the first one there are no completions
\* and no offset. And a read that has met no write since its wait returns the
\* whole of the last message: no write is under way, so that the size and the
\* buffer are those of the message, and a write that sets its size makes every
\* reader past its wait one that has met it.
THEOREM ReadsWait == Spec => []WaitsForMessage
<1>1. Init => SyncInv /\ MessageInv
  <2> SUFFICES ASSUME Init PROVE SyncInv /\ MessageInv
    OBVIOUS
  <2>1. \A q \in Processes : call[q].op = "none"
    BY DEF Init, NoCall
  <2>2. size_of_msg = message.n /\ Filled(message.n, message.id)
    BY DEF Init, Filled
  <2>3. SyncInv
    BY <2>1 DEF Init, SyncInv, Waited, Copied
  <2>4. QED
    BY <2>1, <2>2, <2>3 DEF MessageInv, Under, WriteLeft, Fresh, Waited
<1>2. SharedInv /\ CopyInv /\ SyncInv /\ MessageInv /\ [Next]_vars => SyncInv' /\ MessageInv'
  BY SyncStep DEF SharedInv, TypeInv
<1>3. SharedInv /\ CopyInv /\ SyncInv /\ MessageInv => WaitsForMessage
  <2> SUFFICES ASSUME SharedInv, CopyInv, SyncInv, MessageInv, driver = "chardev_sync",
                      NEW p \in Processes, Doing(p, "return"), Reading(call[p].op)
               PROVE  /\ "signal" \notin spoiled => message.id # 0
                      /\ p \notin crossed /\ spoiled \cap {"fault", "mixed"} = {}
                         => got[p] = [k \in {CellAt(p, i) : i \in 1 .. message.n} |-> message.id]
    BY DEF WaitsForMessage
  <2>1. todo[p] # <<>> /\ Head(todo[p]).do = "return"
    BY DEF Doing
  <2>2. SyncAt(p)
    BY <2>1, SyncAts DEF SharedInv, TypeInv
  <2>3. Dos(todo[p]) = {"return"} /\ call[p].op = "read"
    BY <2>1, <2>2 DEF SyncAt, Reading
  <2>4. Waited(p)
    BY <2>3 DEF Waited
  <2>5. "signal" \notin spoiled => message.id # 0
    BY <2>4 DEF SyncInv
  <2>6. ASSUME p \notin crossed, spoiled \cap {"fault", "mixed"} = {}
        PROVE  got[p] = [k \in {CellAt(p, i) : i \in 1 .. message.n} |-> message.id]
    <3>1. ReadHas(p)
      BY <2>3, <2>4, <2>6 DEF MessageInv, Fresh
    <3>2. got[p] = [k \in Cells(p, pos[p]) |-> got[p][k]] /\ pos[p] = message.n
      BY <2>3, <3>1 DEF CopyInv, ReadCopy, ReadHas, Offsets
    <3>3. \A k \in Cells(p, pos[p]) : got[p][k] = message.id
      BY <3>1, <3>2 DEF ReadHas
    <3>4. QED
      BY <3>2, <3>3 DEF Cells
  <2>7. QED
    BY <2>5, <2>6
<1>4. QED
  BY <1>1, <1>2, <1>3, SharedInvariant, CopyInvariant, PTL DEF Spec

-----------------------------------------------------------------------------
(* readoffset: the sum of what the reads return.                           *)

\* What reads have added and have yet to return
Share(q, n) == {q} \X (1 .. n)
Pending == {x \in Processes \X (1 .. Size) : Added(x[1]) /\ x[2] <= loaded[x[1]].len}

OffsetInv ==
    driver \in Offsets /\ "lost" \notin spoiled =>
        IsFiniteSet(Pending) /\ readoffset = returned + Cardinality(Pending)

\* A share counts as many as the read returns
LEMMA ShareSize ==
    ASSUME NEW q, NEW n \in Nat
    PROVE  IsFiniteSet(Share(q, n)) /\ Cardinality(Share(q, n)) = n
<1> DEFINE f == [i \in 1 .. n |-> <<q, i>>]
<1>1. f \in Bijection(1 .. n, Share(q, n))
  <2>1. /\ f \in [1 .. n -> Share(q, n)]
        /\ \A i, j \in 1 .. n : f[i] = f[j] => i = j
    BY DEF Share
  <2>2. \A x \in Share(q, n) : \E i \in 1 .. n : f[i] = x
    <3>1. \A x \in Share(q, n) : x = <<q, x[2]>> /\ x[2] \in 1 .. n
      BY DEF Share
    <3>2. QED
      BY <3>1
  <2> HIDE DEF f
  <2>3. QED
    BY <2>1, <2>2 DEF Bijection, Injection, Surjection, IsInjective
<1>2. ExistsBijection(1 .. n, Share(q, n))
  BY <1>1 DEF ExistsBijection
<1>3. IsFiniteSet(1 .. n) /\ Cardinality(1 .. n) = n
  BY FS_Interval
<1>4. QED
  BY <1>2, <1>3, FS_Bijection

\* One share more, or one less
LEMMA PendingGrows ==
    ASSUME NEW R, NEW q, NEW n \in Nat, IsFiniteSet(R), \A x \in R : x[1] # q
    PROVE  /\ IsFiniteSet(R \union Share(q, n))
           /\ Cardinality(R \union Share(q, n)) = Cardinality(R) + n
           /\ Cardinality(R) \in Nat
<1>1. R \cap Share(q, n) = {}
  BY DEF Share
<1>2. /\ IsFiniteSet(R \union Share(q, n))
      /\ Cardinality(R \union Share(q, n)) =
             Cardinality(R) + Cardinality(Share(q, n)) - Cardinality(R \cap Share(q, n))
  BY FS_Union, ShareSize
<1>3. Cardinality(R \cap Share(q, n)) = 0
  BY <1>1, FS_EmptySet
<1>4. Cardinality(R) \in Nat
  BY FS_CardinalityType
<1>5. QED
  BY <1>2, <1>3, <1>4, ShareSize

\* A step of a process that touches no share
AddSame(q) ==
    /\ call'[q] = call[q] /\ loaded'[q].len = loaded[q].len
    /\ Dos(todo'[q]) \cap {"add", "return"} = Dos(todo[q]) \cap {"add", "return"}

\* Only the process at the step changes its share of the sum
LEMMA PendingSame ==
    ASSUME NEW p \in Processes, \A q \in Processes \ {p} : AddSame(q)
    PROVE  /\ {x \in Pending : x[1] # p} = {x \in Pending' : x[1] # p}
           /\ \A q \in Processes \ {p} : (Added(q)' <=> Added(q)) /\ loaded'[q].len = loaded[q].len
<1>1. ASSUME NEW q \in Processes \ {p}
      PROVE  (Added(q)' <=> Added(q)) /\ loaded'[q].len = loaded[q].len
  BY DEF AddSame, Added
<1>2. {x \in Pending : x[1] # p} = {x \in Pending' : x[1] # p}
  BY <1>1 DEF Pending
<1>3. QED
  BY <1>1, <1>2

Unspoiled == "lost" \notin spoiled

\* A step that leaves the sum, and the shares, as they are
LEMMA AddsKept ==
    ASSUME OffsetInv, driver \in Offsets, driver' = driver, NEW p \in Processes,
           spoiled \subseteq spoiled', \A q \in Processes \ {p} : AddSame(q),
           UNCHANGED <<readoffset, returned>>,
           Added(p)' <=> Added(p), Added(p) => loaded'[p].len = loaded[p].len
    PROVE  OffsetInv'
<1> SUFFICES ASSUME Unspoiled' PROVE OffsetInv'
  BY DEF OffsetInv, Unspoiled
<1>1. Unspoiled /\ IsFiniteSet(Pending) /\ readoffset = returned + Cardinality(Pending)
  BY DEF OffsetInv, Unspoiled
<1>2. Pending' = Pending
  <2>1. \A q \in Processes : /\ Added(q)' <=> Added(q)
                             /\ Added(q) => loaded'[q].len = loaded[q].len
    BY PendingSame
  <2>2. QED
    BY <2>1 DEF Pending
<1>3. QED
  BY <1>1, <1>2 DEF OffsetInv

\* A read adds its share
LEMMA AddsStore ==
    ASSUME TypeOK, Shape, OffsetInv, driver \in Offsets, NEW p \in Processes, StoreOffset(p)
    PROVE  OffsetInv'
<1> DEFINE D == Dos(todo[p])
<1> DEFINE E == Dos(todo'[p])
<1> DEFINE n == size_of_msg
<1>1. /\ Head(todo[p]).do = "add" /\ Advances(p) /\ todo[p] # <<>>
      /\ readoffset' = loaded[p].offset + n
      /\ loaded' = [loaded EXCEPT ![p].len = n]
      /\ spoiled' = IF readoffset # loaded[p].offset THEN spoiled \union {"lost"} ELSE spoiled
      /\ returned' = returned
  BY Moves DEF StoreOffset, Doing
<1>2. /\ E = D \ {"add"} /\ call' = call /\ driver' = driver
      /\ \A q \in Processes \ {p} : todo'[q] = todo[q]
  BY <1>1, OffsetDrops
<1>3. AddAt(p)
  BY <1>1, AddAts
<1> HIDE DEF D, E
<1>4. call[p].op = "read" /\ "add" \in D /\ "return" \in E /\ "add" \notin E
  <2>1. call[p].op = "read" /\ "return" \in D /\ "add" \in D
    BY <1>1, <1>3 DEF AddAt, D
  <2>2. QED
    BY <2>1, <1>2
<1>5. /\ loaded \in [Processes -> [n : 0 .. Size, len : 0 .. Size, offset : Nat, sequence : Nat]]
      /\ readoffset \in Nat /\ returned \in Nat /\ size_of_msg \in 0 .. Size /\ Size \in Nat
  BY SizeAssumption DEF TypeOK
<1> SUFFICES ASSUME Unspoiled' PROVE OffsetInv'
  BY DEF OffsetInv, Unspoiled
<1>6. Unspoiled /\ IsFiniteSet(Pending) /\ readoffset = returned + Cardinality(Pending)
  BY <1>1 DEF OffsetInv, Unspoiled
<1>7. readoffset' = readoffset + n /\ n \in 0 .. Size
  <2>1. readoffset = loaded[p].offset
    BY <1>1 DEF Unspoiled
  <2>2. QED
    BY <2>1, <1>1, <1>5
<1> HIDE DEF n
<1>8. loaded'[p].len = n /\ \A q \in Processes \ {p} : loaded'[q] = loaded[q] /\ AddSame(q)
  BY <1>1, <1>2, <1>5 DEF AddSame
<1>9. ~Added(p) /\ Added(p)'
  BY <1>2, <1>4 DEF Added, D, E
<1>10. Pending' = Pending \union Share(p, n) /\ \A x \in Pending : x[1] # p
  <2>1. \A q \in Processes : Added(q)' <=> Added(q) \/ q = p
    BY <1>8, <1>9, PendingSame
  <2>2. \A x \in Processes \X (1 .. Size) :
           x \in Share(p, n) <=> x[1] = p /\ x[2] <= n
    BY <1>5, <1>7 DEF Share
  <2>3. Share(p, n) \subseteq Processes \X (1 .. Size)
    BY <1>5, <1>7 DEF Share
  <2>4. \A q \in Processes \ {p} : loaded'[q].len = loaded[q].len
    BY <1>8
  <2>5. Pending' = Pending \union Share(p, n)
    <3>1. \A x \in Processes \X (1 .. Size) :
              x \in Pending' <=> x \in Pending \/ x \in Share(p, n)
      BY <2>1, <2>2, <2>4, <1>8, <1>9 DEF Pending
    <3>2. QED
      BY <3>1, <2>3 DEF Pending
  <2>6. QED
    BY <2>5, <1>9 DEF Pending
<1>11. /\ IsFiniteSet(Pending') /\ Cardinality(Pending') = Cardinality(Pending) + n
       /\ Cardinality(Pending) \in Nat
  <2>1. n \in Nat
    BY <1>5, <1>7
  <2> DEFINE R == Pending
  <2>2. IsFiniteSet(R) /\ \A x \in R : x[1] # p
    BY <1>6, <1>10
  <2> HIDE DEF R
  <2>3. /\ IsFiniteSet(R \union Share(p, n))
        /\ Cardinality(R \union Share(p, n)) = Cardinality(R) + n
        /\ Cardinality(R) \in Nat
    BY <2>1, <2>2, PendingGrows
  <2>4. QED
    BY <2>3, <1>10 DEF R
<1>12. readoffset' = returned' + Cardinality(Pending')
  BY <1>1, <1>5, <1>6, <1>7, <1>11
<1>13. QED
  BY <1>11, <1>12 DEF OffsetInv

\* A read returns its share
LEMMA AddsReturned ==
    ASSUME OffsetInv, driver \in Offsets, driver' = driver, NEW p \in Processes,
           loaded[p].len \in 0 .. Size, returned \in Nat, readoffset \in Nat,
           spoiled \subseteq spoiled', \A q \in Processes \ {p} : AddSame(q),
           readoffset' = readoffset, returned' = returned + loaded[p].len,
           Added(p), ~Added(p)'
    PROVE  OffsetInv'
<1> DEFINE n == loaded[p].len
<1> DEFINE R == {x \in Pending : x[1] # p}
<1> SUFFICES ASSUME Unspoiled' PROVE OffsetInv'
  BY DEF OffsetInv, Unspoiled
<1>1. Unspoiled /\ IsFiniteSet(Pending) /\ readoffset = returned + Cardinality(Pending)
  BY DEF OffsetInv, Unspoiled
<1>2. n \in Nat /\ Size \in Nat
  BY SizeAssumption
<1>3. R = {x \in Pending' : x[1] # p}
  BY PendingSame
<1>4. Pending = R \union Share(p, n)
  <2>1. \A x \in Processes \X (1 .. Size) :
           x \in Share(p, n) <=> x[1] = p /\ x[2] <= n
    BY <1>2 DEF Share
  <2>2. Share(p, n) \subseteq Processes \X (1 .. Size)
    BY <1>2 DEF Share
  <2>3. \A x \in Processes \X (1 .. Size) : x \in Pending <=> x \in R \/ x \in Share(p, n)
    BY <2>1 DEF Pending
  <2>4. QED
    BY <2>2, <2>3 DEF Pending
<1>5. Pending' = R
  <2>1. \A x \in Pending' : x[1] # p
    BY DEF Pending
  <2>2. QED
    BY <2>1, <1>3
<1>6. IsFiniteSet(R)
  BY <1>1, FS_Subset
<1> HIDE DEF R, n
<1>7. /\ Cardinality(Pending) = Cardinality(R) + n /\ Cardinality(R) \in Nat
  <2>1. \A x \in R : x[1] # p
    BY DEF R
  <2>2. QED
    BY <2>1, <1>2, <1>4, <1>6, PendingGrows
<1>8. readoffset' = returned' + Cardinality(Pending')
  BY <1>1, <1>2, <1>5, <1>7 DEF n
<1>9. QED
  BY <1>5, <1>6, <1>8 DEF OffsetInv

\* A step that changes neither offset nor shares keeps the sum
LEMMA AddsQuiet ==
    ASSUME OffsetInv, driver \in Offsets, driver' = driver, NEW p \in Processes,
           spoiled \subseteq spoiled', \A q \in Processes : AddSame(q),
           UNCHANGED <<readoffset, returned>>
    PROVE  OffsetInv'
<1>1. (Added(p)' <=> Added(p)) /\ loaded'[p].len = loaded[p].len
  BY DEF AddSame, Added
<1>2. QED
  BY <1>1, AddsKept

\* Steps of a program that are no addition
LEMMA AddsAdvances ==
    ASSUME TypeOK, Shape, OffsetInv, driver \in Offsets, NEW p \in Processes, Advances(p),
           Head(todo[p]).do \notin {"add", "return"},
           UNCHANGED <<readoffset, returned>>, spoiled \subseteq spoiled',
           \A q \in Processes : loaded'[q].len = loaded[q].len
    PROVE  OffsetInv'
<1>1. /\ Dos(todo'[p]) = Dos(todo[p]) \ {Head(todo[p]).do}
      /\ \A q \in Processes \ {p} : todo'[q] = todo[q]
      /\ call' = call /\ driver' = driver
  BY OffsetDrops
<1>2. AddSame(p)
  BY <1>1 DEF AddSame
<1>3. \A q \in Processes : AddSame(q)
  BY <1>1, <1>2 DEF AddSame
<1>4. QED
  BY <1>1, <1>3, AddsQuiet

\* Counts, sizes, waits, locks and the load of the offset
LEMMA AddsPlain ==
    ASSUME TypeOK, Shape, OffsetInv, driver \in Offsets, NEW p \in Processes,
           \/ Count(p) \/ SetSize(p) \/ LoadOffset(p) \/ Await(p) \/ Complete(p) \/ SeqBegin(p)
           \/ ReadLock(p) \/ ReadUnlock(p) \/ WriteLock(p) \/ WriteUnlock(p)
    PROVE  OffsetInv'
<1>1. Advances(p)
  BY Moves
<1>2. loaded \in [Processes -> [n : 0 .. Size, len : 0 .. Size, offset : Nat, sequence : Nat]]
  BY DEF TypeOK
<1>3. CASE Count(p) \/ LoadOffset(p) \/ SeqBegin(p)
  <2>1. /\ Head(todo[p]).do \notin {"add", "return"}
        /\ UNCHANGED <<readoffset, returned, spoiled>>
        /\ \A q \in Processes : loaded'[q].len = loaded[q].len
    <3>1. CASE Count(p)
      BY <1>2, <3>1 DEF Count, Doing, dataVars, history
    <3>2. CASE LoadOffset(p)
      BY <1>2, <3>2 DEF LoadOffset, Doing, dataVars, history
    <3>3. CASE SeqBegin(p)
      BY <1>2, <3>3 DEF SeqBegin, Doing, dataVars, history
    <3>4. QED
      BY <1>3, <3>1, <3>2, <3>3
  <2>2. QED
    BY <1>1, <2>1, AddsAdvances
<1>4. CASE SetSize(p) \/ Await(p) \/ Complete(p)
  <2>1. /\ Head(todo[p]).do \notin {"add", "return"}
        /\ UNCHANGED <<readoffset, returned, loaded>> /\ spoiled \subseteq spoiled'
    BY <1>4 DEF SetSize, Await, Complete, Doing, copyVars, history
  <2>2. QED
    BY <1>1, <2>1, AddsAdvances
<1>5. CASE ReadLock(p) \/ ReadUnlock(p) \/ WriteLock(p) \/ WriteUnlock(p)
  <2>1. /\ Head(todo[p]).do \notin {"add", "return"}
        /\ UNCHANGED <<readoffset, returned, loaded, spoiled>>
    BY <1>5 DEF ReadLock, ReadUnlock, WriteLock, WriteUnlock, Doing, dataVars, copyVars, history
  <2>2. QED
    BY <1>1, <2>1, AddsAdvances
<1>6. QED
  BY <1>3, <1>4, <1>5

\* The copies of the message
LEMMA AddsCopies ==
    ASSUME TypeOK, Shape, OffsetInv, driver \in Offsets, NEW p \in Processes,
           CopyOut(p) \/ CopyIn(p)
    PROVE  OffsetInv'
<1>1. /\ Head(todo[p]).do \in {"out", "in"} /\ todo[p] # <<>>
      /\ UNCHANGED <<driver, call, readoffset, returned, loaded, spoiled>>
      /\ Stays \/ Advances(p)
  <2>1. Stays \/ Advances(p)
    BY Moves
  <2>2. CASE CopyOut(p)
    BY <2>1, <2>2 DEF CopyOut, Doing, dataVars, callVars, history
  <2>3. CASE CopyIn(p)
    BY <2>1, <2>3 DEF CopyIn, Doing, callVars
  <2>4. QED
    BY <2>2, <2>3
<1>2. CASE Stays
  <2>1. \A q \in Processes : AddSame(q)
    BY <1>1, <1>2 DEF AddSame, Stays
  <2>2. QED
    BY <1>1, <2>1, AddsQuiet
<1>3. CASE Advances(p)
  <2>1. Head(todo[p]).do \notin {"add", "return"}
    BY <1>1
  <2>2. QED
    BY <1>1, <1>3, <2>1, AddsAdvances
<1>4. QED
  BY <1>1, <1>2, <1>3

\* A copy that fails, which a read that has added never does
LEMMA AddsFault ==
    ASSUME TypeOK, Shape, OffsetInv, driver \in Offsets, NEW p \in Processes, Fault(p)
    PROVE  OffsetInv'
<1> DEFINE D == Dos(todo[p])
<1> DEFINE E == Dos(todo'[p])
<1>1. /\ todo[p] # <<>> /\ Head(todo[p]).do \in {"in", "out"}
      /\ UNCHANGED <<driver, call, readoffset, returned, loaded>>
      /\ spoiled \subseteq spoiled'
  BY DEF Fault, Doing, dataVars, callVars, copyVars
<1>2. /\ \A q \in Processes \ {p} : todo'[q] = todo[q]
      /\ \/ E = {"failed"}
         \/ \E unlock \in Unlocks : unlock \in D /\ E = {unlock, "failed"}
  BY FaultsTo
<1>3. AddAt(p)
  BY <1>1, AddAts
<1> HIDE DEF D, E
<1>4. "return" \notin E
  BY <1>2 DEF Unlocks
<1>5. call[p].op = "read" => "add" \in D
  BY <1>1, <1>3 DEF AddAt, D
<1>6. ~Added(p) /\ ~Added(p)'
  BY <1>4, <1>5 DEF Added, D, E
<1>7. \A q \in Processes \ {p} : AddSame(q)
  BY <1>1, <1>2 DEF AddSame
<1>8. QED
  BY <1>1, <1>6, <1>7, AddsKept

\* A call that ends
LEMMA AddsLeaves ==
    ASSUME TypeOK, Shape, OffsetInv, driver \in Offsets, NEW p \in Processes,
           Return(p) \/ Failed(p)
    PROVE  OffsetInv'
<1>1. /\ todo[p] # <<>> /\ Head(todo[p]).do \in {"return", "failed"} /\ Leave(p)
      /\ UNCHANGED <<driver, readoffset, spoiled>>
  BY DEF Return, Failed, Leave, Doing, dataVars
<1>2. /\ todo \in [Processes -> Seq(Step)] /\ call \in [Processes -> Calls]
      /\ loaded \in [Processes -> [n : 0 .. Size, len : 0 .. Size, offset : Nat, sequence : Nat]]
      /\ returned \in Nat /\ readoffset \in Nat
  BY DEF TypeOK
<1>3. /\ call'[p] = NoCall
      /\ \A q \in Processes \ {p} : /\ todo'[q] = todo[q] /\ call'[q] = call[q]
                                    /\ loaded'[q] = loaded[q]
  BY <1>1, <1>2 DEF Leave, Done
<1>4. /\ call'[p].op = "none" /\ ~Added(p)' /\ \A q \in Processes \ {p} : AddSame(q)
  BY <1>3 DEF Added, AddSame, NoCall
<1>5. Dos(todo[p]) = {Head(todo[p]).do} /\ AddAt(p)
  BY <1>1, AddAts DEF AddAt
<1>6. CASE Return(p) /\ call[p].op = "read"
  <2>1. returned' = returned + loaded[p].len /\ Head(todo[p]).do = "return"
    BY <1>6 DEF Return, Doing
  <2>2. Added(p)
    BY <2>1, <1>5, <1>6 DEF Added
  <2>3. loaded[p].len \in 0 .. Size
    BY <1>2
  <2>4. QED
    BY <1>1, <1>2, <1>4, <2>1, <2>2, <2>3, AddsReturned
<1>7. CASE ~(Return(p) /\ call[p].op = "read")
  <2>1. returned' = returned
    BY <1>7 DEF Return, Failed
  <2>2. ~Added(p)
    BY <1>5, <1>7 DEF Added, Failed, Doing
  <2>3. QED
    BY <1>1, <1>4, <2>1, <2>2, AddsKept
<1>8. QED
  BY <1>6, <1>7

\* A call that begins
LEMMA AddsEnters ==
    ASSUME TypeOK, Shape, \A p \in Processes : CallOK(p), OffsetInv, driver \in Offsets,
           NEW p \in Processes, Call(p)
    PROVE  OffsetInv'
<1>1. /\ \A q \in Processes \ {p} : todo'[q] = todo[q] /\ call'[q] = call[q]
      /\ Dos(todo[p]) = {} /\ call'[p].op \in {"read", "write"}
      /\ Dos(todo'[p]) = Dos(Prog(driver, call'[p].op))
      /\ UNCHANGED <<driver, dataVars, copyVars, returned, spoiled>>
  BY OffsetEnters
<1>2. UNCHANGED <<driver, readoffset, returned, loaded, spoiled>>
  BY <1>1 DEF dataVars, copyVars
<1>3. call'[p].op = "read" => "add" \in Dos(todo'[p])
  BY <1>1, OffsetDos
<1>4. ~Added(p) /\ ~Added(p)'
  BY <1>1, <1>3 DEF Added
<1>5. \A q \in Processes \ {p} : AddSame(q)
  BY <1>1, <1>2 DEF AddSame
<1>6. QED
  BY <1>2, <1>3, <1>4, <1>5, AddsKept

\* A read of the seqlock that begins again has returned what it added
LEMMA AddsRetry ==
    ASSUME TypeOK, Shape, OffsetInv, driver \in Offsets, NEW p \in Processes, SeqRetry(p)
    PROVE  OffsetInv'
<1>1. /\ todo[p] # <<>> /\ Head(todo[p]).do = "seqretry"
      /\ UNCHANGED <<driver, call, readoffset, loaded, spoiled>>
  BY DEF SeqRetry, Doing, dataVars, callVars
<1>2. /\ todo \in [Processes -> Seq(Step)] /\ returned \in Nat /\ readoffset \in Nat
      /\ loaded \in [Processes -> [n : 0 .. Size, len : 0 .. Size, offset : Nat, sequence : Nat]]
  BY DEF TypeOK
<1>3. AddAt(p)
  BY <1>1, AddAts
<1>4. call[p].op = "read" /\ "add" \notin Dos(todo[p])
  BY <1>1, <1>3 DEF AddAt
<1>5. CASE sequence = loaded[p].sequence
  <2>1. Advances(p) /\ returned' = returned
    BY <1>1, <1>5 DEF SeqRetry, Advances
  <2>2. Head(todo[p]).do \notin {"add", "return"}
    BY <1>1
  <2>3. QED
    BY <1>1, <2>1, <2>2, AddsAdvances
<1>6. CASE sequence # loaded[p].sequence
  <2>1. /\ todo' = [todo EXCEPT ![p] = Program(p)]
        /\ returned' = IF Left(p, "return") THEN returned + loaded[p].len ELSE returned
    BY <1>6 DEF SeqRetry
  <2>2. todo'[p] = Prog(driver, "read") /\ \A q \in Processes \ {p} : todo'[q] = todo[q]
    BY <1>2, <1>4, <2>1 DEF Program, Prog
  <2>3. "add" \in Dos(todo'[p])
    BY <2>2, OffsetDos
  <2>4. ~Added(p)' /\ \A q \in Processes \ {p} : AddSame(q)
    BY <2>2, <2>3, <1>1 DEF Added, AddSame
  <2>5. Left(p, "return") <=> Added(p)
    <3>1. Left(p, "return") <=> "return" \in Dos(todo[p])
      BY <1>2, LeftDos
    <3>2. QED
      BY <3>1, <1>4 DEF Added
  <2>6. CASE Added(p)
    <3>1. returned' = returned + loaded[p].len /\ loaded[p].len \in 0 .. Size
      BY <1>2, <2>1, <2>5, <2>6
    <3>2. QED
      BY <1>1, <1>2, <2>4, <2>6, <3>1, AddsReturned
  <2>7. CASE ~Added(p)
    <3>1. returned' = returned
      BY <2>1, <2>5, <2>7
    <3>2. QED
      BY <1>1, <2>4, <2>7, <3>1, AddsKept
  <2>8. QED
    BY <2>6, <2>7
<1>7. QED
  BY <1>5, <1>6

\* readoffset stays the sum of what was returned and what is about to be
LEMMA AddsStep ==
    ASSUME TypeOK, Shape, \A p \in Processes : CallOK(p), OffsetInv, [Next]_vars
    PROVE  OffsetInv'
<1>1. driver' = driver
  BY NextDriver
<1> SUFFICES ASSUME driver \in Offsets PROVE OffsetInv'
  BY <1>1 DEF OffsetInv
<1>2. CASE UNCHANGED vars
  <2>1. UNCHANGED <<readoffset, todo, call, loaded, returned, spoiled>>
    BY <1>2 DEF vars, dataVars, callVars, copyVars, history
  <2>2. QED
    BY <2>1, <1>1 DEF OffsetInv, Pending, Added
<1>3. CASE Next
  <2>1. PICK p \in Processes : OffsetMoves(p)
    BY <1>3, OffsetNext
  <2>2. QED
    BY <2>1, AddsPlain, AddsCopies, AddsStore, AddsFault, AddsLeaves, AddsEnters, AddsRetry
       DEF OffsetMoves
<1>4. QED
  BY <1>2, <1>3

\* readoffset is what all reads together have returned, for any number of
\* processes, and whatever size a write sets under a reader: between them the
\* reads that have added and not yet returned hold the difference, each the
\* length that it added and will return, and a read of the seqlock that begins
\* again has added for good. Only an addition between another's load and store
\* (lost) is left out.
THEOREM OffsetIsSum == Spec => []OffsetsAdd
<1>1. Init => OffsetInv
  <2> SUFFICES ASSUME Init PROVE OffsetInv
    OBVIOUS
  <2>1. readoffset = 0 /\ returned = 0 /\ \A q \in Processes : call[q].op = "none"
    BY DEF Init, NoCall
  <2>2. Pending = {}
    BY <2>1 DEF Pending, Added
  <2>3. IsFiniteSet(Pending) /\ Cardinality(Pending) = 0
    BY <2>2, FS_EmptySet
  <2>4. QED
    BY <2>1, <2>3 DEF OffsetInv
<1>2. SharedInv /\ OffsetInv /\ [Next]_vars => OffsetInv'
  BY AddsStep DEF SharedInv, TypeInv
<1>3. SharedInv /\ OffsetInv => OffsetsAdd
  <2> SUFFICES ASSUME SharedInv, OffsetInv, driver \in Offsets, Unspoiled,
                      \A p \in Processes : InCall(p) /\ call[p].op = "read" => Left(p, "add")
               PROVE  readoffset = returned
    BY DEF OffsetsAdd, Unspoiled
  <2>1. TypeOK /\ Shape
    BY DEF SharedInv, TypeInv
  <2>2. ASSUME NEW q \in Processes, Added(q) PROVE FALSE
    <3>1. InCall(q)
      BY <2>1, <2>2, IdleShape DEF InCall, Added
    <3>2. Left(q, "add") <=> "add" \in Dos(todo[q])
      BY <2>1, LeftDos DEF TypeOK
    <3>3. QED
      BY <2>2, <3>1, <3>2 DEF Added
  <2>3. Pending = {}
    BY <2>2 DEF Pending
  <2>4. Cardinality(Pending) = 0
    BY <2>3, FS_EmptySet
  <2>5. readoffset = returned + Cardinality(Pending) /\ returned \in Nat
    BY <2>1 DEF OffsetInv, Unspoiled, TypeOK
  <2>6. QED
    BY <2>4, <2>5
<1>4. QED
  BY <1>1, <1>2, <1>3, SharedInvariant, PTL DEF Spec

-----------------------------------------------------------------------------
(* Reads that return what the last write left: what a call of a driver     *)
(* with a message buffer is about to do.                                   *)

\* A step of a call of a driver with a message buffer, by its name
MessageSays(p) ==
    LET D == Dos(todo[p])
        h == Head(todo[p]).do
        op == call[p].op
    IN  /\ op \in {"read", "write", "fill", "poll"} /\ h \in D
        /\ op = "read" => h \notin {"in", "clear", "fill"}
        /\ op = "write" => h \notin {"out", "fill", "seqretry"}
        /\ op \in {"fill", "poll"}
             => h \notin {"size", "count", "out", "in", "clear", "forget", "seqretry"}
        /\ op = "poll" => h # "fill"
        /\ h \in {"return", "failed"} => D = {h}
        /\ h = "size" => "count" \in D /\ (op = "read" => driver \in Lengths)
        /\ h = "clear" => "size" \notin D /\ "count" \in D /\ driver \in Lengths
        /\ h = "count" => "size" \notin D
        /\ h \in {"in", "out"} => "count" \notin D
        /\ h = "forget" => "count" \notin D /\ driver \in Lengths
        /\ h = "seqretry" => driver \notin Lengths
        /\ op = "read" /\ "count" \in D => "out" \in D
        /\ op = "write" /\ "count" \in D => "in" \in D

\* The drivers that one process at a time may open, and those with a length
LEMMA Asking ==
    /\ AloneMessages = Alone \ Ports /\ Lengths = {"chardev_minor"} \union AloneMessages
    /\ Messages \cap Alone = AloneMessages
    /\ Lengths \cap (Bare \union Offsets) = {}
BY MessageFamilies DEF AloneMessages, Alone, Ports, Lengths, Bare, Offsets, Messages, Locked

\* The steps of the reads and of the writes of a message
ReadPrograms ==
    {{"count", "out", "return"}, {"size", "count", "out", "return"},
     {"await", "count", "out", "load", "add", "return"},
     {"rlock", "count", "out", "load", "add", "runlock", "return"},
     {"seqbegin", "count", "out", "load", "add", "seqretry", "return"},
     {"size", "count", "out", "forget", "return"}}
WritePrograms ==
    {{"size", "count", "in", "return"}, {"size", "count", "in", "complete", "return"},
     {"size", "wlock", "count", "in", "wunlock", "return"},
     {"size", "clear", "count", "in", "forget", "return"}}

\* Each operation of a driver with a message buffer has the steps of one of these
LEMMA ProgDos ==
    ASSUME NEW d \in Messages, NEW op \in DOMAIN Table[d].ops
    PROVE  /\ op = "read" \/ op = "write" \/ op = "fill" \/ op = "poll"
           /\ op = "read" => Dos(Prog(d, op)) \in ReadPrograms
           /\ op = "write" => Dos(Prog(d, op)) \in WritePrograms
           /\ op = "fill" => Dos(Prog(d, op)) = {"fill", "return"}
           /\ op = "poll" => Dos(Prog(d, op)) = {"poll", "return"}
<1>1. d \in DOMAIN Table
  BY DEF Messages
<1>2. op \in MessageOps(d) /\ Dos(Prog(d, op)) = MessageDos(d, op) \union {"return"}
  BY <1>1, Programs
<1>3. op = "read" \/ op = "write" \/ op = "fill" \/ op = "poll"
  BY <1>2 DEF MessageOps, When
<1>4. /\ op = "fill" => Dos(Prog(d, op)) = {"fill", "return"}
      /\ op = "poll" => Dos(Prog(d, op)) = {"poll", "return"}
  BY <1>2, FamilyDos
<1>5. \/ d \in Bare \/ d = "chardev_minor" \/ d = "chardev_sync" \/ d \in Locked
      \/ d \in AloneMessages
  BY MessageFamilies
<1>6. d \in Locked => d = "chardrv_lock" \/ d = "chardrv_seqlock"
  BY DEF Locked
<1>7. op = "read" => MessageDos(d, op) \in
                   {{"count", "out"}, {"size", "count", "out"},
                    {"await", "count", "out", "load", "add"},
                    {"rlock", "count", "out", "load", "add", "runlock"},
                    {"seqbegin", "count", "out", "load", "add", "seqretry"},
                    {"size", "count", "out", "forget"}}
  BY <1>5, <1>6, FamilyDos
<1>8. op = "write" => MessageDos(d, op) \in
                   {{"size", "count", "in"}, {"size", "count", "in", "complete"},
                    {"size", "wlock", "count", "in", "wunlock"},
                    {"size", "clear", "count", "in", "forget"}}
  BY <1>5, <1>6, FamilyDos
<1>9. QED
  BY <1>2, <1>3, <1>4, <1>7, <1>8 DEF ReadPrograms, WritePrograms

\* The next step of such a call tells what is done and what is to come
LEMMA NextMessageStep ==
    ASSUME TypeOK, Shape, driver \in Messages, NEW p \in Processes, InCall(p)
    PROVE  MessageSays(p)
<1> DEFINE D == Dos(todo[p])
<1> DEFINE h == Head(todo[p]).do
<1> DEFINE op == call[p].op
<1> DEFINE P == Dos(Prog(driver, op))
<1>1. /\ op \in DOMAIN Table[driver].ops /\ h \in D
      /\ h \notin Dos(Tail(todo[p])) /\ D = {h} \union Dos(Tail(todo[p]))
      /\ \A e \in Dos(Tail(todo[p])) : Rank[h] < Rank[e]
      /\ "failed" \in D => \/ D = {"failed"}
                           \/ \E unlock \in Unlocks \cap P : D = {unlock, "failed"}
      /\ "failed" \notin D => /\ "return" \in D /\ D \subseteq P
                              /\ \A a \in P \ D : \A b \in D : Rank[a] < Rank[b]
  BY MessageAt
<1>2. \A e \in D \ {h} : Rank[h] < Rank[e]
  BY <1>1
<1>3. driver \in Lengths <=> driver = "chardev_minor" \/ driver \in AloneMessages
  BY Asking
<1>4. driver \in DOMAIN Table
  BY DEF Messages
<1>5. h \in {"clear", "forget"} => driver \in Lengths
  <2> SUFFICES ASSUME h \in {"clear", "forget"} PROVE driver \in Lengths
    OBVIOUS
  <2>1. h \notin OpeningDos \union {"failed"}
        /\ h \notin PortSteps \union {"getvalue", "setvalue", "return"}
    BY DEF OpeningDos, PortSteps
  <2>2. h \in P
    BY <2>1, OwnStep DEF InCall
  <2>3. driver \in Alone
    BY <1>1, <1>4, <2>1, <2>2, StepOwners
  <2>4. QED
    BY <2>3, Asking
<1>6. h \in {"size", "seqretry"} /\ op = "read"
        => (h = "size" => driver \in Lengths) /\ (h = "seqretry" => driver \notin Lengths)
  <2> SUFFICES ASSUME h \in {"size", "seqretry"}, op = "read"
               PROVE  /\ h = "size" => driver \in Lengths
                      /\ h = "seqretry" => driver \notin Lengths
    OBVIOUS
  <2>1. h \notin OpeningDos \union {"failed"}
        /\ h \notin PortSteps \union {"getvalue", "setvalue", "return"}
    BY DEF OpeningDos, PortSteps
  <2>2. h \in P
    BY <2>1, OwnStep DEF InCall
  <2>3. /\ h \in {"seqbegin", "seqretry"} => driver = "chardrv_seqlock"
        /\ h = "size" => driver \in Lengths
    BY <1>1, <1>4, <2>1, <2>2, StepOwners
  <2>4. "chardrv_seqlock" \notin Lengths
    BY DEF Lengths, Alone, Ports
  <2>5. QED
    BY <2>3, <2>4
<1>7. /\ op = "read" \/ op = "write" \/ op = "fill" \/ op = "poll"
      /\ op = "read" => P \in ReadPrograms
      /\ op = "write" => P \in WritePrograms
      /\ op = "fill" => P = {"fill", "return"}
      /\ op = "poll" => P = {"poll", "return"}
  BY <1>1, ProgDos
<1> HIDE DEF D, h, op, P
<1>8. CASE "failed" \in D
  <2>1. \/ D = {"failed"} \/ \E unlock \in Unlocks : unlock \in P /\ D = {unlock, "failed"}
    BY <1>1, <1>8
  <2>2. h \in Unlocks \union {"failed"} /\ "count" \notin D /\ (h = "failed" => D = {"failed"})
    BY <1>1, <1>2, <2>1 DEF Unlocks, Rank
  <2>3. h = "seqretry" => h \in P
    BY <1>1, <2>1 DEF Unlocks
  <2>4. h = "seqretry" => op = "read"
    BY <1>7, <2>3 DEF WritePrograms
  <2>5. QED
    BY <1>1, <1>6, <1>7, <2>2, <2>4 DEF MessageSays, Unlocks, D, h, op
<1>9. CASE "failed" \notin D
  <2>1. h \in P /\ h # "failed"
    BY <1>1, <1>9
  <2>2. op = "read" => /\ h \notin {"in", "clear", "fill"}
                       /\ "count" \in D => "out" \in D
                       /\ h = "size" => "count" \in D
                       /\ h = "count" => "size" \notin D
                       /\ h = "out" => "count" \notin D
                       /\ h = "forget" => "count" \notin D
                       /\ h = "return" => D = {h}
    BY <1>1, <1>2, <1>7, <1>9 DEF Rank, ReadPrograms, WritePrograms
  <2>3. op = "write" => /\ h \notin {"out", "fill", "seqretry"}
                        /\ "count" \in D => "in" \in D
                        /\ h = "size" => "count" \in D
                        /\ h = "clear" => "size" \notin D /\ "count" \in D
                        /\ h = "count" => "size" \notin D
                        /\ h = "in" => "count" \notin D
                        /\ h = "forget" => "count" \notin D
                        /\ h = "return" => D = {h}
    BY <1>1, <1>2, <1>7, <1>9 DEF Rank, ReadPrograms, WritePrograms
  <2>4. op = "fill" \/ op = "poll"
           => /\ h \notin {"size", "count", "out", "in", "clear", "forget", "seqretry"}
              /\ op = "poll" => h # "fill"
              /\ h = "return" => D = {h}
    BY <1>1, <1>2, <1>7, <1>9 DEF Rank, ReadPrograms, WritePrograms
  <2>5. QED
    BY <1>1, <1>5, <1>6, <1>7, <2>1, <2>2, <2>3, <2>4 DEF MessageSays, D, h, op
<1>10. QED
  BY <1>8, <1>9

-----------------------------------------------------------------------------
(* The invariant.                                                          *)

\* A history in which what a read returns is known: no write was cut short, and
\* calls that share what they use did not overlap
Clean == "fault" \notin spoiled /\ (~dirty \/ driver \in Alone)

\* No call overlaps with a write, nor any call with another in these
Shy == Alone \union BareSysfs \union {"chardev_minor"}
Apart ==
    \A p, q \in Processes : InCall(p) /\ InCall(q) /\ p # q
        => ~Writing(call[p].op) /\ ~Writing(call[q].op) /\ driver \notin Shy

\* Every access has its own register selected
Aimed == \A p \in Processes : AtPort(p) => address = Key(p)[1]

\* With no write at work the buffer is what the last one left
NoWriter == \A p \in Processes : InCall(p) => ~Writing(call[p].op)
Standing ==
    NoWriter => /\ mem = latest.mem
                /\ driver \in Messages \ Lengths => size_of_msg = latest.size

\* How far a write of a message is
MessageWrite(p) ==
    LET D == Dos(todo[p])
        n == call[p].n
    IN  /\ "count" \in D => pos[p] = 0
        /\ "size" \notin D /\ ("count" \in D \/ driver \notin Lengths) => size_of_msg = n
        /\ "count" \notin D => loaded[p].n = n
        /\ pos[p] <= n
        /\ "in" \notin D => pos[p] = n
        /\ \A i \in 1 .. pos[p] : mem[CellAt(p, i)] = call[p].id
MessageFill(p) ==
    /\ size_of_msg = latest.size
    /\ "fill" \notin Dos(todo[p]) => \A i \in 1 .. Size : mem[CellAt(p, i)] = call[p].id

\* and one of registers
Accessing(p, dos) == {s \in Steps(Prog(driver, call[p].op)) : s.do \in dos}
RegisterWrite(p) ==
    \A s \in Accessing(p, {"set", "setvalue"}) :
        s \notin Steps(todo[p]) => mem[KeyOf(p, s)] = call[p].id

WriteOK(p) ==
    InCall(p) /\ Writing(call[p].op) =>
        /\ "return" \in Dos(todo[p])
        /\ \A k \in Keys \ Written(p) : mem[k] = latest.mem[k]
        /\ driver \in Messages /\ call[p].op = "write" => MessageWrite(p)
        /\ driver \in Messages /\ call[p].op = "fill" => MessageFill(p)
        /\ driver \notin Messages => RegisterWrite(p)

\* How far a read of a message is, and one of registers
Length(p) == IF driver \in Lengths THEN call[p].n ELSE latest.size
MessageRead(p) ==
    LET D == Dos(todo[p])
    IN  /\ DOMAIN got[p] = {CellAt(p, i) : i \in 1 .. pos[p]}
        /\ "count" \in D => pos[p] = 0
        /\ driver \in Lengths /\ "size" \notin D /\ "count" \in D => size_of_msg = call[p].n
        /\ "count" \notin D => loaded[p].n = Length(p)
        /\ pos[p] <= Length(p)
        /\ "out" \notin D /\ "return" \in D => pos[p] = Length(p)
RegisterRead(p) ==
    /\ DOMAIN got[p] \subseteq {KeyOf(p, s) : s \in Accessing(p, {"get", "getvalue"})}
    /\ \A s \in Accessing(p, {"get", "getvalue"}) :
          s \notin Steps(todo[p]) => KeyOf(p, s) \in DOMAIN got[p]

ReadOK(p) ==
    InCall(p) /\ Reading(call[p].op) =>
        /\ got[p] = [k \in DOMAIN got[p] |-> latest.mem[k]]
        /\ driver \in Messages => MessageRead(p)
        /\ driver \notin Messages => RegisterRead(p)

\* What holds in a clean history
WholeInv == Clean => /\ Apart /\ Aimed /\ Standing
                     /\ \A p \in Processes : WriteOK(p) /\ ReadOK(p)

\* The steps that tell how far a call is
Work == {"size", "count", "in", "out", "fill", "return", "get", "set", "getvalue", "setvalue"}
SameWork(q) ==
    /\ call'[q] = call[q] /\ pos'[q] = pos[q] /\ got'[q] = got[q] /\ loaded'[q].n = loaded[q].n
    /\ InCall(q)' <=> InCall(q)
    /\ \A s : s.do \in Work => (s \in Steps(todo'[q]) <=> s \in Steps(todo[q]))

\* The same in terms of the names of steps
LEMMA SameDos ==
    ASSUME NEW q, SameWork(q), NEW a \in Work
    PROVE  a \in Dos(todo'[q]) <=> a \in Dos(todo[q])
BY DEF SameWork, Dos

\* What a call is to write, and where, is the call's
LEMMA SameCells ==
    ASSUME NEW q, call'[q] = call[q], driver' = driver
    PROVE  /\ Written(q)' = Written(q) /\ \A i : CellAt(q, i)' = CellAt(q, i)
           /\ \A dos : Accessing(q, dos)' = Accessing(q, dos)
           /\ \A s : KeyOf(q, s)' = KeyOf(q, s)
<1>1. \A i : CellAt(q, i)' = CellAt(q, i)
  BY DEF CellAt
<1>2. \A s : KeyOf(q, s)' = KeyOf(q, s)
  BY DEF KeyOf
<1>3. \A dos : Accessing(q, dos)' = Accessing(q, dos)
  BY DEF Accessing
<1>4. Written(q)' = Written(q)
  BY DEF Written, KeysOf, KeyOf, Program, CellAt
<1>5. QED
  BY <1>1, <1>2, <1>3, <1>4

\* A call that gets no further is where it was
LEMMA WholeHolds ==
    ASSUME NEW q \in Processes, SameWork(q), WriteOK(q), ReadOK(q), driver' = driver,
           UNCHANGED <<mem, size_of_msg, latest>>
    PROVE  WriteOK(q)' /\ ReadOK(q)'
<1>1. /\ call'[q] = call[q] /\ pos'[q] = pos[q] /\ got'[q] = got[q]
      /\ loaded'[q].n = loaded[q].n
      /\ InCall(q)' <=> InCall(q)
      /\ \A s : s.do \in Work => (s \in Steps(todo'[q]) <=> s \in Steps(todo[q]))
      /\ \A a \in Work : a \in Dos(todo'[q]) <=> a \in Dos(todo[q])
      /\ mem' = mem /\ size_of_msg' = size_of_msg /\ latest' = latest
  BY SameDos DEF SameWork
<1>2. /\ Written(q)' = Written(q) /\ \A i : CellAt(q, i)' = CellAt(q, i)
      /\ \A dos : Accessing(q, dos)' = Accessing(q, dos)
      /\ \A s : KeyOf(q, s)' = KeyOf(q, s)
  BY <1>1, SameCells
<1>3. WriteOK(q)'
  <2> SUFFICES ASSUME InCall(q)', Writing(call'[q].op)
               PROVE  /\ "return" \in Dos(todo'[q])
                      /\ \A k \in Keys \ Written(q)' : mem'[k] = latest'.mem[k]
                      /\ driver' \in Messages /\ call'[q].op = "write" => MessageWrite(q)'
                      /\ driver' \in Messages /\ call'[q].op = "fill" => MessageFill(q)'
                      /\ driver' \notin Messages => RegisterWrite(q)'
    BY DEF WriteOK
  <2>1. /\ "return" \in Dos(todo[q])
        /\ \A k \in Keys \ Written(q) : mem[k] = latest.mem[k]
        /\ driver \in Messages /\ call[q].op = "write" => MessageWrite(q)
        /\ driver \in Messages /\ call[q].op = "fill" => MessageFill(q)
        /\ driver \notin Messages => RegisterWrite(q)
    BY <1>1 DEF WriteOK
  <2>2. "return" \in Dos(todo'[q])
    BY <1>1, <2>1 DEF Work
  <2>3. MessageWrite(q) => MessageWrite(q)'
    BY <1>1, <1>2 DEF MessageWrite, Work
  <2>4. MessageFill(q) => MessageFill(q)'
    BY <1>1, <1>2 DEF MessageFill, Work
  <2>5. RegisterWrite(q) => RegisterWrite(q)'
    <3> SUFFICES ASSUME RegisterWrite(q), NEW s \in Accessing(q, {"set", "setvalue"})',
                        s \notin Steps(todo'[q])
                 PROVE  mem'[KeyOf(q, s)'] = call'[q].id
      BY DEF RegisterWrite
    <3>1. s \in Accessing(q, {"set", "setvalue"})
      BY <1>2
    <3>2. s.do \in Work
      BY <3>1 DEF Accessing, Work
    <3>3. s \notin Steps(todo[q])
      BY <1>1, <3>2
    <3>4. QED
      BY <1>1, <1>2, <3>1, <3>3 DEF RegisterWrite
  <2>6. QED
    BY <1>1, <1>2, <2>1, <2>2, <2>3, <2>4, <2>5
<1>4. ReadOK(q)'
  <2> SUFFICES ASSUME InCall(q)', Reading(call'[q].op)
               PROVE  /\ got'[q] = [k \in DOMAIN got'[q] |-> latest'.mem[k]]
                      /\ driver' \in Messages => MessageRead(q)'
                      /\ driver' \notin Messages => RegisterRead(q)'
    BY DEF ReadOK
  <2>1. /\ got[q] = [k \in DOMAIN got[q] |-> latest.mem[k]]
        /\ driver \in Messages => MessageRead(q)
        /\ driver \notin Messages => RegisterRead(q)
    BY <1>1 DEF ReadOK
  <2>2. MessageRead(q) => MessageRead(q)'
    <3>1. Length(q)' = Length(q)
      BY <1>1 DEF Length
    <3>2. QED
      BY <1>1, <1>2, <3>1 DEF MessageRead, Work
  <2>3. RegisterRead(q) => RegisterRead(q)'
    <3> SUFFICES ASSUME RegisterRead(q) PROVE RegisterRead(q)'
      OBVIOUS
    <3> DEFINE A == Accessing(q, {"get", "getvalue"})
    <3>1. A' = A
      BY <1>2
    <3>2. \A s \in A : s.do \in Work
      BY DEF Accessing, Work
    <3>3. \A s \in A : s \notin Steps(todo'[q]) => s \notin Steps(todo[q])
      BY <1>1, <3>2
    <3>4. /\ DOMAIN got[q] \subseteq {KeyOf(q, s) : s \in A}
          /\ \A s \in A : s \notin Steps(todo[q]) => KeyOf(q, s) \in DOMAIN got[q]
      BY DEF RegisterRead
    <3> HIDE DEF A
    <3>5. {KeyOf(q, s)' : s \in A'} = {KeyOf(q, s) : s \in A}
      BY <1>2, <3>1
    <3>6. /\ DOMAIN got'[q] \subseteq {KeyOf(q, s)' : s \in A'}
          /\ \A s \in A' : s \notin Steps(todo'[q]) => KeyOf(q, s)' \in DOMAIN got'[q]
      BY <1>1, <1>2, <3>1, <3>3, <3>4, <3>5
    <3>7. QED
      BY <3>6 DEF RegisterRead, A
  <2>4. QED
    BY <1>1, <2>1, <2>2, <2>3
<1>5. QED
  BY <1>3, <1>4

\* What holds of the calls and of the buffer
WorkInv == Standing /\ \A q \in Processes : WriteOK(q) /\ ReadOK(q)

\* A write has the buffer for itself, and so has any call of a shy driver
LEMMA Lone ==
    ASSUME Apart, NEW p \in Processes, InCall(p), Writing(call[p].op) \/ driver \in Shy
    PROVE  \A q \in Processes \ {p} : ~InCall(q)
BY DEF Apart

\* so that a read has the buffer as the last write left it
LEMMA ReadsStanding ==
    ASSUME Apart, Standing, NEW p \in Processes, InCall(p), ~Writing(call[p].op)
    PROVE  mem = latest.mem /\ (driver \in Messages \ Lengths => size_of_msg = latest.size)
BY DEF Apart, Standing, NoWriter

\* A step at which no call gets any further
LEMMA WholeQuiet ==
    ASSUME WorkInv, driver' = driver, UNCHANGED <<mem, size_of_msg, latest>>,
           \A q \in Processes : SameWork(q)
    PROVE  WorkInv'
<1>1. \A q \in Processes : WriteOK(q)' /\ ReadOK(q)'
  BY WholeHolds DEF WorkInv
<1>2. NoWriter' => NoWriter
  BY DEF NoWriter, SameWork
<1>3. QED
  BY <1>1, <1>2 DEF WorkInv, Standing

\* A step of a write
LEMMA WriterActs ==
    ASSUME Apart, NEW p \in Processes, InCall(p), Writing(call[p].op),
           call'[p] = call[p], todo'[p] # <<>>,
           \A q \in Processes \ {p} : todo'[q] = todo[q] /\ call'[q] = call[q],
           WriteOK(p)'
    PROVE  WorkInv'
<1>1. \A q \in Processes \ {p} : ~InCall(q)'
  BY Lone DEF InCall
<1>2. \A q \in Processes \ {p} : WriteOK(q)' /\ ReadOK(q)'
  BY <1>1 DEF WriteOK, ReadOK
<1>3. InCall(p)' /\ Writing(call'[p].op) /\ ~Reading(call'[p].op)
  BY DEF InCall, Writing, Reading
<1>4. ReadOK(p)' /\ ~NoWriter'
  BY <1>3 DEF ReadOK, NoWriter
<1>5. QED
  BY <1>2, <1>4 DEF WorkInv, Standing

\* A step of a read
LEMMA ReaderActs ==
    ASSUME Apart, WorkInv, driver' = driver, NEW p \in Processes, InCall(p), Reading(call[p].op),
           call'[p] = call[p],
           UNCHANGED <<mem, latest>>, size_of_msg' = size_of_msg \/ driver \in Lengths,
           \A q \in Processes \ {p} : SameWork(q),
           ReadOK(p)'
    PROVE  WorkInv'
<1>1. ~Writing(call[p].op)
  BY DEF Reading, Writing
<1>2. ASSUME NEW q \in Processes \ {p} PROVE WriteOK(q)' /\ ReadOK(q)'
  <2>1. CASE size_of_msg' = size_of_msg
    BY <2>1, WholeHolds DEF WorkInv
  <2>2. CASE driver \in Lengths
    <3>1. driver \in Shy
      BY <2>2 DEF Lengths, Shy
    <3>2. ~InCall(q)
      BY <3>1, Lone
    <3>3. ~InCall(q)'
      BY <3>2 DEF SameWork
    <3>4. QED
      BY <3>3 DEF WriteOK, ReadOK
  <2>3. QED
    BY <2>1, <2>2
<1>3. WriteOK(p)'
  BY <1>1 DEF WriteOK
<1>4. mem = latest.mem /\ (driver \in Messages \ Lengths => size_of_msg = latest.size)
  BY <1>1, ReadsStanding DEF WorkInv
<1>5. Standing'
  BY <1>4 DEF Standing
<1>6. QED
  BY <1>2, <1>3, <1>5 DEF WorkInv

\* A process that is in no call after the step, and before it in no write
LEMMA WholeStops ==
    ASSUME WorkInv, driver' = driver, UNCHANGED <<mem, size_of_msg, latest>>,
           NEW p \in Processes, InCall(p) => ~Writing(call[p].op), ~InCall(p)',
           \A q \in Processes \ {p} : SameWork(q)
    PROVE  WorkInv'
<1>1. \A q \in Processes \ {p} : WriteOK(q)' /\ ReadOK(q)'
  BY WholeHolds DEF WorkInv
<1>2. WriteOK(p)' /\ ReadOK(p)'
  BY DEF WriteOK, ReadOK
<1>3. NoWriter' => NoWriter
  BY DEF NoWriter, SameWork
<1>4. QED
  BY <1>1, <1>2, <1>3 DEF WorkInv, Standing

\* A process that the step of another leaves alone
LEMMA LeftAlone ==
    ASSUME NEW q, call'[q] = call[q], todo'[q] = todo[q], pos'[q] = pos[q],
           got'[q] = got[q], loaded'[q].n = loaded[q].n
    PROVE  SameWork(q)
BY DEF SameWork, InCall

\* The keys of some steps of a program
LEMMA ProgramKeys ==
    ASSUME driver \in DOMAIN Table, NEW p, call[p].op \in DOMAIN Table[driver].ops, NEW dos
    PROVE  /\ KeysOf(p, Program(p), dos) = {KeyOf(p, s) : s \in Accessing(p, dos)}
           /\ Program(p) = Prog(driver, call[p].op)
<1> DEFINE t == Prog(driver, call[p].op)
<1>1. t \in Seq(Step) /\ Program(p) = t
  BY Programs DEF Form, Program, Prog
<1> HIDE DEF t
<1>2. DOMAIN t = 1 .. Len(t)
  BY <1>1
<1>3. ASSUME NEW k \in KeysOf(p, t, dos)
      PROVE  k \in {KeyOf(p, s) : s \in {x \in Steps(t) : x.do \in dos}}
  <2>1. PICK j \in {i \in DOMAIN t : t[i].do \in dos} : k = KeyOf(p, t[j])
    BY <1>3 DEF KeysOf
  <2>2. t[j] \in Steps(t) /\ t[j].do \in dos
    BY <2>1, <1>2 DEF Steps
  <2>3. QED
    BY <2>1, <2>2
<1>4. ASSUME NEW s \in {x \in Steps(t) : x.do \in dos} PROVE KeyOf(p, s) \in KeysOf(p, t, dos)
  <2>1. PICK j \in 1 .. Len(t) : s = t[j]
    BY DEF Steps
  <2>2. QED
    BY <2>1, <1>2 DEF KeysOf
<1>5. KeysOf(p, t, dos) = {KeyOf(p, s) : s \in {x \in Steps(t) : x.do \in dos}}
  BY <1>3, <1>4
<1>6. QED
  BY <1>1, <1>5 DEF Accessing, t

\* What a call of a message writes, and what it reads
LEMMA MessageCells ==
    ASSUME driver \in Messages, NEW p, call[p].op \in DOMAIN Table[driver].ops
    PROVE  /\ call[p].op # "fill" => Written(p) = {CellAt(p, i) : i \in 1 .. call[p].n}
           /\ call[p].op = "fill" => Written(p) = {CellAt(p, i) : i \in 1 .. Size}
           /\ Expected(p) = {CellAt(p, i) : i \in 1 .. Length(p)}
<1>1. driver \in DOMAIN Table /\ driver \notin Ports \union {"proc_skel"}
  BY DEF Messages
<1>2. Dos(Prog(driver, call[p].op)) \cap {"set", "setvalue", "get", "getvalue"} = {}
  <2> DEFINE P == Dos(Prog(driver, call[p].op))
  <2> DEFINE op == call[p].op
  <2>1. /\ op = "read" \/ op = "write" \/ op = "fill" \/ op = "poll"
        /\ op = "read" => P \in ReadPrograms
        /\ op = "write" => P \in WritePrograms
        /\ op = "fill" => P = {"fill", "return"}
        /\ op = "poll" => P = {"poll", "return"}
    BY ProgDos
  <2> HIDE DEF P, op
  <2>2. P \cap {"set", "setvalue", "get", "getvalue"} = {}
    BY <2>1 DEF ReadPrograms, WritePrograms
  <2>3. QED
    BY <2>2 DEF P, op
<1>3. ASSUME NEW dos, dos \subseteq {"set", "setvalue", "get", "getvalue"}
      PROVE  KeysOf(p, Program(p), dos) = {}
  <2>1. Accessing(p, dos) = {}
    BY <1>2, <1>3 DEF Accessing, Dos
  <2>2. QED
    BY <2>1, <1>1, ProgramKeys
<1>4. /\ KeysOf(p, Program(p), {"set", "setvalue"}) = {}
      /\ KeysOf(p, Program(p), {"get", "getvalue"}) = {}
  BY <1>3
<1>5. QED
  BY <1>1, <1>4 DEF Written, Expected, Length

\* A message being written
LEMMA MessageWriter ==
    ASSUME driver \in Messages, driver' = driver, NEW p, call'[p] = call[p],
           "return" \in Dos(todo'[p]),
           \A k \in Keys \ Written(p) : mem'[k] = latest'.mem[k],
           call[p].op = "write" => MessageWrite(p)', call[p].op = "fill" => MessageFill(p)'
    PROVE  WriteOK(p)'
<1>1. Written(p)' = Written(p)
  BY SameCells
<1>2. QED
  BY <1>1 DEF WriteOK

\* and one being read
LEMMA MessageReader ==
    ASSUME driver \in Messages, driver' = driver, NEW p,
           got'[p] = [k \in DOMAIN got'[p] |-> latest'.mem[k]], MessageRead(p)'
    PROVE  ReadOK(p)'
BY DEF ReadOK

\* What is known of a call, and of its step
LEMMA Knows ==
    ASSUME TypeOK, Shape, \A q \in Processes : CallOK(q), WorkInv, driver \in Messages,
           NEW p \in Processes, todo[p] # <<>>, Head(todo[p]).do \notin OpeningDos
    PROVE  /\ InCall(p) /\ MessageSays(p) /\ call[p].op \in DOMAIN Table[driver].ops
           /\ call[p].n \in 1 .. Size /\ pos[p] \in 0 .. Size /\ loaded[p].n \in 0 .. Size
           /\ size_of_msg \in 0 .. Size /\ latest.size \in 0 .. Size
           /\ call[p].op = "write" =>
                 /\ "return" \in Dos(todo[p]) /\ MessageWrite(p)
                 /\ \A k \in Keys \ Written(p) : mem[k] = latest.mem[k]
           /\ call[p].op = "fill" =>
                 /\ "return" \in Dos(todo[p]) /\ MessageFill(p)
                 /\ \A k \in Keys \ Written(p) : mem[k] = latest.mem[k]
           /\ call[p].op = "read" =>
                 /\ got[p] = [k \in DOMAIN got[p] |-> latest.mem[k]] /\ MessageRead(p)
<1>1. InCall(p) /\ call[p].op \in DOMAIN Table[driver].ops /\ call[p].op # "none"
  BY AtWork DEF InCall
<1>2. MessageSays(p)
  BY <1>1, NextMessageStep
<1>3. /\ call[p].n \in 1 .. Size /\ pos[p] \in 0 .. Size /\ loaded[p].n \in 0 .. Size
      /\ size_of_msg \in 0 .. Size /\ latest.size \in 0 .. Size
  BY <1>1 DEF TypeOK, CallOK
<1>4. WriteOK(p) /\ ReadOK(p)
  BY DEF WorkInv
<1>5. QED
  BY <1>1, <1>2, <1>3, <1>4 DEF WriteOK, ReadOK, Writing, Reading

-----------------------------------------------------------------------------
(* The steps of the calls of a message.                                    *)

\* The length of a copy is taken
LEMMA WholeCount ==
    ASSUME TypeOK, Shape, \A q \in Processes : CallOK(q), Apart, WorkInv, driver \in Messages,
           NEW p \in Processes, Count(p)
    PROVE  WorkInv'
<1> DEFINE D == Dos(todo[p])
<1> DEFINE E == Dos(todo'[p])
<1>1. /\ todo[p] # <<>> /\ Head(todo[p]).do = "count" /\ Advances(p)
      /\ loaded' = [loaded EXCEPT ![p].n = size_of_msg]
      /\ UNCHANGED <<mem, size_of_msg, latest, pos, got>>
  BY Moves DEF Count, Doing, dataVars, history
<1>2. /\ InCall(p) /\ MessageSays(p)
      /\ call[p].op = "write" =>
            /\ "return" \in D /\ MessageWrite(p)
            /\ \A k \in Keys \ Written(p) : mem[k] = latest.mem[k]
      /\ call[p].op = "read" =>
            /\ got[p] = [k \in DOMAIN got[p] |-> latest.mem[k]] /\ MessageRead(p)
      /\ call[p].n \in 1 .. Size /\ latest.size \in 0 .. Size
  BY <1>1, Knows DEF OpeningDos
<1>3. /\ E = D \ {"count"} /\ todo'[p] # <<>> /\ call' = call /\ driver' = driver
      /\ \A q \in Processes \ {p} : todo'[q] = todo[q]
  BY <1>1, <1>2, MessageDrops
<1>4. loaded \in [Processes -> [n : 0 .. Size, len : 0 .. Size, offset : Nat, sequence : Nat]]
  BY DEF TypeOK
<1>5. loaded'[p].n = size_of_msg /\ \A q \in Processes \ {p} : loaded'[q] = loaded[q]
  BY <1>1, <1>4
<1>6. \A q \in Processes \ {p} : SameWork(q)
  BY <1>1, <1>3, <1>5, LeftAlone
<1>7. "count" \in D /\ "size" \notin D /\ (call[p].op = "write" \/ call[p].op = "read")
      /\ (call[p].op = "write" => "in" \in D) /\ (call[p].op = "read" => "out" \in D)
  BY <1>1, <1>2 DEF MessageSays
<1> HIDE DEF D, E
<1>8. CASE call[p].op = "write"
  <2>1. /\ pos[p] = 0 /\ size_of_msg = call[p].n
    BY <1>2, <1>7, <1>8 DEF MessageWrite, D
  <2>2. MessageWrite(p)'
    BY <1>1, <1>2, <1>3, <1>5, <1>7, <1>8, <2>1 DEF MessageWrite, D, E
  <2>3. "return" \in E
    BY <1>2, <1>3, <1>8
  <2>4. WriteOK(p)'
    BY <1>1, <1>2, <1>3, <1>8, <2>2, <2>3, MessageWriter DEF E
  <2>5. QED
    BY <1>2, <1>3, <1>8, <2>4, WriterActs DEF Writing
<1>9. CASE call[p].op = "read"
  <2>1. size_of_msg = Length(p)
    <3>1. CASE driver \in Lengths
      BY <1>2, <1>7, <1>9, <3>1 DEF MessageRead, Length, D
    <3>2. CASE driver \notin Lengths
      BY <1>2, <1>9, <3>2, ReadsStanding DEF Length, WorkInv, Writing
    <3>3. QED
      BY <3>1, <3>2
  <2>2. Length(p)' = Length(p) /\ \A i : CellAt(p, i)' = CellAt(p, i)
    BY <1>1, <1>3 DEF Length, CellAt
  <2>3. MessageRead(p)'
    BY <1>1, <1>2, <1>3, <1>5, <1>7, <1>9, <2>1, <2>2 DEF MessageRead, D, E
  <2>4. ReadOK(p)'
    BY <1>1, <1>2, <1>3, <1>9, <2>3, MessageReader
  <2>5. QED
    BY <1>1, <1>2, <1>3, <1>6, <1>9, <2>4, ReaderActs DEF Reading
<1>10. QED
  BY <1>7, <1>8, <1>9

\* A read has one cell more
LEMMA WholeCopyOut ==
    ASSUME TypeOK, Shape, \A q \in Processes : CallOK(q), Apart, WorkInv, driver \in Messages,
           NEW p \in Processes, CopyOut(p)
    PROVE  WorkInv'
<1> DEFINE D == Dos(todo[p])
<1> DEFINE E == Dos(todo'[p])
<1>1. /\ todo[p] # <<>> /\ Head(todo[p]).do = "out"
      /\ \/ /\ pos[p] < loaded[p].n /\ todo' = todo
            /\ got' = [got EXCEPT ![p] = With(@, CellAt(p, pos[p] + 1), mem[CellAt(p, pos[p] + 1)])]
            /\ pos' = [pos EXCEPT ![p] = @ + 1]
         \/ pos[p] >= loaded[p].n /\ Advances(p) /\ UNCHANGED <<got, pos>>
      /\ UNCHANGED <<driver, mem, size_of_msg, latest, loaded, call>>
  <2>1. pos[p] \in 0 .. Size /\ loaded[p].n \in 0 .. Size
    BY DEF TypeOK
  <2>2. QED
    BY <2>1 DEF CopyOut, Doing, Done, Advances, dataVars, callVars, history
<1>2. /\ InCall(p) /\ MessageSays(p)
      /\ call[p].op = "read" =>
            /\ got[p] = [k \in DOMAIN got[p] |-> latest.mem[k]] /\ MessageRead(p)
      /\ call[p].n \in 1 .. Size /\ latest.size \in 0 .. Size
      /\ pos[p] \in 0 .. Size /\ loaded[p].n \in 0 .. Size
  BY <1>1, Knows DEF OpeningDos
<1>3. call[p].op = "read" /\ "count" \notin D /\ "out" \in D
  BY <1>1, <1>2 DEF MessageSays
<1>4. /\ mem = latest.mem /\ loaded[p].n = Length(p) /\ Length(p)' = Length(p)
      /\ \A i : CellAt(p, i)' = CellAt(p, i)
  <2>1. mem = latest.mem
    BY <1>2, <1>3, ReadsStanding DEF WorkInv, Writing
  <2>2. QED
    BY <2>1, <1>1, <1>2, <1>3 DEF MessageRead, Length, CellAt, D
<1>5. pos \in [Processes -> 0 .. Size] /\ DOMAIN got = Processes
  BY DEF TypeOK
<1> HIDE DEF D, E
<1>6. CASE pos[p] < loaded[p].n
  <2> DEFINE k == CellAt(p, pos[p] + 1)
  <2>1. /\ got'[p] = With(got[p], k, mem[k]) /\ pos'[p] = pos[p] + 1 /\ todo' = todo
        /\ \A q \in Processes \ {p} : got'[q] = got[q] /\ pos'[q] = pos[q]
    <3>1. ~(pos[p] >= loaded[p].n)
      BY <1>2, <1>6
    <3>2. /\ todo' = todo /\ pos' = [pos EXCEPT ![p] = @ + 1]
          /\ got' = [got EXCEPT ![p] = With(@, k, mem[k])]
      BY <1>1, <3>1
    <3> HIDE DEF k
    <3>3. QED
      BY <3>2, <1>5
  <2>2. DOMAIN got'[p] = DOMAIN got[p] \union {k}
    BY <2>1 DEF With
  <2>3. got'[p] = [x \in DOMAIN got'[p] |-> latest'.mem[x]]
    <3> DEFINE g == got[p]
    <3>1. g = [x \in DOMAIN g |-> mem[x]]
      BY <1>2, <1>3, <1>4
    <3> HIDE DEF g, k
    <3>2. With(g, k, mem[k]) = [x \in DOMAIN g \union {k} |-> mem[x]]
      BY <3>1 DEF With
    <3>3. QED
      BY <3>2, <2>1, <2>2, <1>1, <1>4 DEF g
  <2>4. DOMAIN got'[p] = {CellAt(p, i) : i \in 1 .. pos[p] + 1}
    <3>1. DOMAIN got[p] = {CellAt(p, i) : i \in 1 .. pos[p]}
      BY <1>2, <1>3 DEF MessageRead
    <3>2. 1 .. pos[p] + 1 = (1 .. pos[p]) \union {pos[p] + 1}
      BY <1>2
    <3>3. QED
      BY <2>2, <3>1, <3>2
  <2> HIDE DEF k
  <2>5. E = D
    BY <2>1 DEF D, E
  <2>6. {CellAt(p, i)' : i \in 1 .. pos'[p]} = {CellAt(p, i) : i \in 1 .. pos[p] + 1}
    BY <2>1, <1>4
  <2>7. MessageRead(p)'
    BY <1>1, <1>2, <1>3, <1>4, <1>6, <2>1, <2>4, <2>5, <2>6 DEF MessageRead, D, E
  <2>8. ReadOK(p)'
    BY <1>1, <2>3, <2>7, MessageReader
  <2>9. \A q \in Processes \ {p} : SameWork(q)
    BY <1>1, <2>1, LeftAlone
  <2>10. QED
    BY <1>1, <1>2, <1>3, <2>8, <2>9, ReaderActs DEF Reading
<1>7. CASE pos[p] >= loaded[p].n /\ Advances(p) /\ UNCHANGED <<got, pos>>
  <2>1. /\ E = D \ {"out"} /\ \A q \in Processes \ {p} : todo'[q] = todo[q]
    BY <1>1, <1>2, <1>7, MessageDrops DEF D, E
  <2>2. pos[p] = Length(p)
    BY <1>2, <1>3, <1>4, <1>7 DEF MessageRead
  <2>3. MessageRead(p)'
    BY <1>1, <1>2, <1>3, <1>4, <1>7, <2>1, <2>2 DEF MessageRead, D, E
  <2>4. ReadOK(p)'
    BY <1>1, <1>2, <1>3, <1>7, <2>3, MessageReader
  <2>5. \A q \in Processes \ {p} : SameWork(q)
    BY <1>1, <1>7, <2>1, LeftAlone
  <2>6. QED
    BY <1>1, <1>2, <1>3, <2>4, <2>5, ReaderActs DEF Reading
<1>8. QED
  BY <1>1, <1>6, <1>7

\* A write has set one cell more
LEMMA WholeCopyIn ==
    ASSUME TypeOK, Shape, \A q \in Processes : CallOK(q), Apart, WorkInv, driver \in Messages,
           NEW p \in Processes, CopyIn(p)
    PROVE  WorkInv'
<1> DEFINE D == Dos(todo[p])
<1> DEFINE E == Dos(todo'[p])
<1>1. /\ todo[p] # <<>> /\ Head(todo[p]).do = "in"
      /\ \/ /\ pos[p] < loaded[p].n /\ todo' = todo
            /\ mem' = [mem EXCEPT ![CellAt(p, pos[p] + 1)] = call[p].id]
            /\ pos' = [pos EXCEPT ![p] = @ + 1]
         \/ pos[p] >= loaded[p].n /\ Advances(p) /\ UNCHANGED <<mem, pos>>
      /\ UNCHANGED <<driver, size_of_msg, latest, loaded, got, call>>
  <2>1. pos[p] \in 0 .. Size /\ loaded[p].n \in 0 .. Size
    BY DEF TypeOK
  <2>2. QED
    BY <2>1 DEF CopyIn, Doing, Done, Advances, callVars, history
<1>2. /\ InCall(p) /\ MessageSays(p) /\ call[p].op \in DOMAIN Table[driver].ops
      /\ call[p].op = "write" =>
            /\ "return" \in D /\ MessageWrite(p)
            /\ \A k \in Keys \ Written(p) : mem[k] = latest.mem[k]
      /\ call[p].n \in 1 .. Size /\ pos[p] \in 0 .. Size /\ loaded[p].n \in 0 .. Size
  BY <1>1, Knows DEF OpeningDos
<1>3. call[p].op = "write" /\ "count" \notin D /\ "in" \in D
  BY <1>1, <1>2 DEF MessageSays
<1>4. loaded[p].n = call[p].n /\ \A i : CellAt(p, i)' = CellAt(p, i)
  BY <1>1, <1>2, <1>3 DEF MessageWrite, CellAt, D
<1>5. pos \in [Processes -> 0 .. Size] /\ mem \in [Keys -> 0 .. Bound]
  BY DEF TypeOK
<1> HIDE DEF D, E
<1>6. CASE pos[p] < loaded[p].n
  <2> DEFINE k == CellAt(p, pos[p] + 1)
  <2>1. /\ pos'[p] = pos[p] + 1 /\ todo' = todo
        /\ mem' = [mem EXCEPT ![k] = call[p].id]
    <3>1. ~(pos[p] >= loaded[p].n)
      BY <1>2, <1>6
    <3>2. /\ todo' = todo /\ pos' = [pos EXCEPT ![p] = @ + 1]
          /\ mem' = [mem EXCEPT ![k] = call[p].id]
      BY <1>1, <3>1
    <3> HIDE DEF k
    <3>3. QED
      BY <3>2, <1>5
  <2>2. k \in Keys /\ k \in Written(p)
    <3>1. pos[p] + 1 \in 1 .. Size /\ pos[p] + 1 \in 1 .. call[p].n
      BY <1>2, <1>4, <1>6, SizeAssumption
    <3>2. k \in Keys
      BY <3>1, <1>2, CellKey DEF InCall
    <3>3. QED
      BY <3>1, <3>2, <1>2, <1>3, MessageCells
  <2> HIDE DEF k
  <2>3. mem'[k] = call[p].id /\ \A x \in Keys \ {k} : mem'[x] = mem[x]
    BY <1>5, <2>1, <2>2
  <2>4. \A x \in Keys \ Written(p) : mem'[x] = latest'.mem[x]
    BY <1>1, <1>2, <1>3, <2>2, <2>3
  <2>5. ASSUME NEW i \in 1 .. pos[p] + 1 PROVE mem'[CellAt(p, i)] = call[p].id
    <3>1. CASE i = pos[p] + 1
      BY <3>1, <2>3 DEF k
    <3>2. CASE i # pos[p] + 1
      <4>1. i \in 1 .. pos[p] /\ i \in 1 .. Size
        BY <3>2, <1>2, SizeAssumption
      <4>2. mem[CellAt(p, i)] = call[p].id /\ CellAt(p, i) \in Keys
        BY <4>1, <1>2, <1>3, CellKey DEF MessageWrite, InCall
      <4>3. QED
        BY <4>2, <2>3
    <3>3. QED
      BY <3>1, <3>2
  <2>6. E = D
    BY <2>1 DEF D, E
  <2>7. \A i \in 1 .. pos'[p] : mem'[CellAt(p, i)'] = call'[p].id
    BY <2>1, <2>5, <1>1, <1>4
  <2>8. MessageWrite(p)'
    BY <1>1, <1>2, <1>3, <1>4, <1>6, <2>1, <2>6, <2>7 DEF MessageWrite, D, E
  <2>9. WriteOK(p)'
    BY <1>1, <1>2, <1>3, <2>4, <2>6, <2>8, MessageWriter DEF D, E
  <2>10. QED
    BY <1>1, <1>2, <1>3, <2>1, <2>9, WriterActs DEF Writing
<1>7. CASE pos[p] >= loaded[p].n /\ Advances(p) /\ UNCHANGED <<mem, pos>>
  <2>1. /\ E = D \ {"in"} /\ todo'[p] # <<>> /\ \A q \in Processes \ {p} : todo'[q] = todo[q]
    BY <1>1, <1>2, <1>7, MessageDrops DEF D, E
  <2>2. pos[p] = call[p].n
    BY <1>2, <1>3, <1>4, <1>7 DEF MessageWrite
  <2>3. MessageWrite(p)'
    BY <1>1, <1>2, <1>3, <1>4, <1>7, <2>1, <2>2 DEF MessageWrite, D, E
  <2>4. "return" \in E
    BY <2>1, <1>2, <1>3
  <2>5. WriteOK(p)'
    BY <1>1, <1>2, <1>3, <1>7, <2>3, <2>4, MessageWriter DEF E
  <2>6. QED
    BY <1>1, <1>2, <1>3, <2>1, <2>5, WriterActs DEF Writing
<1>8. QED
  BY <1>1, <1>6, <1>7

\* The size of a message is set
LEMMA WholeSetSize ==
    ASSUME TypeOK, Shape, \A q \in Processes : CallOK(q), Apart, WorkInv, driver \in Messages,
           NEW p \in Processes, SetSize(p)
    PROVE  WorkInv'
<1> DEFINE D == Dos(todo[p])
<1> DEFINE E == Dos(todo'[p])
<1>1. /\ todo[p] # <<>> /\ Head(todo[p]).do = "size" /\ Advances(p)
      /\ size_of_msg' = call[p].n
      /\ UNCHANGED <<mem, latest, pos, got, loaded>>
  BY Moves DEF SetSize, Doing, copyVars
<1>2. /\ InCall(p) /\ MessageSays(p)
      /\ call[p].op = "write" =>
            /\ "return" \in D /\ MessageWrite(p)
            /\ \A k \in Keys \ Written(p) : mem[k] = latest.mem[k]
      /\ call[p].op = "read" =>
            /\ got[p] = [k \in DOMAIN got[p] |-> latest.mem[k]] /\ MessageRead(p)
      /\ call[p].n \in 1 .. Size
  BY <1>1, Knows DEF OpeningDos
<1>3. /\ E = D \ {"size"} /\ todo'[p] # <<>> /\ call' = call /\ driver' = driver
      /\ \A q \in Processes \ {p} : todo'[q] = todo[q]
  BY <1>1, <1>2, MessageDrops
<1>4. \A q \in Processes \ {p} : SameWork(q)
  BY <1>1, <1>3, LeftAlone
<1>5. /\ "count" \in D /\ (call[p].op = "write" \/ call[p].op = "read")
      /\ call[p].op = "read" => driver \in Lengths
      /\ call[p].op = "read" => "out" \in D
  BY <1>1, <1>2 DEF MessageSays
<1>6. \A i : CellAt(p, i)' = CellAt(p, i)
  BY <1>3 DEF CellAt
<1> HIDE DEF D, E
<1>7. CASE call[p].op = "write"
  <2>1. MessageWrite(p)'
    BY <1>1, <1>2, <1>3, <1>5, <1>6, <1>7 DEF MessageWrite, D, E
  <2>2. "return" \in E
    BY <1>2, <1>3, <1>7
  <2>3. WriteOK(p)'
    BY <1>1, <1>2, <1>3, <1>7, <2>1, <2>2, MessageWriter DEF E
  <2>4. QED
    BY <1>2, <1>3, <1>7, <2>3, WriterActs DEF Writing
<1>8. CASE call[p].op = "read"
  <2>1. Length(p)' = call[p].n /\ Length(p) = call[p].n
    BY <1>3, <1>5, <1>8 DEF Length
  <2>2. MessageRead(p)'
    BY <1>1, <1>2, <1>3, <1>5, <1>6, <1>8, <2>1 DEF MessageRead, D, E
  <2>3. ReadOK(p)'
    BY <1>1, <1>2, <1>3, <1>8, <2>2, MessageReader
  <2>4. QED
    BY <1>1, <1>2, <1>3, <1>4, <1>5, <1>8, <2>3, ReaderActs DEF Reading
<1>9. QED
  BY <1>5, <1>7, <1>8

\* and forgotten, when the message has been copied
LEMMA WholeForget ==
    ASSUME TypeOK, Shape, \A q \in Processes : CallOK(q), Apart, WorkInv, driver \in Messages,
           NEW p \in Processes, Forget(p)
    PROVE  WorkInv'
<1> DEFINE D == Dos(todo[p])
<1> DEFINE E == Dos(todo'[p])
<1>1. /\ todo[p] # <<>> /\ Head(todo[p]).do = "forget" /\ Advances(p)
      /\ UNCHANGED <<mem, latest, pos, got, loaded>>
  BY Moves DEF Forget, Doing, copyVars, history
<1>2. /\ InCall(p) /\ MessageSays(p)
      /\ call[p].op = "write" =>
            /\ "return" \in D /\ MessageWrite(p)
            /\ \A k \in Keys \ Written(p) : mem[k] = latest.mem[k]
      /\ call[p].op = "read" =>
            /\ got[p] = [k \in DOMAIN got[p] |-> latest.mem[k]] /\ MessageRead(p)
  BY <1>1, Knows DEF OpeningDos
<1>3. /\ E = D \ {"forget"} /\ todo'[p] # <<>> /\ call' = call /\ driver' = driver
      /\ \A q \in Processes \ {p} : todo'[q] = todo[q]
  BY <1>1, <1>2, MessageDrops
<1>4. \A q \in Processes \ {p} : SameWork(q)
  BY <1>1, <1>3, LeftAlone
<1>5. /\ "count" \notin D /\ (call[p].op = "write" \/ call[p].op = "read")
      /\ driver \in Lengths
  BY <1>1, <1>2 DEF MessageSays
<1>6. \A i : CellAt(p, i)' = CellAt(p, i)
  BY <1>3 DEF CellAt
<1> HIDE DEF D, E
<1>7. CASE call[p].op = "write"
  <2>1. MessageWrite(p)'
    BY <1>1, <1>2, <1>3, <1>5, <1>6, <1>7 DEF MessageWrite, D, E
  <2>2. "return" \in E
    BY <1>2, <1>3, <1>7
  <2>3. WriteOK(p)'
    BY <1>1, <1>2, <1>3, <1>7, <2>1, <2>2, MessageWriter DEF E
  <2>4. QED
    BY <1>2, <1>3, <1>7, <2>3, WriterActs DEF Writing
<1>8. CASE call[p].op = "read"
  <2>1. Length(p)' = Length(p)
    BY <1>3, <1>5, <1>8 DEF Length
  <2>2. MessageRead(p)'
    BY <1>1, <1>2, <1>3, <1>5, <1>6, <1>8, <2>1 DEF MessageRead, D, E
  <2>3. ReadOK(p)'
    BY <1>1, <1>2, <1>3, <1>8, <2>2, MessageReader
  <2>4. QED
    BY <1>1, <1>2, <1>3, <1>4, <1>5, <1>8, <2>3, ReaderActs DEF Reading
<1>9. QED
  BY <1>5, <1>7, <1>8

\* The buffer is cleared, for a message as long
LEMMA WholeClear ==
    ASSUME TypeOK, Shape, \A q \in Processes : CallOK(q), Apart, WorkInv, driver \in Messages,
           NEW p \in Processes, Clear(p)
    PROVE  WorkInv'
<1> DEFINE D == Dos(todo[p])
<1> DEFINE E == Dos(todo'[p])
<1>1. /\ todo[p] # <<>> /\ Head(todo[p]).do = "clear" /\ Advances(p)
      /\ mem' = [k \in Keys |-> IF k \in {CellAt(p, i) : i \in 1 .. size_of_msg} THEN 0 ELSE mem[k]]
      /\ UNCHANGED <<size_of_msg, latest, pos, got, loaded>>
  BY Moves DEF Clear, Doing, copyVars, history
<1>2. /\ InCall(p) /\ MessageSays(p) /\ call[p].op \in DOMAIN Table[driver].ops
      /\ call[p].op = "write" =>
            /\ "return" \in D /\ MessageWrite(p)
            /\ \A k \in Keys \ Written(p) : mem[k] = latest.mem[k]
  BY <1>1, Knows DEF OpeningDos
<1>3. /\ E = D \ {"clear"} /\ todo'[p] # <<>> /\ call' = call /\ driver' = driver
      /\ \A q \in Processes \ {p} : todo'[q] = todo[q]
  BY <1>1, <1>2, MessageDrops
<1>4. "count" \in D /\ "size" \notin D /\ call[p].op = "write"
  BY <1>1, <1>2 DEF MessageSays
<1>5. \A i : CellAt(p, i)' = CellAt(p, i)
  BY <1>3 DEF CellAt
<1> HIDE DEF D, E
<1>6. pos[p] = 0 /\ size_of_msg = call[p].n
  BY <1>2, <1>4 DEF MessageWrite, D
<1>7. Written(p) = {CellAt(p, i) : i \in 1 .. size_of_msg}
  BY <1>2, <1>4, <1>6, MessageCells
<1>8. \A k \in Keys \ Written(p) : mem'[k] = latest'.mem[k]
  BY <1>1, <1>2, <1>4, <1>7
<1>9. MessageWrite(p)'
  BY <1>1, <1>2, <1>3, <1>4, <1>5, <1>6 DEF MessageWrite, D, E
<1>10. "return" \in E
  BY <1>2, <1>3, <1>4
<1>11. WriteOK(p)'
  BY <1>3, <1>4, <1>8, <1>9, <1>10, MessageWriter DEF E
<1>12. QED
  BY <1>2, <1>3, <1>4, <1>11, WriterActs DEF Writing

\* The whole buffer is filled
LEMMA WholeFill ==
    ASSUME TypeOK, Shape, \A q \in Processes : CallOK(q), Apart, WorkInv, driver \in Messages,
           NEW p \in Processes, Fill(p)
    PROVE  WorkInv'
<1> DEFINE D == Dos(todo[p])
<1> DEFINE E == Dos(todo'[p])
<1>1. /\ todo[p] # <<>> /\ Head(todo[p]).do = "fill" /\ Advances(p)
      /\ mem' = [k \in Keys |-> IF k[1] = call[p].buffer THEN call[p].id ELSE mem[k]]
      /\ UNCHANGED <<size_of_msg, latest>>
  BY Moves DEF Fill, Doing, history
<1>2. /\ InCall(p) /\ MessageSays(p) /\ call[p].op \in DOMAIN Table[driver].ops
      /\ call[p].op = "fill" =>
            /\ "return" \in D /\ MessageFill(p)
            /\ \A k \in Keys \ Written(p) : mem[k] = latest.mem[k]
  BY <1>1, Knows DEF OpeningDos
<1>3. /\ E = D \ {"fill"} /\ todo'[p] # <<>> /\ call' = call /\ driver' = driver
      /\ \A q \in Processes \ {p} : todo'[q] = todo[q]
  BY <1>1, <1>2, MessageDrops
<1>4. call[p].op = "fill"
  BY <1>1, <1>2 DEF MessageSays
<1>5. \A i : CellAt(p, i)' = CellAt(p, i)
  BY <1>3 DEF CellAt
<1>6. call[p].buffer \in Buffers
  BY <1>2 DEF CallOK, InCall
<1> HIDE DEF D, E
<1>7. Written(p) = {CellAt(p, i) : i \in 1 .. Size}
  BY <1>2, <1>4, MessageCells
<1>8. ASSUME NEW k \in Keys \ Written(p) PROVE mem'[k] = latest'.mem[k]
  <2>1. k[1] # call[p].buffer
    BY <1>6, <1>7 DEF Keys, Registers, Buffers, CellAt
  <2>2. QED
    BY <2>1, <1>1, <1>2, <1>4
<1>9. ASSUME NEW i \in 1 .. Size PROVE mem'[CellAt(p, i)] = call[p].id
  <2>1. CellAt(p, i) \in Keys /\ CellAt(p, i)[1] = call[p].buffer
    BY <1>2, CellKey DEF InCall, CellAt
  <2>2. QED
    BY <2>1, <1>1
<1>10. MessageFill(p)'
  BY <1>1, <1>2, <1>3, <1>4, <1>5, <1>9 DEF MessageFill
<1>11. "return" \in E
  BY <1>2, <1>3, <1>4
<1>12. WriteOK(p)'
  BY <1>3, <1>4, <1>8, <1>10, <1>11, MessageWriter DEF E
<1>13. QED
  BY <1>2, <1>3, <1>4, <1>12, WriterActs DEF Writing

\* A step that is no work of a call
LEMMA WholeAdvances ==
    ASSUME TypeOK, Shape, WorkInv, NEW p \in Processes, Advances(p), Head(todo[p]).do \notin Work,
           UNCHANGED <<mem, size_of_msg, latest, pos, got>>,
           \A q \in Processes : loaded'[q].n = loaded[q].n
    PROVE  WorkInv'
<1>1. /\ todo'[p] # <<>> /\ \A q \in Processes \ {p} : todo'[q] = todo[q]
      /\ Steps(todo[p]) = {Head(todo[p])} \union Steps(todo'[p])
      /\ driver' = driver /\ call' = call /\ todo[p] # <<>>
  BY Advance DEF Advances
<1>2. ASSUME NEW q \in Processes \ {p} PROVE SameWork(q)
  BY <1>1, LeftAlone
<1>3. SameWork(p)
  <2>1. \A s : s.do \in Work => (s \in Steps(todo'[p]) <=> s \in Steps(todo[p]))
    BY <1>1
  <2>2. InCall(p)' <=> InCall(p)
    BY <1>1 DEF InCall
  <2>3. QED
    BY <1>1, <2>1, <2>2 DEF SameWork
<1>4. QED
  BY <1>1, <1>2, <1>3, WholeQuiet

\* The waits and the locks, the offset and the address port are no such work
LEMMA WholePlain ==
    ASSUME TypeOK, Shape, WorkInv, NEW p \in Processes,
           \/ LoadOffset(p) \/ StoreOffset(p) \/ Await(p) \/ Complete(p) \/ Poll(p)
           \/ ReadLock(p) \/ ReadUnlock(p) \/ WriteLock(p) \/ WriteUnlock(p)
           \/ SeqBegin(p) \/ PortLock(p) \/ PortUnlock(p) \/ Address(p)
    PROVE  WorkInv'
<1> DEFINE Quiet == /\ Head(todo[p]).do \notin Work
                    /\ UNCHANGED <<mem, size_of_msg, latest, pos, got>>
                    /\ \A q \in Processes : loaded'[q].n = loaded[q].n
<1>1. loaded \in [Processes -> [n : 0 .. Size, len : 0 .. Size, offset : Nat, sequence : Nat]]
  BY DEF TypeOK
<1>2. LoadOffset(p) \/ SeqBegin(p) => Quiet
  <2>1. LoadOffset(p) \/ SeqBegin(p)
        => \A q \in Processes : loaded'[q].n = loaded[q].n
    BY <1>1 DEF LoadOffset, SeqBegin
  <2>2. QED
    BY <2>1 DEF LoadOffset, SeqBegin, Doing, Work, dataVars, history
<1>3. StoreOffset(p) \/ Await(p) \/ Complete(p) \/ Poll(p) => Quiet
  <2>1. StoreOffset(p) => \A q \in Processes : loaded'[q].n = loaded[q].n
    BY <1>1 DEF StoreOffset
  <2>2. StoreOffset(p) => Quiet
    BY <2>1 DEF StoreOffset, Doing, Work
  <2>3. Await(p) \/ Complete(p) \/ Poll(p) => Quiet
    BY DEF Await, Complete, Poll, Doing, Work, dataVars, copyVars, history
  <2>4. QED
    BY <2>2, <2>3
<1>4. ReadLock(p) \/ ReadUnlock(p) => Quiet
  BY DEF ReadLock, ReadUnlock, Doing, Work, dataVars, copyVars, history
<1>5. WriteLock(p) \/ WriteUnlock(p) => Quiet
  BY DEF WriteLock, WriteUnlock, Doing, Work, dataVars, copyVars, history
<1>6. PortLock(p) \/ PortUnlock(p) \/ Address(p) => Quiet
  BY DEF PortLock, PortUnlock, Address, Doing, Work, dataVars, copyVars, history
<1>7. Quiet /\ Advances(p)
  BY <1>2, <1>3, <1>4, <1>5, <1>6, Moves
<1>8. QED
  BY <1>7, WholeAdvances

\* The file is opened or released
LEMMA WholeOpens ==
    ASSUME TypeOK, Shape, WorkInv, NEW p \in Processes,
           Open(p) \/ TryLock(p) \/ Capable(p) \/ Opened(p) \/ Release(p)
    PROVE  WorkInv'
<1>1. UNCHANGED <<driver, mem, size_of_msg, latest, pos, got, loaded, call>>
  BY DEF Open, TryLock, Capable, Opened, Release, dataVars, copyVars, callVars, history
<1>2. call[p].op = "none"
  <2>1. CASE todo[p] = <<>>
    BY <2>1, IdleShape
  <2>2. CASE todo[p] # <<>>
    <3>1. Head(todo[p]).do \in OpeningDos
      BY <2>2 DEF Open, TryLock, Capable, Opened, Release, Doing, OpeningDos
    <3>2. QED
      BY <2>2, <3>1, OpeningSteps
  <2>3. QED
    BY <2>1, <2>2
<1>3. \A q \in Processes \ {p} : todo'[q] = todo[q]
  <2>1. todo \in [Processes -> Seq(Step)]
    BY DEF TypeOK
  <2>2. QED
    BY <2>1 DEF Open, TryLock, Capable, Opened, Release, Done
<1>4. ~InCall(p) /\ ~InCall(p)'
  BY <1>1, <1>2 DEF InCall
<1>5. \A q \in Processes \ {p} : SameWork(q)
  BY <1>1, <1>3, LeftAlone
<1>6. QED
  BY <1>1, <1>4, <1>5, WholeStops

\* A read begins again
LEMMA WholeRetry ==
    ASSUME TypeOK, Shape, \A q \in Processes : CallOK(q), Apart, WorkInv, driver \in Messages,
           NEW p \in Processes, SeqRetry(p)
    PROVE  WorkInv'
<1>1. /\ todo[p] # <<>> /\ Head(todo[p]).do = "seqretry"
      /\ UNCHANGED <<driver, mem, size_of_msg, latest, call, loaded>>
  BY DEF SeqRetry, Doing, dataVars, callVars
<1>2. CASE sequence = loaded[p].sequence
  <2>1. Advances(p) /\ UNCHANGED <<pos, got>>
    BY <1>1, <1>2 DEF Advances, SeqRetry
  <2>2. Head(todo[p]).do \notin Work
    BY <1>1 DEF Work
  <2>3. QED
    BY <1>1, <2>1, <2>2, WholeAdvances
<1>3. CASE sequence # loaded[p].sequence
  <2>1. /\ todo' = [todo EXCEPT ![p] = Program(p)] /\ got' = [got EXCEPT ![p] = <<>>]
        /\ pos' = [pos EXCEPT ![p] = 0]
    BY <1>3 DEF SeqRetry
  <2>2. todo \in [Processes -> Seq(Step)] /\ DOMAIN got = Processes
        /\ pos \in [Processes -> 0 .. Size]
    BY DEF TypeOK
  <2>3. /\ todo'[p] = Program(p) /\ got'[p] = <<>> /\ pos'[p] = 0
        /\ \A q \in Processes \ {p} : todo'[q] = todo[q] /\ got'[q] = got[q] /\ pos'[q] = pos[q]
    BY <2>1, <2>2
  <2>4. \A q \in Processes \ {p} : SameWork(q)
    BY <1>1, <2>3, LeftAlone
  <2>5. /\ InCall(p) /\ call[p].op \in DOMAIN Table[driver].ops
        /\ call[p].n \in 1 .. Size /\ latest.size \in 0 .. Size
    BY <1>1, Knows DEF OpeningDos
  <2>6. driver = "chardrv_seqlock" /\ call[p].op = "read"
    BY <1>1, RetryLocked
  <2>7. driver \in Offsets /\ driver \notin Lengths
    BY <2>6 DEF Offsets, Lengths, Alone, Ports
  <2> DEFINE E == Dos(todo'[p])
  <2>8. E = {"count", "out", "load", "add", "return", "seqbegin", "seqretry"}
    <3>1. Program(p) = Prog(driver, "read")
      BY <2>6 DEF Program, Prog
    <3>2. QED
      BY <2>3, <2>6, <2>7, <3>1, OffsetDos
  <2> HIDE DEF E
  <2>9. MessageRead(p)'
    <3>1. DOMAIN got'[p] = {} /\ {CellAt(p, i)' : i \in 1 .. pos'[p]} = {}
      BY <2>3
    <3>2. Length(p)' \in Nat
      BY <1>1, <2>5, <2>7 DEF Length
    <3>3. QED
      BY <1>1, <2>3, <2>7, <2>8, <3>1, <3>2 DEF MessageRead, E
  <2>10. got'[p] = [k \in DOMAIN got'[p] |-> latest'.mem[k]]
    <3>1. <<>> = [k \in {} |-> latest'.mem[k]] /\ DOMAIN got'[p] = {}
      BY <2>3
    <3>2. QED
      BY <2>3, <3>1
  <2>11. ReadOK(p)'
    BY <1>1, <2>9, <2>10, MessageReader
  <2>12. QED
    BY <1>1, <2>4, <2>5, <2>6, <2>11, ReaderActs DEF Reading
<1>4. QED
  BY <1>2, <1>3

\* A read stops at a bad address
LEMMA WholeFault ==
    ASSUME TypeOK, Shape, \A q \in Processes : CallOK(q), Apart, WorkInv, driver \in Messages,
           NEW p \in Processes, Fault(p), "fault" \notin spoiled'
    PROVE  WorkInv'
<1> DEFINE D == Dos(todo[p])
<1> DEFINE E == Dos(todo'[p])
<1>1. /\ todo[p] # <<>> /\ Head(todo[p]).do \in {"in", "out"} /\ ~Writing(call[p].op)
      /\ UNCHANGED <<driver, mem, size_of_msg, latest, call, pos, got, loaded>>
  BY DEF Fault, Doing, dataVars, callVars, copyVars
<1>2. /\ InCall(p) /\ MessageSays(p)
      /\ call[p].op = "read" =>
            /\ got[p] = [k \in DOMAIN got[p] |-> latest.mem[k]] /\ MessageRead(p)
  BY <1>1, Knows DEF OpeningDos
<1>3. call[p].op = "read" /\ "count" \notin D
  BY <1>1, <1>2 DEF MessageSays, Writing
<1>4. /\ "count" \notin E /\ "return" \notin E
      /\ \A q \in Processes \ {p} : todo'[q] = todo[q]
  BY MessageFaults DEF Unlocks
<1>5. \A q \in Processes \ {p} : SameWork(q)
  BY <1>1, <1>4, LeftAlone
<1>6. Length(p)' = Length(p) /\ \A i : CellAt(p, i)' = CellAt(p, i)
  BY <1>1 DEF Length, CellAt
<1> HIDE DEF D, E
<1>7. MessageRead(p)'
  BY <1>1, <1>2, <1>3, <1>4, <1>6 DEF MessageRead, D, E
<1>8. ReadOK(p)'
  BY <1>1, <1>2, <1>3, <1>7, MessageReader
<1>9. QED
  BY <1>1, <1>2, <1>3, <1>5, <1>8, ReaderActs DEF Reading

\* At the return of a call nothing else is left of it
LEMMA EndSteps ==
    ASSUME Shape, NEW p \in Processes, todo[p] # <<>>, Head(todo[p]).do = "return"
    PROVE  Steps(todo[p]) = {Head(todo[p])} /\ Dos(todo[p]) = {"return"}
<1>1. Form(driver, todo[p])
  BY DEF Shape, Shaped
<1>2. Tail(todo[p]) = <<>> /\ Steps(todo[p]) = {Head(todo[p])} \union Steps(Tail(todo[p]))
  BY <1>1, LastStep, TailForm
<1>3. Steps(<<>>) = {}
  BY DEF Steps
<1>4. QED
  BY <1>2, <1>3 DEF Dos

\* A write that ends has left all that it was to write
LEMMA WriteEnds ==
    ASSUME TypeOK, Shape, \A q \in Processes : CallOK(q), WorkInv,
           NEW p \in Processes, Return(p), Writing(call[p].op)
    PROVE  mem = latest'.mem /\ (driver \in Messages \ Lengths => size_of_msg = latest'.size)
<1> DEFINE D == Dos(todo[p])
<1> DEFINE op == call[p].op
<1> DEFINE W == Written(p)
<1>1. /\ todo[p] # <<>> /\ Head(todo[p]).do = "return"
      /\ latest' = [mem |-> [k \in Keys |-> IF k \in W THEN call[p].id ELSE latest.mem[k]],
                    size |-> IF op = "write" THEN call[p].n ELSE latest.size]
  BY DEF Return, Doing
<1>2. InCall(p) /\ op \in DOMAIN Table[driver].ops /\ driver \in DOMAIN Table
  BY <1>1, AtWork DEF OpeningDos, InCall, Shape
<1>3. WriteOK(p)
  BY DEF WorkInv
<1>4. \A k \in Keys \ W : mem[k] = latest.mem[k]
  BY <1>2, <1>3 DEF WriteOK
<1>5. Steps(todo[p]) = {Head(todo[p])} /\ D = {"return"}
  BY <1>1, EndSteps
<1>6. /\ \A k \in W \cap Keys : mem[k] = call[p].id
      /\ driver \in Messages \ Lengths
           => size_of_msg = IF op = "write" THEN call[p].n ELSE latest.size
  <2>1. CASE driver \in Messages /\ op = "write"
    <3>1. MessageWrite(p)
      BY <1>2, <1>3, <2>1 DEF WriteOK
    <3>2. pos[p] = call[p].n /\ (driver \notin Lengths => size_of_msg = call[p].n)
          /\ \A i \in 1 .. pos[p] : mem[CellAt(p, i)] = call[p].id
      BY <3>1, <1>5 DEF MessageWrite
    <3>3. W = {CellAt(p, i) : i \in 1 .. call[p].n}
      BY <1>2, <2>1, MessageCells
    <3>4. QED
      BY <3>2, <3>3, <2>1
  <2>2. CASE driver \in Messages /\ op = "fill"
    <3>1. MessageFill(p)
      BY <1>2, <1>3, <2>2 DEF WriteOK
    <3>2. size_of_msg = latest.size /\ \A i \in 1 .. Size : mem[CellAt(p, i)] = call[p].id
      BY <3>1, <1>5 DEF MessageFill
    <3>3. W = {CellAt(p, i) : i \in 1 .. Size}
      BY <1>2, <2>2, MessageCells
    <3>4. QED
      BY <3>2, <3>3, <2>2
  <2>3. CASE driver \notin Messages
    <3> DEFINE A == Accessing(p, {"set", "setvalue"})
    <3>1. RegisterWrite(p)
      BY <1>2, <1>3, <2>3 DEF WriteOK
    <3>2. \A s \in A : s.do \in {"set", "setvalue"}
      BY DEF Accessing
    <3>3. \A s \in A : s \notin Steps(todo[p])
      BY <3>2, <1>1, <1>5
    <3>4. \A s \in A : mem[KeyOf(p, s)] = call[p].id
      BY <3>1, <3>3 DEF RegisterWrite
    <3>5. W = {KeyOf(p, s) : s \in A}
      <4>1. driver \in Ports \union {"proc_skel"}
        BY <2>3, <1>2, RegisterFamilies
      <4>2. W = KeysOf(p, Program(p), {"set", "setvalue"})
        BY <4>1 DEF Written
      <4>3. QED
        BY <4>2, <1>2, ProgramKeys
    <3> HIDE DEF A
    <3>6. QED
      BY <3>4, <3>5, <2>3
  <2>4. driver \in Messages => op \in {"read", "write", "fill", "poll"}
    BY <1>2, ProgDos
  <2>5. op # "read" /\ op # "poll"
    BY DEF Writing
  <2>6. QED
    BY <2>1, <2>2, <2>3, <2>4, <2>5
<1> HIDE DEF W, op, D
<1>7. mem \in [Keys -> 0 .. Bound]
  BY DEF TypeOK
<1>8. mem = [k \in Keys |-> IF k \in W THEN call[p].id ELSE latest.mem[k]]
  BY <1>4, <1>6, <1>7
<1>9. QED
  BY <1>1, <1>6, <1>8

\* A call ends
LEMMA WholeLeaves ==
    ASSUME TypeOK, Shape, \A q \in Processes : CallOK(q), Apart, WorkInv,
           NEW p \in Processes, Return(p) \/ (Failed(p) /\ driver \in Messages)
    PROVE  WorkInv'
<1>1. /\ todo[p] # <<>> /\ Head(todo[p]).do \in {"return", "failed"} /\ Leave(p)
      /\ UNCHANGED <<driver, mem, size_of_msg>>
      /\ ~Return(p) => latest' = latest
  BY DEF Return, Failed, Leave, Doing, dataVars
<1>2. /\ DOMAIN got = Processes /\ todo \in [Processes -> Seq(Step)]
      /\ call \in [Processes -> Calls] /\ pos \in [Processes -> 0 .. Size]
      /\ loaded \in [Processes -> [n : 0 .. Size, len : 0 .. Size, offset : Nat, sequence : Nat]]
  BY DEF TypeOK
<1>3. ~InCall(p)'
  BY <1>1, ShapeLeaves DEF InCall
<1>4. \A q \in Processes \ {p} : /\ todo'[q] = todo[q] /\ call'[q] = call[q]
                                 /\ got'[q] = got[q] /\ loaded'[q] = loaded[q]
                                 /\ pos'[q] = pos[q]
  BY <1>1, <1>2 DEF Leave, Done
<1>5. \A q \in Processes \ {p} : SameWork(q)
  BY <1>4, LeftAlone
<1>6. InCall(p)
  BY <1>1, AtWork DEF OpeningDos, InCall
<1>7. CASE Writing(call[p].op)
  <2>1. Return(p)
    <3> SUFFICES ASSUME Failed(p), driver \in Messages PROVE FALSE
      OBVIOUS
    <3>1. Head(todo[p]).do = "failed"
      BY DEF Failed, Doing
    <3>2. Dos(todo[p]) = {"failed"}
      BY <1>6, <3>1, NextMessageStep DEF MessageSays
    <3>3. QED
      BY <1>6, <1>7, <3>2 DEF WorkInv, WriteOK
  <2>2. Standing'
    BY <2>1, <1>1, <1>7, WriteEnds DEF Standing
  <2>3. \A q \in Processes : ~InCall(q)'
    BY <1>3, <1>5, <1>6, <1>7, Lone DEF SameWork
  <2>4. QED
    BY <2>2, <2>3 DEF WorkInv, WriteOK, ReadOK
<1>8. CASE ~Writing(call[p].op)
  <2>1. latest' = latest
    BY <1>1, <1>8 DEF Return
  <2>2. QED
    BY <1>1, <1>3, <1>5, <1>8, <2>1, WholeStops
<1>9. QED
  BY <1>7, <1>8

\* A call begins with all its work to do
LEMMA WholeEnters ==
    ASSUME TypeOK, Shape, \A q \in Processes : CallOK(q), WorkInv,
           NEW p \in Processes, Call(p), Apart'
    PROVE  WorkInv'
<1> DEFINE op == call'[p].op
<1> DEFINE t == Prog(driver, op)
<1> DEFINE E == Dos(todo'[p])
<1>1. /\ \A q \in Processes \ {p} : todo'[q] = todo[q] /\ call'[q] = call[q]
      /\ todo[p] = <<>> /\ todo'[p] # <<>> /\ op \in DOMAIN Table[driver].ops
      /\ todo'[p] = t /\ call'[p].n \in 1 .. Size
      /\ got[p] = <<>> /\ pos[p] = 0
      /\ UNCHANGED <<driver, mem, size_of_msg, latest, pos, got, loaded>>
  BY Enters DEF dataVars, copyVars
<1>2. \A q \in Processes \ {p} : SameWork(q)
  BY <1>1, LeftAlone
<1>3. \A q \in Processes \ {p} : WriteOK(q)' /\ ReadOK(q)'
  BY <1>1, <1>2, WholeHolds DEF WorkInv
<1>4. NoWriter' => NoWriter
  BY <1>1, <1>2 DEF NoWriter, SameWork, InCall
<1>5. Standing'
  BY <1>1, <1>4 DEF Standing, WorkInv
<1>6. driver \in DOMAIN Table /\ op # "none"
  <2>1. driver \in DOMAIN Table
    BY DEF Shape
  <2>2. op \in Ops
    BY <1>1, <2>1, Programs
  <2>3. QED
    BY <2>1, <2>2 DEF Ops
<1>7. InCall(p)' /\ "return" \in E
  BY <1>1, <1>6, Programs DEF InCall
<1> HIDE DEF op
<1>8. \A dos : Accessing(p, dos)' \subseteq Steps(todo'[p])
  BY <1>1 DEF Accessing, op
<1> HIDE DEF t, E
<1>9. latest.size \in 0 .. Size /\ \A i : i \notin 1 .. pos'[p]
  BY <1>1 DEF TypeOK
<1>10. driver \in Messages
         => /\ op \in {"read", "write", "fill", "poll"}
            /\ op = "read" => /\ "count" \in E /\ "out" \in E
                              /\ driver \in Lengths => "size" \in E
            /\ op = "write" => "size" \in E /\ "count" \in E /\ "in" \in E
            /\ op = "fill" => "fill" \in E /\ driver \notin Lengths
  <2> SUFFICES ASSUME driver \in Messages
               PROVE  /\ op \in {"read", "write", "fill", "poll"}
                      /\ op = "read" => /\ "count" \in E /\ "out" \in E
                                        /\ driver \in Lengths => "size" \in E
                      /\ op = "write" => "size" \in E /\ "count" \in E /\ "in" \in E
                      /\ op = "fill" => "fill" \in E /\ driver \notin Lengths
    OBVIOUS
  <2>1. op \in MessageOps(driver) /\ E = MessageDos(driver, op) \union {"return"}
    BY <1>1, <1>6, Programs DEF op, t, E
  <2>2. QED
    BY <2>1 DEF MessageOps, MessageDos, When, Lengths, Alone, Ports
<1>11. WriteOK(p)'
  <2> SUFFICES ASSUME Writing(op)
               PROVE  /\ \A k \in Keys : mem'[k] = latest'.mem[k]
                      /\ driver' \in Messages /\ op = "write" => MessageWrite(p)'
                      /\ driver' \in Messages /\ op = "fill" => MessageFill(p)'
                      /\ driver' \notin Messages => RegisterWrite(p)'
    BY <1>7 DEF WriteOK, op, E
  <2>1. NoWriter
    BY <1>1, <1>2, <1>7 DEF NoWriter, SameWork, InCall, Apart, op
  <2>2. mem = latest.mem /\ (driver \in Messages \ Lengths => size_of_msg = latest.size)
    BY <2>1 DEF Standing, WorkInv
  <2>3. driver \in Messages /\ op = "write" => MessageWrite(p)'
    BY <1>1, <1>9, <1>10 DEF MessageWrite, E
  <2>4. driver \in Messages /\ op = "fill" => MessageFill(p)'
    BY <1>1, <1>10, <2>2 DEF MessageFill, E
  <2>5. RegisterWrite(p)'
    BY <1>8 DEF RegisterWrite
  <2>6. QED
    BY <1>1, <2>2, <2>3, <2>4, <2>5
<1>12. ReadOK(p)'
  <2> SUFFICES ASSUME Reading(op)
               PROVE  /\ got'[p] = [k \in DOMAIN got'[p] |-> latest'.mem[k]]
                      /\ driver' \in Messages => MessageRead(p)'
                      /\ driver' \notin Messages => RegisterRead(p)'
    BY DEF ReadOK, op
  <2>1. DOMAIN got'[p] = {} /\ got'[p] = [k \in DOMAIN got'[p] |-> latest'.mem[k]]
    <3>1. <<>> = [k \in {} |-> latest'.mem[k]] /\ DOMAIN got'[p] = {}
      BY <1>1
    <3>2. QED
      BY <1>1, <3>1
  <2>2. driver \in Messages => MessageRead(p)'
    <3> SUFFICES ASSUME driver \in Messages PROVE MessageRead(p)'
      OBVIOUS
    <3>1. op = "read"
      BY <1>10 DEF Reading
    <3>2. Length(p)' \in Nat
      BY <1>1, <1>9, SizeAssumption DEF Length
    <3>3. {CellAt(p, i)' : i \in 1 .. pos'[p]} = {}
      BY <1>9
    <3>4. QED
      BY <1>1, <1>10, <2>1, <3>1, <3>2, <3>3 DEF MessageRead, E
  <2>3. RegisterRead(p)'
    BY <1>8, <2>1 DEF RegisterRead
  <2>4. QED
    BY <1>1, <2>1, <2>2, <2>3
<1>13. QED
  BY <1>3, <1>5, <1>11, <1>12 DEF WorkInv

-----------------------------------------------------------------------------
(* The steps of the calls of registers.                                    *)

\* Without a message buffer nothing is copied, and no call fails
LEMMA RegisterSteps ==
    ASSUME TypeOK, Shape, driver \notin Messages, NEW p \in Processes
    PROVE  ~(\/ Count(p) \/ CopyOut(p) \/ CopyIn(p) \/ SetSize(p) \/ Forget(p) \/ Clear(p)
             \/ Fill(p) \/ SeqRetry(p) \/ Fault(p) \/ Failed(p))
<1>1. driver \in DOMAIN Table
  BY DEF Shape
<1>2. ASSUME todo[p] # <<>>,
             Head(todo[p]).do \in {"count", "out", "in", "size", "forget", "clear", "fill",
                                   "seqretry"}
      PROVE  FALSE
  <2> DEFINE h == Head(todo[p]).do
  <2>1. h \notin OpeningDos \union {"failed"}
        /\ h \notin PortSteps \union {"getvalue", "setvalue", "return"}
    BY <1>2 DEF OpeningDos, PortSteps
  <2> HIDE DEF h
  <2>2. call[p].op \in DOMAIN Table[driver].ops /\ h \in Dos(Prog(driver, call[p].op))
    BY <1>2, <2>1, OwnStep DEF h
  <2>3. QED
    BY <1>1, <2>1, <2>2, StepOwners
<1>3. ASSUME todo[p] # <<>>, Head(todo[p]).do = "failed" PROVE FALSE
  <2> DEFINE open == p \in opened
  <2> DEFINE op == call[p].op
  <2>1. Shaped(driver, todo[p], op, open) /\ "failed" \in Dos(todo[p])
    BY <1>3, HeadDos DEF Shape, Shaped
  <2>2. op \in DOMAIN Table[driver].ops
    BY <1>3, AtWork DEF OpeningDos
  <2> HIDE DEF open, op
  <2>3. Calling(driver, todo[p], op, open)
    BY <2>1, <1>3 DEF Shaped, Opening, Failing, OpeningDos
  <2>4. "failed" \in Dos(Prog(driver, op))
    BY <2>1, <2>3 DEF Calling, Dos
  <2>5. QED
    BY <1>1, <2>2, <2>4, CallSteps
<1>4. QED
  BY <1>2, <1>3 DEF Count, CopyOut, CopyIn, SetSize, Forget, Clear, Fill, SeqRetry, Fault, Failed,
                    Doing

\* A step of a call that reads or writes registers
LEMMA RegisterAt ==
    ASSUME TypeOK, Shape, \A q \in Processes : CallOK(q), WorkInv,
           NEW p \in Processes, todo[p] # <<>>,
           Head(todo[p]).do \in {"get", "set", "getvalue", "setvalue"}
    PROVE  /\ InCall(p) /\ call[p].op \in DOMAIN Table[driver].ops
           /\ driver \in DOMAIN Table /\ driver \notin Messages
           /\ Key(p) \in Keys /\ Key(p) = <<Key(p)[1], 0>> /\ Key(p) = KeyOf(p, Head(todo[p]))
           /\ Head(todo[p]).do \in {"set", "setvalue"} =>
                 /\ Writing(call[p].op) /\ Head(todo[p]) \in Accessing(p, {"set", "setvalue"})
                 /\ Key(p) \in Written(p)
                 /\ "return" \in Dos(todo[p]) /\ RegisterWrite(p)
                 /\ \A k \in Keys \ Written(p) : mem[k] = latest.mem[k]
           /\ Head(todo[p]).do \in {"get", "getvalue"} =>
                 /\ Reading(call[p].op) /\ Head(todo[p]) \in Accessing(p, {"get", "getvalue"})
                 /\ got[p] = [k \in DOMAIN got[p] |-> latest.mem[k]] /\ RegisterRead(p)
<1> DEFINE s == Head(todo[p])
<1> DEFINE op == call[p].op
<1>1. /\ Key(p) \in Keys /\ Key(p) = <<Key(p)[1], 0>> /\ driver \notin Messages
      /\ op # "none" /\ op \in DOMAIN Table[driver].ops /\ s \in Steps(Prog(driver, op))
  BY PortKey
<1>2. driver \in DOMAIN Table /\ InCall(p)
  BY <1>1 DEF Shape, InCall
<1>3. s.do \in Dos(Prog(driver, op)) /\ Key(p) = KeyOf(p, s)
  BY <1>1 DEF Dos, Key
<1>4. WriteOK(p) /\ ReadOK(p)
  BY DEF WorkInv
<1> HIDE DEF s
<1>5. /\ s.do \in {"set", "setvalue"} => Writing(op)
      /\ s.do \in {"get", "getvalue"} => Reading(op)
  <2>1. s.do \in RegisterDos(driver, op)
    BY <1>1, <1>2, <1>3, Programs
  <2>2. QED
    BY <2>1 DEF RegisterDos, When
<1>6. ASSUME s.do \in {"set", "setvalue"}
      PROVE  s \in Accessing(p, {"set", "setvalue"}) /\ KeyOf(p, s) \in Written(p)
  <2>1. s \in Accessing(p, {"set", "setvalue"})
    BY <1>1, <1>6 DEF Accessing
  <2>2. KeyOf(p, s) \in KeysOf(p, Program(p), {"set", "setvalue"})
    BY <1>1, <1>2, <2>1, ProgramKeys
  <2>3. QED
    BY <2>1, <2>2 DEF Written
<1>7. s.do \in {"get", "getvalue"} => s \in Accessing(p, {"get", "getvalue"})
  BY <1>1 DEF Accessing
<1>8. QED
  BY <1>1, <1>2, <1>3, <1>4, <1>5, <1>6, <1>7 DEF WriteOK, ReadOK, s

\* A register is written
LEMMA WholeSets ==
    ASSUME TypeOK, Shape, \A q \in Processes : CallOK(q), Apart, Aimed, WorkInv,
           NEW p \in Processes, Set(p) \/ SetValue(p)
    PROVE  WorkInv'
<1> DEFINE s == Head(todo[p])
<1> DEFINE A == Accessing(p, {"set", "setvalue"})
<1>1. /\ todo[p] # <<>> /\ Head(todo[p]).do \in {"set", "setvalue"} /\ Advances(p)
      /\ UNCHANGED latest
  BY Moves DEF Set, SetValue, Doing, history
<1>2. /\ InCall(p) /\ call[p].op \in DOMAIN Table[driver].ops
      /\ driver \in DOMAIN Table /\ driver \notin Messages
      /\ Key(p) \in Keys /\ Key(p) = <<Key(p)[1], 0>> /\ Key(p) = KeyOf(p, s)
      /\ Writing(call[p].op) /\ s \in A /\ Key(p) \in Written(p)
      /\ "return" \in Dos(todo[p]) /\ RegisterWrite(p)
      /\ \A k \in Keys \ Written(p) : mem[k] = latest.mem[k]
  BY <1>1, RegisterAt
<1>3. mem' = [mem EXCEPT ![Key(p)] = call[p].id]
  <2>1. CASE Set(p)
    <3>1. address = Key(p)[1]
      BY <2>1 DEF Set, Doing, AtPort, Aimed
    <3>2. QED
      BY <1>2, <2>1, <3>1 DEF Set
  <2>2. CASE SetValue(p)
    BY <2>2 DEF SetValue
  <2>3. QED
    BY <2>1, <2>2
<1>4. /\ Steps(todo[p]) = {s} \union Steps(todo'[p])
      /\ Dos(todo[p]) = {s.do} \union Dos(todo'[p])
      /\ todo'[p] # <<>> /\ \A q \in Processes \ {p} : todo'[q] = todo[q]
      /\ driver' = driver /\ call' = call
  BY <1>1, Advance
<1>5. /\ Written(p)' = Written(p) /\ A' = A /\ \A x : KeyOf(p, x)' = KeyOf(p, x)
  BY <1>4, SameCells
<1>6. mem \in [Keys -> 0 .. Bound]
  BY DEF TypeOK
<1>7. mem'[Key(p)] = call[p].id /\ \A k \in Keys \ {Key(p)} : mem'[k] = mem[k]
  BY <1>2, <1>3, <1>6
<1>8. \A k \in Keys \ Written(p) : mem'[k] = latest'.mem[k]
  BY <1>1, <1>2, <1>7
<1>9. ASSUME NEW x \in A, x \notin Steps(todo'[p]) PROVE mem'[KeyOf(p, x)] = call[p].id
  <2>1. CASE KeyOf(p, x) = Key(p)
    BY <2>1, <1>7
  <2>2. CASE KeyOf(p, x) # Key(p)
    <3>1. x # s /\ x \notin Steps(todo[p])
      BY <1>2, <1>4, <1>9, <2>2
    <3>2. mem[KeyOf(p, x)] = call[p].id
      BY <1>2, <3>1 DEF RegisterWrite
    <3>3. mem'[KeyOf(p, x)] = mem[KeyOf(p, x)]
      BY <1>3, <2>2, <1>6
    <3>4. QED
      BY <3>2, <3>3
  <2>3. QED
    BY <2>1, <2>2
<1> HIDE DEF A, s
<1>10. RegisterWrite(p)'
  BY <1>4, <1>5, <1>9 DEF RegisterWrite, A
<1>11. "return" \in Dos(todo'[p])
  BY <1>1, <1>2, <1>4 DEF s
<1>12. WriteOK(p)'
  BY <1>2, <1>4, <1>5, <1>8, <1>10, <1>11 DEF WriteOK
<1>13. QED
  BY <1>2, <1>4, <1>12, WriterActs

\* A register is read
LEMMA WholeGets ==
    ASSUME TypeOK, Shape, \A q \in Processes : CallOK(q), Apart, Aimed, WorkInv,
           NEW p \in Processes, Get(p) \/ GetValue(p)
    PROVE  WorkInv'
<1> DEFINE s == Head(todo[p])
<1> DEFINE A == Accessing(p, {"get", "getvalue"})
<1>1. /\ todo[p] # <<>> /\ Head(todo[p]).do \in {"get", "getvalue"} /\ Advances(p)
      /\ UNCHANGED <<mem, size_of_msg, latest, pos, loaded>>
  BY Moves DEF Get, GetValue, Doing, dataVars, history
<1>2. /\ InCall(p) /\ call[p].op \in DOMAIN Table[driver].ops
      /\ driver \in DOMAIN Table /\ driver \notin Messages
      /\ Key(p) \in Keys /\ Key(p) = <<Key(p)[1], 0>> /\ Key(p) = KeyOf(p, s)
      /\ Reading(call[p].op) /\ s \in A
      /\ got[p] = [k \in DOMAIN got[p] |-> latest.mem[k]] /\ RegisterRead(p)
  BY <1>1, RegisterAt
<1>3. got' = [got EXCEPT ![p] = With(got[p], Key(p), mem[Key(p)])]
  <2>1. CASE Get(p)
    <3>1. address = Key(p)[1]
      BY <2>1 DEF Get, Doing, AtPort, Aimed
    <3>2. QED
      BY <1>2, <2>1, <3>1 DEF Get
  <2>2. CASE GetValue(p)
    BY <2>2 DEF GetValue
  <2>3. QED
    BY <2>1, <2>2
<1>4. /\ Steps(todo[p]) = {s} \union Steps(todo'[p])
      /\ todo'[p] # <<>> /\ \A q \in Processes \ {p} : todo'[q] = todo[q]
      /\ driver' = driver /\ call' = call
  BY <1>1, Advance
<1>5. A' = A /\ \A x : KeyOf(p, x)' = KeyOf(p, x)
  BY <1>4, SameCells
<1>6. mem = latest.mem
  BY <1>2, ReadsStanding DEF WorkInv, Writing, Reading
<1>7. DOMAIN got = Processes
  BY DEF TypeOK
<1> DEFINE g == got[p]
<1> DEFINE k == Key(p)
<1>8. got'[p] = With(g, k, mem[k]) /\ \A q \in Processes \ {p} : got'[q] = got[q]
  BY <1>3, <1>7
<1>9. \A q \in Processes \ {p} : SameWork(q)
  BY <1>1, <1>4, <1>8, LeftAlone
<1>10. g = [x \in DOMAIN g |-> mem[x]]
  BY <1>2, <1>6
<1> HIDE DEF g, k, A, s
<1>11. DOMAIN got'[p] = DOMAIN g \union {k}
  BY <1>8 DEF With
<1>12. got'[p] = [x \in DOMAIN got'[p] |-> latest'.mem[x]]
  <2>1. With(g, k, mem[k]) = [x \in DOMAIN g \union {k} |-> mem[x]]
    BY <1>10 DEF With
  <2>2. QED
    BY <2>1, <1>1, <1>6, <1>8, <1>11
<1>13. RegisterRead(p)'
  <2>1. /\ DOMAIN g \subseteq {KeyOf(p, x) : x \in A}
        /\ \A x \in A : x \notin Steps(todo[p]) => KeyOf(p, x) \in DOMAIN g
    BY <1>2 DEF RegisterRead, A, g
  <2>2. DOMAIN got'[p] \subseteq {KeyOf(p, x) : x \in A}
    BY <2>1, <1>2, <1>11 DEF k
  <2>3. \A x \in A : x \notin Steps(todo'[p]) => KeyOf(p, x) \in DOMAIN got'[p]
    BY <2>1, <1>2, <1>4, <1>11 DEF k
  <2>4. {KeyOf(p, x)' : x \in A'} = {KeyOf(p, x) : x \in A}
    BY <1>5
  <2>5. QED
    BY <2>2, <2>3, <2>4, <1>5 DEF RegisterRead, A
<1>14. ReadOK(p)'
  BY <1>2, <1>4, <1>12, <1>13 DEF ReadOK
<1>15. QED
  BY <1>1, <1>2, <1>4, <1>9, <1>14, ReaderActs

-----------------------------------------------------------------------------
(* The invariant is kept, and reads are whole.                             *)

\* What makes a history unclean is never taken back
LEMMA CleanKept ==
    ASSUME [Next]_vars
    PROVE  Clean' => Clean
<1>1. driver' = driver
  BY NextDriver
<1>2. ("fault" \in spoiled => "fault" \in spoiled') /\ (dirty => dirty')
  <2> DEFINE Grows == ("fault" \in spoiled => "fault" \in spoiled') /\ (dirty => dirty')
  <2>1. CASE UNCHANGED vars
    BY <2>1 DEF vars, history
  <2>2. ASSUME NEW p \in Processes,
               Open(p) \/ TryLock(p) \/ Capable(p) \/ Opened(p) \/ Release(p)
        PROVE  Grows
    BY <2>2 DEF Open, TryLock, Capable, Opened, Release, history
  <2>3. ASSUME NEW p \in Processes, Call(p) PROVE Grows
    <3>1. PICK op, n, buffer, reg : Enter(p, op, n, buffer, reg)
      BY <2>3 DEF Call
    <3>2. QED
      BY <3>1 DEF Enter
  <2>4. ASSUME NEW p \in Processes, Return(p) \/ Fault(p) \/ Failed(p) PROVE Grows
    BY <2>4 DEF Return, Fault, Failed
  <2>5. ASSUME NEW p \in Processes,
               \/ Count(p) \/ CopyOut(p) \/ CopyIn(p) \/ SetSize(p) \/ Forget(p) \/ Clear(p)
               \/ Fill(p) \/ LoadOffset(p) \/ StoreOffset(p) \/ Await(p) \/ Complete(p) \/ Poll(p)
        PROVE  Grows
    BY <2>5 DEF Count, CopyOut, CopyIn, SetSize, Forget, Clear, Fill, LoadOffset, StoreOffset,
                Await, Complete, Poll, history
  <2>6. ASSUME NEW p \in Processes,
               \/ ReadLock(p) \/ ReadUnlock(p) \/ WriteLock(p) \/ WriteUnlock(p)
               \/ SeqBegin(p) \/ SeqRetry(p) \/ PortLock(p) \/ PortUnlock(p) \/ Killed(p)
               \/ Address(p) \/ Get(p) \/ Set(p) \/ GetValue(p) \/ SetValue(p)
        PROVE  Grows
    BY <2>6 DEF ReadLock, ReadUnlock, WriteLock, WriteUnlock, SeqBegin, SeqRetry, PortLock,
                PortUnlock, Killed, Address, Get, Set, GetValue, SetValue, history
  <2>7. QED
    BY <2>1, <2>2, <2>3, <2>4, <2>5, <2>6 DEF Next
<1>3. QED
  BY <1>1, <1>2 DEF Clean

\* A call after the step was one before it, or has just begun
LEMMA CallsLast ==
    ASSUME TypeOK, Shape, [Next]_vars, NEW q \in Processes, InCall(q)', ~Call(q)
    PROVE  InCall(q) /\ call'[q] = call[q]
<1>1. todo \in [Processes -> Seq(Step)] /\ call \in [Processes -> Calls]
  BY DEF TypeOK
<1>2. CASE UNCHANGED vars
  BY <1>2 DEF vars, callVars, InCall
<1>3. ASSUME NEW p \in Processes, \E op, n, buffer, reg : Enter(p, op, n, buffer, reg), p # q
      PROVE  InCall(q) /\ call'[q] = call[q]
  <2>1. PICK op, n, buffer, reg : Enter(p, op, n, buffer, reg)
    BY <1>3
  <2>2. todo'[q] = todo[q] /\ call'[q] = call[q]
    BY <1>1, <1>3, <2>1 DEF Enter
  <2>3. QED
    BY <2>2 DEF InCall
<1>4. ASSUME NEW p \in Processes, Leave(p)
      PROVE  InCall(q) /\ call'[q] = call[q]
  <2>1. CASE p = q
    <3>1. call'[q] = NoCall
      BY <1>1, <1>4, <2>1 DEF Leave
    <3>2. QED
      BY <3>1 DEF InCall, NoCall
  <2>2. CASE p # q
    <3>1. todo'[q] = todo[q] /\ call'[q] = call[q]
      BY <1>1, <1>4, <2>2 DEF Leave, Done
    <3>2. QED
      BY <3>1 DEF InCall
  <2>3. QED
    BY <2>1, <2>2
<1>5. ASSUME NEW p \in Processes, call' = call, NEW t, todo' = [todo EXCEPT ![p] = t],
             todo[p] # <<>> \/ call[p].op = "none"
      PROVE  InCall(q) /\ call'[q] = call[q]
  <2>1. q # p => todo'[q] = todo[q]
    BY <1>1, <1>5
  <2>2. QED
    BY <1>5, <2>1 DEF InCall
<1>6. ASSUME NEW p \in Processes, Open(p) PROVE InCall(q) /\ call'[q] = call[q]
  BY <1>5, <1>6, IdleShape DEF Open, callVars
<1>7. ASSUME NEW p \in Processes, Release(p) PROVE InCall(q) /\ call'[q] = call[q]
  BY <1>7 DEF Release, InCall
<1>8. ASSUME NEW p \in Processes, call' = call, Done(p), todo[p] # <<>>
      PROVE  InCall(q) /\ call'[q] = call[q]
  BY <1>5, <1>8 DEF Done
<1>9. ASSUME NEW p \in Processes, todo[p] # <<>>, call' = call,
             Done(p) \/ (\E t : todo' = [todo EXCEPT ![p] = t]) \/ todo' = todo
      PROVE  InCall(q) /\ call'[q] = call[q]
  BY <1>5, <1>8, <1>9 DEF InCall
<1>10. ASSUME NEW p \in Processes, TryLock(p) \/ Capable(p) \/ Opened(p)
       PROVE  InCall(q) /\ call'[q] = call[q]
  BY <1>9, <1>10 DEF TryLock, Capable, Opened, Doing, callVars
<1>11. ASSUME NEW p \in Processes, Fault(p) PROVE InCall(q) /\ call'[q] = call[q]
  BY <1>9, <1>11 DEF Fault, Doing, callVars
<1>12. ASSUME NEW p \in Processes,
              \/ Count(p) \/ CopyOut(p) \/ CopyIn(p) \/ SetSize(p) \/ Forget(p) \/ Clear(p)
              \/ Fill(p) \/ LoadOffset(p) \/ StoreOffset(p) \/ Await(p) \/ Complete(p) \/ Poll(p)
       PROVE  InCall(q) /\ call'[q] = call[q]
  BY <1>9, <1>12 DEF Count, CopyOut, CopyIn, SetSize, Forget, Clear, Fill, LoadOffset,
                StoreOffset, Await, Complete, Poll, Doing, callVars
<1>13. ASSUME NEW p \in Processes,
              \/ ReadLock(p) \/ ReadUnlock(p) \/ WriteLock(p) \/ WriteUnlock(p)
              \/ SeqBegin(p) \/ SeqRetry(p) \/ PortLock(p) \/ PortUnlock(p) \/ Killed(p)
              \/ Address(p) \/ Get(p) \/ Set(p) \/ GetValue(p) \/ SetValue(p)
       PROVE  InCall(q) /\ call'[q] = call[q]
  BY <1>9, <1>13 DEF ReadLock, ReadUnlock, WriteLock, WriteUnlock, SeqBegin, SeqRetry, PortLock,
                PortUnlock, Killed, Address, Get, Set, GetValue, SetValue, Doing, callVars
<1>14. ASSUME NEW p \in Processes, Call(p) PROVE InCall(q) /\ call'[q] = call[q]
  <2>1. p # q
    BY <1>14
  <2>2. QED
    BY <1>3, <1>14, <2>1 DEF Call
<1>15. ASSUME NEW p \in Processes, Return(p) \/ Failed(p) PROVE InCall(q) /\ call'[q] = call[q]
  BY <1>4, <1>15 DEF Return, Failed
<1>16. QED
  BY <1>2, <1>6, <1>7, <1>10, <1>11, <1>12, <1>13, <1>14, <1>15 DEF Next

\* Who has opened a driver that one process at a time may open is the only one in a call
LEMMA OpenerAlone ==
    ASSUME TypeOK, Shape, Exclusive, driver \in Alone, NEW p \in Processes, p \in opened,
           NEW q \in Processes, InCall(q)
    PROVE  q = p
<1>1. q \in opened
  <2>1. Head(todo[q]).do \notin OpeningDos
    BY OpeningSteps DEF InCall
  <2>2. QED
    BY <2>1, AtWork DEF InCall
<1>2. p \in mutex /\ q \in mutex
  BY <1>1 DEF Exclusive, Holds
<1>3. QED
  BY <1>2 DEF TypeOK

\* Calls that overlap share nothing
LEMMA ApartStep ==
    ASSUME TypeOK, Shape, \A p \in Processes : CallOK(p), Exclusive, Apart, Clean', [Next]_vars
    PROVE  Apart'
<1>1. driver' = driver
  BY NextDriver
<1>2. ASSUME NEW p \in Processes, Call(p), NEW q \in Processes \ {p}, InCall(q)'
      PROVE  ~Writing(call'[p].op) /\ ~Writing(call'[q].op) /\ driver \notin Shy
  <2>1. /\ todo'[q] = todo[q] /\ call'[q] = call[q] /\ p \in opened
        /\ dirty' = (dirty \/ \E x \in Processes \ {p} :
                                  /\ InCall(x)
                                  /\ \/ Writing(call'[p].op) \/ Writing(call[x].op)
                                     \/ driver \in BareSysfs \union {"chardev_minor"})
    BY <1>2, Enters
  <2>2. InCall(q)
    BY <1>2, <2>1 DEF InCall
  <2>3. driver \notin Alone
    BY <2>1, <2>2, OpenerAlone
  <2>4. ~dirty'
    BY <1>1, <2>3 DEF Clean
  <2>5. ~(\/ Writing(call'[p].op) \/ Writing(call[q].op)
          \/ driver \in BareSysfs \union {"chardev_minor"})
    BY <2>1, <2>2, <2>4
  <2>6. QED
    BY <2>1, <2>3, <2>5 DEF Shy
<1>3. ASSUME NEW p \in Processes, NEW q \in Processes, InCall(p)', InCall(q)', p # q
      PROVE  ~Writing(call'[p].op) /\ ~Writing(call'[q].op) /\ driver \notin Shy
  <2>1. CASE Call(p)
    BY <1>2, <1>3, <2>1
  <2>2. CASE Call(q)
    BY <1>2, <1>3, <2>2
  <2>3. CASE ~Call(p) /\ ~Call(q)
    <3>1. InCall(p) /\ call'[p] = call[p] /\ InCall(q) /\ call'[q] = call[q]
      BY <1>3, <2>3, CallsLast
    <3>2. QED
      BY <1>3, <3>1 DEF Apart
  <2>4. QED
    BY <2>1, <2>2, <2>3
<1>4. QED
  BY <1>1, <1>3 DEF Apart

\* so that the address port keeps what a process has chosen, in the drivers too
\* that nothing protects
LEMMA AimedStep ==
    ASSUME TypeOK, Shape, Apart, Aimed, Chosen', [Next]_vars
    PROVE  Aimed'
<1>1. driver' = driver
  BY NextDriver
<1>2. CASE driver \notin BareSysfs
  BY <1>1, <1>2 DEF Chosen, Aimed
<1>3. CASE driver \in BareSysfs
  <2> SUFFICES ASSUME NEW q \in Processes, AtPort(q)' PROVE address' = Key(q)'[1]
    BY DEF Aimed
  <2>1. ASSUME NEW p \in Processes, Address(p)
        PROVE  address' = Key(q)'[1]
    <3>1. /\ Advances(p) /\ address' = Key(p)[1] /\ todo[p] # <<>>
          /\ Head(todo[p]).do = "address"
      BY <2>1, Moves DEF Address, Doing
    <3>2. CASE q = p
      <4>1. todo'[p] # <<>> /\ call' = call /\ Linked(driver, Head(todo[p]), Head(todo'[p]))
        BY <3>1, Advance
      <4>2. Head(todo'[p]).reg = Head(todo[p]).reg
        BY <4>1, <3>1 DEF Linked
      <4>3. Key(p)' = Key(p)
        BY <4>1, <4>2 DEF Key, KeyOf
      <4>4. QED
        BY <4>3, <3>1, <3>2
    <3>3. CASE q # p
      <4>1. todo'[q] = todo[q]
        BY <3>1, <3>3, Advance
      <4>2. todo[q] # <<>> /\ Head(todo[q]).do \in {"get", "set"}
        BY <4>1 DEF AtPort
      <4>3. InCall(p) /\ InCall(q)
        BY <3>1, <4>2, AtWork DEF InCall, OpeningDos
      <4>4. QED
        BY <1>3, <3>3, <4>3 DEF Apart, Shy
    <3>4. QED
      BY <3>2, <3>3
  <2>2. CASE address' = address /\ ~Address(q)
    <3>1. todo'[q] = todo[q] /\ call'[q] = call[q]
      BY <2>2, PortArrives
    <3>2. AtPort(q) /\ Key(q)' = Key(q)
      BY <3>1 DEF AtPort, Key, KeyOf
    <3>3. QED
      BY <2>2, <3>2 DEF Aimed
  <2>3. QED
    BY <2>1, <2>2, PortArrives
<1>4. QED
  BY <1>2, <1>3

\* The work goes on
LEMMA WorkStep ==
    ASSUME TypeOK, Shape, \A p \in Processes : CallOK(p), Apart, Aimed, WorkInv,
           Clean', Apart', [Next]_vars
    PROVE  WorkInv'
<1>1. CASE UNCHANGED vars
  <2>1. UNCHANGED <<driver, mem, size_of_msg, latest, todo, call, pos, got, loaded>>
    BY <1>1 DEF vars, dataVars, callVars, copyVars, history
  <2>2. \A q \in Processes : SameWork(q)
    BY <2>1, LeftAlone
  <2>3. QED
    BY <2>1, <2>2, WholeQuiet
<1>2. ASSUME NEW p \in Processes,
             Open(p) \/ TryLock(p) \/ Capable(p) \/ Opened(p) \/ Release(p)
      PROVE  WorkInv'
  BY <1>2, WholeOpens
<1>3. ASSUME NEW p \in Processes,
             \/ LoadOffset(p) \/ StoreOffset(p) \/ Await(p) \/ Complete(p) \/ Poll(p)
             \/ ReadLock(p) \/ ReadUnlock(p) \/ WriteLock(p) \/ WriteUnlock(p)
             \/ SeqBegin(p) \/ PortLock(p) \/ PortUnlock(p) \/ Address(p)
      PROVE  WorkInv'
  BY <1>3, WholePlain
<1>4. ASSUME NEW p \in Processes,
             \/ Count(p) \/ CopyOut(p) \/ CopyIn(p) \/ SetSize(p) \/ Forget(p) \/ Clear(p)
             \/ Fill(p) \/ SeqRetry(p) \/ Fault(p) \/ Failed(p)
      PROVE  WorkInv'
  <2>1. driver \in Messages
    BY <1>4, RegisterSteps
  <2>2. "fault" \notin spoiled'
    BY DEF Clean
  <2>3. QED
    BY <1>4, <2>1, <2>2, WholeCount, WholeCopyOut, WholeCopyIn, WholeSetSize, WholeForget,
       WholeClear, WholeFill, WholeRetry, WholeFault, WholeLeaves
<1>5. ASSUME NEW p \in Processes, Get(p) \/ GetValue(p) \/ Set(p) \/ SetValue(p)
      PROVE  WorkInv'
  BY <1>5, WholeGets, WholeSets
<1>6. ASSUME NEW p \in Processes, Killed(p) PROVE WorkInv'
  BY <1>6 DEF Killed, Clean
<1>7. ASSUME NEW p \in Processes, Return(p) PROVE WorkInv'
  BY <1>7, WholeLeaves
<1>8. ASSUME NEW p \in Processes, Call(p) PROVE WorkInv'
  BY <1>8, WholeEnters
<1>9. QED
  BY <1>1, <1>2, <1>3, <1>4, <1>5, <1>6, <1>7, <1>8 DEF Next

\* At first nobody is in a call
LEMMA WholeInit ==
    Init => WholeInv
<1> SUFFICES ASSUME Init PROVE WholeInv
  OBVIOUS
<1>1. \A p \in Processes : todo[p] = <<>>
  BY DEF Init
<1>2. \A p \in Processes : ~InCall(p) /\ ~AtPort(p)
  BY <1>1 DEF InCall, AtPort
<1>3. Standing
  BY DEF Init, Standing
<1>4. QED
  BY <1>2, <1>3 DEF WholeInv, Apart, Aimed, WriteOK, ReadOK

\* What the invariant says holds after every step
LEMMA WholeStep ==
    ASSUME TypeOK, Shape, \A p \in Processes : CallOK(p), Exclusive, Chosen', WholeInv, [Next]_vars
    PROVE  WholeInv'
<1> SUFFICES ASSUME Clean' PROVE Apart' /\ Aimed' /\ WorkInv'
  BY DEF WholeInv, WorkInv
<1>1. Apart /\ Aimed /\ WorkInv
  BY CleanKept DEF WholeInv, WorkInv
<1>2. Apart' /\ Aimed'
  BY <1>1, ApartStep, AimedStep
<1>3. QED
  BY <1>1, <1>2, WorkStep

\* A read that returns has what the last write left, all of it and nothing
\* else, as long as no write has failed half-way: in the drivers that one process
\* at a time may open, whoever else tries; in the others, in a history where no
\* calls overlapped that share what they use. A write in its course has set the
\* cells, or the registers, that the steps left to it do not account for; a read
\* in its course has as many of those of the last write; and while nobody writes
\* the buffer is what the last one left.
THEOREM ReadsAreWhole == Spec => []ReadsWhole
<1>1. Init => WholeInv
  BY WholeInit
<1>2. SharedInv /\ SharedInv' /\ WholeInv /\ [Next]_vars => WholeInv'
  BY WholeStep DEF SharedInv, TypeInv
<1>3. SharedInv /\ WholeInv => ReadsWhole
  <2> SUFFICES ASSUME SharedInv, WholeInv, NEW p \in Processes, Doing(p, "return"),
                      Reading(call[p].op), "fault" \notin spoiled, ~dirty \/ driver \in Alone
               PROVE  got[p] = [k \in Expected(p) |-> latest.mem[k]]
    BY DEF ReadsWhole
  <2> DEFINE op == call[p].op
  <2>1. TypeOK /\ Shape /\ todo[p] # <<>> /\ Head(todo[p]).do = "return"
    BY DEF SharedInv, TypeInv, Doing
  <2>2. /\ driver \in DOMAIN Table /\ op \in DOMAIN Table[driver].ops /\ InCall(p)
        /\ Steps(todo[p]) = {Head(todo[p])} /\ Dos(todo[p]) = {"return"}
    BY <2>1, AtWork, EndSteps DEF Shape, InCall, OpeningDos
  <2>3. ReadOK(p)
    BY DEF WholeInv, Clean
  <2>4. DOMAIN got[p] = Expected(p)
    <3>1. CASE driver \in Messages
      <4>1. MessageRead(p)
        BY <2>2, <2>3, <3>1 DEF ReadOK
      <4>2. DOMAIN got[p] = {CellAt(p, i) : i \in 1 .. Length(p)}
        BY <2>2, <4>1 DEF MessageRead
      <4>3. QED
        BY <2>2, <3>1, <4>2, MessageCells
    <3>2. CASE driver \notin Messages
      <4> DEFINE A == Accessing(p, {"get", "getvalue"})
      <4>1. RegisterRead(p)
        BY <2>2, <2>3, <3>2 DEF ReadOK
      <4>2. \A s \in A : s \notin Steps(todo[p])
        BY <2>1, <2>2 DEF Accessing
      <4>3. DOMAIN got[p] = {KeyOf(p, s) : s \in A}
        <5>1. DOMAIN got[p] \subseteq {KeyOf(p, s) : s \in A}
          BY <4>1 DEF RegisterRead
        <5>2. \A s \in A : KeyOf(p, s) \in DOMAIN got[p]
          BY <4>1, <4>2 DEF RegisterRead
        <5>3. QED
          BY <5>1, <5>2
      <4>4. Expected(p) = KeysOf(p, Program(p), {"get", "getvalue"})
        <5>1. driver \in Ports \union {"proc_skel"}
          BY <2>2, <3>2, RegisterFamilies
        <5>2. QED
          BY <5>1 DEF Expected
      <4>5. QED
        BY <2>2, <4>3, <4>4, ProgramKeys
    <3>3. QED
      BY <3>1, <3>2
  <2>5. QED
    BY <2>2, <2>3, <2>4 DEF ReadOK
<1>4. QED
  BY <1>1, <1>2, <1>3, SharedInvariant, PTL DEF Spec
=============================================================================
