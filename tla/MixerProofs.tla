----------------------------- MODULE MixerProofs -----------------------------
(***************************************************************************)
(* Invariants of the mixer library, for every card: any number of controls *)
(* of any type, range and number of values.                                *)
(***************************************************************************)
EXTENDS Mixer, TLAPS

-----------------------------------------------------------------------------
(* What mixer_open collects.                                               *)

Base == {Block("mixer"), Block("ctl"), Block("elem_info")}

\* The steps before the handle is allocated, before its fd is set, and after.
Early == {"list", "mixer"}
Blank == {"arrays", "card_info", "eid"}
Late  == {"pids", "elem", "items", "names", "open"}
Over  == {"failed", "closed"}

Descriptors ==
    /\ pc = "none" => fds = {0} /\ at = "none"
    /\ pc \in Early \union Blank \union Late => fds = {0, 1} /\ card_fd = 1
    /\ pc \in {"none"} \union Early \union Blank => fd = 0 /\ count = 0
    /\ pc \in Late => fd = 1 /\ count = Len(Card)
    /\ pc \in Over /\ at \notin Blank => fds = {0}

\* The control mixer_open is in, and the names it has by then.
Collected ==
    /\ pc \in {"none", "pids"} \union Early \union Blank =>
          \A c \in Ctl : ename[c] = <<>>
    /\ pc \in {"elem", "items", "names"} => n \in Ctl
    /\ pc \in {"elem", "items", "names"} => \A c \in Ctl : c > n => ename[c] = <<>>
    /\ pc \in {"elem", "items"} => ename[n] = <<>>
    /\ pc \in {"items", "names"} => Card[n].type = "ENUMERATED"
    /\ pc = "names" => Len(ename[n]) < Len(Card[n].names)

\* The names are those of the items, from the first on.
Named ==
    /\ DOMAIN ename = Ctl
    /\ \A c \in Ctl : /\ ename[c] \in Seq(Name) /\ Len(ename[c]) <= Len(Card[c].names)
                      /\ \A k \in 1..Len(ename[c]) : ename[c][k] = Card[c].names[k]

\* The blocks of m are those mixer_close frees and eid.
Reachable(m) ==
    \A b \in m : \/ b \in Base \union {Block("eid")}
                 \/ \E c \in Ctl : b = Enames(c)
                 \/ \E c \in Ctl : \E k \in 1..Len(Card[c].names) :
                       b = Item(c, k) /\ Enames(c) \in m

\* Nothing is allocated that mixer_close would not reach.
Owned ==
    /\ pc \in {"none"} \union Early \union Over => mem = {}
    /\ pc = "arrays" => mem = {Block("mixer")}
    /\ pc \in {"card_info", "eid"} => mem = Base
    /\ pc \in Late => Base \subseteq mem
    /\ pc = "open" => Block("eid") \notin mem
    /\ pc = "names" => Enames(n) \in mem
    /\ Reachable(mem)

OpenInv == Descriptors /\ Collected /\ Named /\ Owned

\* mixer_close frees every block that is reachable from a handle whose count is set.
LEMMA AllReached ==
    ASSUME NEW m, Reachable(m), count = Len(Card), Block("ctl") \in m
    PROVE  m \ (Reached(m) \union {Block("eid")}) = {}
<1>1. SUFFICES ASSUME NEW b \in m PROVE b \in Reached(m) \union {Block("eid")}
  OBVIOUS
<1>2. CASE b \in Base \union {Block("eid")}
  BY <1>2 DEF Reached, Base
<1>3. ASSUME NEW c \in Ctl, b = Enames(c) PROVE b \in Reached(m)
  <2>1. c \in {d \in 1..count : Enames(d) \in m} BY <1>1, <1>3 DEF Ctl
  <2> QED BY <2>1, <1>3 DEF Reached
<1>4. ASSUME NEW c \in Ctl, NEW k \in 1..Len(Card[c].names), b = Item(c, k), Enames(c) \in m
      PROVE  b \in Reached(m)
  <2>1. c \in {d \in 1..count : Enames(d) \in m} BY <1>4 DEF Ctl
  <2> QED BY <2>1, <1>4 DEF Reached
<1> QED BY <1>1, <1>2, <1>3, <1>4 DEF Reachable

\* Before the fd and the count are set, there is nothing but what Base holds.
LEMMA BaseReached ==
    ASSUME NEW m, m \subseteq Base
    PROVE  m \ (Reached(m) \union {Block("eid")}) = {}
BY DEF Reached, Base

\* A step that fails has freed all by then, and closes the card's descriptor
\* unless the handle's fd is not set yet.
LEMMA FailStep ==
    ASSUME OpenInv, pc \in Early \union Blank \union Late, NEW held, Fail(held),
           \/ pc \in Early /\ held = {}
           \/ pc \in Blank /\ held \subseteq Base /\ Block("mixer") \in held
           \/ pc \in Late /\ held = mem
    PROVE  OpenInv'
<1>1. pc' = "failed" /\ at' = pc /\ UNCHANGED <<n, card_fd, fd, count, ename>>
  BY DEF Fail, mixer
<1>2. mem' = {}
  <2>1. CASE Block("mixer") \in held
    <3>1. mem' = held \ (Reached(held) \union {Block("eid")}) BY <2>1 DEF Fail
    <3>2. CASE pc \in Late
      <4>1. Block("ctl") \in held /\ Reachable(held) /\ count = Len(Card)
        BY <3>2 DEF OpenInv, Owned, Descriptors, Base, Late, Early, Blank
      <4> QED BY <4>1, <3>1, AllReached
    <3>3. CASE held \subseteq Base BY <3>3, <3>1, BaseReached
    <3> QED BY <3>2, <3>3
  <2>2. CASE Block("mixer") \notin held
    <3>1. mem' = held \ {Block("eid")} BY <2>2 DEF Fail
    <3>2. CASE pc \in Late BY <3>2, <2>2 DEF OpenInv, Owned, Base, Early, Blank, Late
    <3>3. CASE pc \in Early BY <3>1, <3>3 DEF Early, Blank, Late
    <3> QED BY <3>1, <3>2, <3>3, <2>2
  <2> QED BY <2>1, <2>2
<1>3. pc \notin Blank => fds' = {0}
  <2>1. CASE pc \in Early
    BY <2>1 DEF Fail, OpenInv, Descriptors, Early, Blank, Late
  <2>2. CASE pc \in Late
    <3>1. Block("mixer") \in held /\ fds = {0, 1} /\ fd = 1
      BY <2>2 DEF OpenInv, Descriptors, Owned, Early, Blank, Late, Base
    <3> QED BY <3>1 DEF Fail
  <2> QED BY <2>1, <2>2
<1>4. Reachable(mem)' BY <1>2 DEF Reachable
<1>5. Named' BY <1>1 DEF OpenInv, Named
<1> QED BY <1>1, <1>2, <1>3, <1>4, <1>5 DEF OpenInv, Descriptors, Collected, Owned, Early, Blank, Late, Over

\* Reachable blocks stay so when a control gets its array of names, or an item
\* of it gets its name, and when eid is freed.
LEMMA StillReachable ==
    ASSUME NEW m, Reachable(m)
    PROVE  /\ \A b \in Base \union {Block("eid")} : Reachable(m \union {b})
           /\ \A c \in Ctl : Reachable(m \union {Enames(c)})
           /\ \A c \in Ctl : \A k \in 1..Len(Card[c].names) :
                 Enames(c) \in m => Reachable(m \union {Item(c, k)})
           /\ Reachable(m \ {Block("eid")})
<1>1. ASSUME NEW b \in Base \union {Block("eid")} PROVE Reachable(m \union {b})
  BY <1>1 DEF Reachable
<1>2. ASSUME NEW c \in Ctl PROVE Reachable(m \union {Enames(c)})
  BY <1>2 DEF Reachable
<1>3. ASSUME NEW c \in Ctl, NEW k \in 1..Len(Card[c].names), Enames(c) \in m
      PROVE  Reachable(m \union {Item(c, k)})
  BY <1>3 DEF Reachable
<1>4. Reachable(m \ {Block("eid")})
  <2>1. \A c : Enames(c) # Block("eid") BY DEF Enames, Block
  <2> QED BY <2>1 DEF Reachable
<1> QED BY <1>1, <1>2, <1>3, <1>4

\* The next control, or the end of mixer_open.
LEMMA ContinueStep ==
    ASSUME OpenInv, pc \in {"pids", "elem", "names"}, NEW m, NEW c \in 1..(Len(Card) + 1),
           Base \subseteq m, Reachable(m), Continue(c, m), UNCHANGED <<fd, count>>, Named',
           \A d \in Ctl : d >= c => ename'[d] = <<>>
    PROVE  OpenInv'
<1>1. count = Len(Card) /\ fd = 1 /\ fds = {0, 1} /\ card_fd = 1
  BY DEF OpenInv, Descriptors, Late
<1>2. Len(Card) \in Nat BY MixerAssumption
<1>3. n' = c /\ UNCHANGED <<fds, card_fd, at>> BY DEF Continue
<1>4. CASE c <= count
  <2>1. pc' = "elem" /\ mem' = m BY <1>4 DEF Continue
  <2>2. c \in Ctl BY <1>1, <1>2, <1>4 DEF Ctl
  <2>3. Collected' BY <1>2, <1>3, <2>1, <2>2 DEF Collected, Early, Blank, Ctl
  <2> QED BY <1>1, <1>3, <2>1, <2>3 DEF OpenInv, Descriptors, Owned, Early, Blank, Late, Over
<1>5. CASE ~(c <= count)
  <2>1. pc' = "open" /\ mem' = m \ {Block("eid")} BY <1>5 DEF Continue
  <2>2. Base \subseteq mem' BY <2>1 DEF Base, Block
  <2>3. Reachable(mem)'
    <3>1. Reachable(m \ {Block("eid")}) BY StillReachable
    <3> QED BY <2>1, <3>1 DEF Reachable
  <2>4. Collected' BY <2>1 DEF Collected, Early, Blank
  <2> QED BY <1>1, <1>3, <2>1, <2>2, <2>3, <2>4 DEF OpenInv, Descriptors, Owned, Early, Blank, Late, Over
<1> QED BY <1>4, <1>5

\* What mixer_open and mixer_close keep true.
LEMMA OpenSteps ==
    ASSUME OpenInv, mixer_open \/ mixer_close
    PROVE  OpenInv'
<1> USE DEF OpenInv
<1>1. CASE open
  BY <1>1 DEF open, mixer, Descriptors, Collected, Named, Owned, Reachable, Early, Blank, Late, Over
<1>2. CASE ElemList
  BY <1>2 DEF ElemList, Goto, mixer, Descriptors, Collected, Named, Owned, Reachable, Early, Blank, Late, Over
<1>3. CASE AllocMixer
  BY <1>3 DEF AllocMixer, Goto, Allocate, mixer, Descriptors, Collected, Named, Owned, Reachable, Early, Blank, Late, Over, Base
<1>4. CASE AllocArrays
  <2>1. CASE Goto("card_info") /\ Allocate({Block("ctl"), Block("elem_info")}) /\ UNCHANGED mixer
    BY <1>4, <2>1 DEF AllocArrays, Goto, Allocate, mixer, Descriptors, Collected, Named, Owned, Reachable, Early, Blank, Late, Over, Base
  <2>2. ASSUME NEW got \in {"ctl", "elem_info"}, Fail(mem \union {Block(got)}) PROVE OpenInv'
    <3>1. pc \in Blank /\ mem \union {Block(got)} \subseteq Base /\ Block("mixer") \in mem \union {Block(got)}
      BY <1>4, <2>2 DEF AllocArrays, Owned, Blank, Base
    <3> HIDE DEF OpenInv
    <3> QED BY <3>1, <2>2, FailStep
  <2> QED BY <1>4, <2>1, <2>2 DEF AllocArrays
<1>5. CASE CardInfo
  BY <1>5 DEF CardInfo, Goto, mixer, Descriptors, Collected, Named, Owned, Reachable, Early, Blank, Late, Over
<1>6. CASE AllocIds
  <2>1. pc = "eid" /\ pc' = "pids" /\ mem' = mem \union {Block("eid")} /\ UNCHANGED <<fds, n, card_fd, at, ename>>
        /\ count' = Len(Card) /\ fd' = card_fd
    BY <1>6 DEF AllocIds, Goto, Allocate
  <2>2. Reachable(mem)' BY <2>1, StillReachable DEF Owned, Reachable
  <2> QED BY <2>1, <2>2 DEF Descriptors, Collected, Named, Owned, Early, Blank, Late, Over
<1>7. CASE ElemIds
  <2>1. pc = "pids" /\ Continue(1, mem) /\ UNCHANGED <<fd, count, ename>> BY <1>7 DEF ElemIds, mixer
  <2>2. Named' BY <2>1 DEF Named
  <2>3. 1 \in 1..(Len(Card) + 1) BY MixerAssumption
  <2>4. Base \subseteq mem /\ Reachable(mem) /\ \A d \in Ctl : ename'[d] = <<>>
    BY <2>1 DEF Owned, Late, Collected
  <2> HIDE DEF OpenInv
  <2> QED BY <2>1, <2>2, <2>3, <2>4, ContinueStep
<1>8. CASE ElemInfo
  <2>1. pc = "elem" /\ UNCHANGED <<fd, count, ename>> BY <1>8 DEF ElemInfo
  <2>2. Named' BY <2>1 DEF Named
  <2>3. n \in Ctl /\ Len(Card) \in Nat BY <2>1, MixerAssumption DEF Collected
  <2>4. CASE Card[n].type = "ENUMERATED"
    BY <2>1, <2>2, <2>4, <1>8 DEF ElemInfo, Goto, Descriptors, Collected, Owned, Reachable, Early, Blank, Late, Over
  <2>5. CASE Card[n].type # "ENUMERATED"
    <3>1. Continue(n + 1, mem) BY <2>5, <1>8 DEF ElemInfo
    <3>2. n + 1 \in 1..(Len(Card) + 1) BY <2>3 DEF Ctl
    <3>3. \A d \in Ctl : d >= n + 1 => ename'[d] = <<>> BY <2>1, <2>3 DEF Collected, Ctl
    <3>4. Base \subseteq mem /\ Reachable(mem) BY <2>1 DEF Owned, Late
    <3> HIDE DEF OpenInv
    <3> QED BY <2>1, <2>2, <3>1, <3>2, <3>3, <3>4, ContinueStep
  <2> QED BY <2>4, <2>5
<1>9. CASE AllocItems
  <2>1. pc = "items" /\ pc' = "names" /\ mem' = mem \union {Enames(n)}
        /\ UNCHANGED <<fds, n, card_fd, at, fd, count, ename>>
    BY <1>9 DEF AllocItems, Goto, Allocate, mixer
  <2>2. n \in Ctl /\ ename[n] = <<>> /\ Card[n].type = "ENUMERATED" BY <2>1 DEF Collected
  <2>3. Len(ename[n]) < Len(Card[n].names)
    <3>1. Card[n].names \in Seq(Name) /\ Card[n].names # <<>> BY <2>2, MixerAssumption
    <3> QED BY <2>2, <3>1
  <2>4. Reachable(mem)' BY <2>1, <2>2, StillReachable DEF Owned, Reachable
  <2> QED BY <2>1, <2>2, <2>3, <2>4 DEF Descriptors, Collected, Named, Owned, Early, Blank, Late, Over
<1>10. CASE ItemName
  <2> DEFINE k == Len(ename[n]) + 1
  <2>1. pc = "names" /\ UNCHANGED <<fd, count>> BY <1>10 DEF ItemName
  <2>2. n \in Ctl /\ Len(ename[n]) < Len(Card[n].names) /\ Len(Card) \in Nat
    BY <2>1, MixerAssumption DEF Collected
  <2>3. k \in 1..Len(Card[n].names) /\ Card[n].names \in Seq(Name)
    <3>1. Card[n].names \in Seq(Name) /\ ename[n] \in Seq(Name) BY <2>2, MixerAssumption DEF Named
    <3>2. Len(ename[n]) \in Nat /\ Len(Card[n].names) \in Nat BY <3>1
    <3> QED BY <2>2, <3>1, <3>2
  <2>4. ename' = [ename EXCEPT ![n] = Append(@, Card[n].names[k])] BY <1>10 DEF ItemName, Asked
  <2>5. /\ ename'[n] = Append(ename[n], Card[n].names[k]) /\ ename'[n] \in Seq(Name) /\ Len(ename'[n]) = k
        /\ \A c \in Ctl \ {n} : ename'[c] = ename[c]
        /\ Named'
    <3>1. ename[n] \in Seq(Name) /\ Card[n].names[k] \in Name BY <2>2, <2>3 DEF Named
    <3>2. ename'[n] = Append(ename[n], Card[n].names[k]) /\ \A c \in Ctl \ {n} : ename'[c] = ename[c]
      BY <2>2, <2>4 DEF Named
    <3>3. ename'[n] \in Seq(Name) /\ Len(ename'[n]) = k BY <3>1, <3>2
    <3>4. \A j \in 1..k : ename'[n][j] = Card[n].names[j]
      <4>1. \A j \in 1..Len(ename[n]) : ename[n][j] = Card[n].names[j] BY <2>2 DEF Named
      <4> QED BY <3>1, <3>2, <4>1
    <3>5. DOMAIN ename' = Ctl BY <2>4 DEF Named
    <3>6. \A c \in Ctl \ {n} : /\ ename'[c] \in Seq(Name) /\ Len(ename'[c]) <= Len(Card[c].names)
                               /\ \A j \in 1..Len(ename'[c]) : ename'[c][j] = Card[c].names[j]
      BY <3>2 DEF Named
    <3>7. Len(ename'[n]) <= Len(Card[n].names) BY <2>3, <3>3
    <3> HIDE DEF k
    <3> QED BY <3>2, <3>3, <3>4, <3>5, <3>6, <3>7 DEF Named
  <2>6. Enames(n) \in mem /\ Base \subseteq mem /\ Reachable(mem \union {Item(n, k)})
    BY <2>1, <2>2, <2>3, StillReachable DEF Owned, Late
  <2>7. \A d \in Ctl : d > n => ename'[d] = <<>>
    BY <2>1, <2>2, <2>4 DEF Collected, Ctl
  <2>8. CASE k = Len(Card[n].names)
    <3>1. Continue(n + 1, mem \union {Item(n, k)}) BY <2>8, <1>10 DEF ItemName
    <3>2. n + 1 \in 1..(Len(Card) + 1) BY <2>2 DEF Ctl
    <3>3. \A d \in Ctl : d >= n + 1 => ename'[d] = <<>> BY <2>2, <2>7 DEF Ctl
    <3> HIDE DEF OpenInv, k
    <3> QED BY <2>1, <2>5, <2>6, <3>1, <3>2, <3>3, ContinueStep
  <2>9. CASE k # Len(Card[n].names)
    <3>1. pc' = "names" /\ mem' = mem \union {Item(n, k)} /\ UNCHANGED <<fds, n, card_fd, at>>
      BY <2>9, <1>10 DEF ItemName, Goto, Allocate
    <3>2. Len(ename'[n]) < Len(Card[n].names) BY <2>3, <2>5, <2>9
    <3> QED BY <2>1, <2>2, <2>5, <2>6, <2>7, <3>1, <3>2 DEF Descriptors, Collected, Owned, Reachable, Early, Blank, Late, Over
  <2> QED BY <2>8, <2>9
<1>11. CASE pc \in Steps /\ Fail(mem)
  <2>1. pc \in Early \union Blank \union (Late \ {"open"}) BY <1>11 DEF Steps, Early, Blank, Late
  <2>2. \/ pc \in Early /\ mem = {}
        \/ pc \in Blank /\ mem \subseteq Base /\ Block("mixer") \in mem
        \/ pc \in Late /\ mem = mem
    BY <2>1 DEF Owned, Base, Early, Blank, Late
  <2> HIDE DEF OpenInv
  <2> QED BY <1>11, <2>1, <2>2, FailStep
<1>12. CASE mixer_close
  <2>1. pc = "open" /\ pc' = "closed" /\ fds' = fds \ {fd} /\ mem' = mem \ Reached(mem)
        /\ UNCHANGED <<n, card_fd, at, fd, count, ename>>
    BY <1>12 DEF mixer_close, mixer
  <2>2. fds = {0, 1} /\ fd = 1 /\ count = Len(Card) /\ Block("ctl") \in mem /\ Reachable(mem) /\ Block("eid") \notin mem
    BY <2>1 DEF Descriptors, Owned, Late, Early, Blank, Base
  <2>3. mem' = {} BY <2>1, <2>2, AllReached
  <2> QED BY <2>1, <2>2, <2>3 DEF Descriptors, Collected, Named, Owned, Reachable, Early, Blank, Late, Over
<1> QED BY <1>1, <1>2, <1>3, <1>4, <1>5, <1>6, <1>7, <1>8, <1>9, <1>10, <1>11, <1>12 DEF mixer_open

\* The setters leave alone what mixer_open has collected.
LEMMA SettersKeep ==
    ASSUME Next, ~mixer_open, ~mixer_close
    PROVE  UNCHANGED <<process, pc, n, card_fd, at, mixer>>
BY DEF Next, ElemWrite, mixer_ctl_set_value, mixer_ctl_set_percent, mixer_ctl_set_array,
       mixer_ctl_set_enum_by_string, OtherSets, SetOne, Read, Write

LEMMA OpenKept ==
    ASSUME OpenInv, UNCHANGED <<process, pc, n, card_fd, at, mixer>>
    PROVE  OpenInv'
BY DEF process, mixer, OpenInv, Descriptors, Collected, Named, Owned, Reachable

LEMMA OpenInit == Init => OpenInv
<1>1. ASSUME Init PROVE Named
  <2>1. \A c \in Ctl : ename[c] = <<>> /\ Card[c].names \in Seq(Name)
    BY <1>1, MixerAssumption DEF Init
  <2> QED BY <1>1, <2>1 DEF Init, Named
<1> QED BY <1>1 DEF Init, OpenInv, Descriptors, Collected, Owned, Reachable, Early, Blank, Late, Over

LEMMA OpenStep == OpenInv /\ [Next]_vars => OpenInv'
<1> SUFFICES ASSUME OpenInv, [Next]_vars PROVE OpenInv'
  OBVIOUS
<1>1. CASE mixer_open \/ mixer_close BY <1>1, OpenSteps
<1>2. CASE Next /\ ~mixer_open /\ ~mixer_close BY <1>2, SettersKeep, OpenKept
<1>3. CASE UNCHANGED vars BY <1>3, OpenKept DEF vars
<1> QED BY <1>1, <1>2, <1>3

\* What mixer_open collects is reachable from the handle, at every step, and its
\* names are those of the card.
THEOREM Opening == Spec => []OpenInv
BY OpenInit, OpenStep, PTL DEF Spec

\* mixer_open leaves nothing allocated when it fails, at any of its steps for any
\* card, nor does mixer_close, and both close the descriptor of the card; the
\* exception are failures between lines 113 and 130 of mixer.c, as the property
\* says.
THEOREM HeldByNobody == Spec => []NothingHeld
<1>1. OpenInv => NothingHeld
  BY DEF OpenInv, Owned, Descriptors, NothingHeld, Over, Early, Blank, Late
<1> QED BY <1>1, Opening, PTL
-----------------------------------------------------------------------------
(* Values.                                                                 *)

Slot(c) == 0..(Card[c].count - 1)

\* All values of all controls.
Values(f) == DOMAIN f = Ctl /\ \A c \in Ctl : f[c] \in [Slot(c) -> Int]

\* What the kernel has taken is in range.
Ranged ==
    \A c \in Ctl : Card[c].type = "INTEGER" => \A i \in Slot(c) : value[c][i] \in InRange(Card[c])

\* What the call between its two ioctls has read, and is to write.
Pending ==
    reading # NoSet =>
        /\ pc = "open" /\ reading.op \in {"value", "percent"}
        /\ reading.c \in Ctl /\ reading.i \in Slot(reading.c) /\ reading.v \in Int
        /\ reading.ev \in [Slot(reading.c) -> Int] /\ reading.ev[reading.i] = reading.v
        /\ reading.c \notin disturbed => reading.ev = [value[reading.c] EXCEPT ![reading.i] = reading.v]
        /\ reading.op = "percent" =>
              /\ Card[reading.c].type = "INTEGER" /\ reading.arg \in Int
              /\ reading.v = percent_to_int(Card[reading.c], reading.arg)
              /\ \A i \in Slot(reading.c) : reading.ev[i] \in InRange(Card[reading.c])

\* What the last call that wrote has left.
LastCall ==
    /\ call.op \in {"none", "value", "percent", "array", "enum", "other"}
    /\ call.op # "none" => pc \in {"open", "closed"} /\ call.c \in Ctl /\ call.i \in Slot(call.c)
    /\ call.op \in {"value", "percent"} /\ call.ret = 0 =>
          value[call.c][call.i] = asked[call.c][call.i]
    /\ call.op = "percent" =>
          /\ call.ret = 0 /\ Card[call.c].type = "INTEGER" /\ call.arg \in Int
          /\ value[call.c][call.i] = percent_to_int(Card[call.c], call.arg)
    /\ call.op = "array" /\ call.ret = 0 => value[call.c] = asked[call.c]
    /\ call.op = "enum" =>
          /\ call.ret = 0 /\ Card[call.c].type = "ENUMERATED"
          /\ \E k \in 1..Len(ename[call.c]) :
                ename[call.c][k] = call.arg /\ value[call.c][0] = k - 1

Agreed == \A c \in Ctl \ disturbed : value[c] = asked[c]

ValueInv == Values(value) /\ Values(asked) /\ Ranged /\ Pending /\ LastCall /\ Agreed

\* Arithmetic of the conversions: a part of a range, and its ends.
LEMMA PartOfRange ==
    ASSUME NEW r \in Nat, NEW p \in 0..100
    PROVE  /\ (r * p) \div 100 \in 0..r
           /\ (r * 0) \div 100 = 0
           /\ (r * 100) \div 100 = r
<1>1. r * p \in Int /\ 0 <= r * p /\ r * p <= 100 * r OBVIOUS
<1>2. ASSUME NEW x \in Int, 0 <= x, x <= 100 * r PROVE x \div 100 \in 0..r
  BY <1>2
<1>3. r * 0 = 0 /\ (r * 100) \div 100 = r
  OBVIOUS
<1> QED BY <1>1, <1>2, <1>3

LEMMA WholeRange ==
    ASSUME NEW r \in Nat \ {0}
    PROVE  0 \div r = 0 /\ r \div r = 1
OBVIOUS

\* A percentage becomes a value in the range of the control, and its ends the ends.
LEMMA PercentConverts ==
    ASSUME NEW c \in Ctl, NEW p \in Int
    PROVE  /\ percent_to_int(Card[c], p) \in Card[c].min..Card[c].max
           /\ p <= 0 => percent_to_int(Card[c], p) = Card[c].min
           /\ p >= 100 => percent_to_int(Card[c], p) = Card[c].max
<1> DEFINE r == Card[c].max - Card[c].min
<1>1. Card[c].min \in Int /\ Card[c].max \in Int /\ r \in Nat BY MixerAssumption
<1>2. Clamp(p) \in 0..100 /\ (p <= 0 => Clamp(p) = 0) /\ (p >= 100 => Clamp(p) = 100)
  BY DEF Clamp
<1>3. percent_to_int(Card[c], p) = Card[c].min + (r * Clamp(p)) \div 100
  BY DEF percent_to_int
<1> HIDE DEF r
<1>4. /\ (r * Clamp(p)) \div 100 \in 0..r
      /\ (r * 0) \div 100 = 0
      /\ (r * 100) \div 100 = r
  BY <1>1, <1>2, PartOfRange
<1>5. percent_to_int(Card[c], p) \in Card[c].min..Card[c].max
  BY <1>1, <1>3, <1>4 DEF r
<1>6. p <= 0 => percent_to_int(Card[c], p) = Card[c].min
  BY <1>1, <1>2, <1>3, <1>4
<1>7. p >= 100 => percent_to_int(Card[c], p) = Card[c].max
  BY <1>1, <1>2, <1>3, <1>4 DEF r
<1> QED BY <1>5, <1>6, <1>7

\* The ends of a range read back as 0 and 100 percent.
LEMMA PercentReadsBack ==
    ASSUME NEW c \in Ctl
    PROVE  /\ int_to_percent(Card[c], Card[c].min) = 0
           /\ Card[c].min < Card[c].max => int_to_percent(Card[c], Card[c].max) = 100
<1>1. Card[c].min \in Int /\ Card[c].max \in Int /\ Card[c].min <= Card[c].max
  BY MixerAssumption
<1>2. CASE Card[c].max = Card[c].min BY <1>1, <1>2 DEF int_to_percent
<1>3. CASE Card[c].max # Card[c].min
  <2> DEFINE r == Card[c].max - Card[c].min
  <2>1. r \in Nat \ {0} BY <1>1, <1>3
  <2>2. 0 \div r = 0 /\ r \div r = 1 BY <2>1, WholeRange
  <2>3. Card[c].min - Card[c].min = 0 BY <1>1
  <2> QED BY <1>1, <1>3, <2>2, <2>3 DEF int_to_percent
<1> QED BY <1>2, <1>3

LEMMA ValueInit == Init => ValueInv
<1> SUFFICES ASSUME Init PROVE ValueInv
  OBVIOUS
<1>1. \A c \in Ctl : Card[c].min \in Int /\ Card[c].max \in Int /\ Card[c].min <= Card[c].max
  BY MixerAssumption
<1>2. value = Silence /\ asked = Silence /\ reading = NoSet /\ call = NoCall BY DEF Init
<1>3. Values(Silence) BY <1>1 DEF Values, Silence, Slot
<1>4. Ranged BY <1>1, <1>2 DEF Ranged, Silence, Slot, InRange
<1> QED BY <1>2, <1>3, <1>4 DEF ValueInv, Pending, LastCall, Agreed, NoCall

\* What the kernel's write of all values of control c leaves: it takes them all or
\* none.
LEMMA Written ==
    ASSUME ValueInv, NEW c \in Ctl, NEW ev \in [Slot(c) -> Int], NEW want \in [Slot(c) -> Int],
           NEW op, NEW i, NEW arg, Write(c, ev, want, op, i, arg)
    PROVE  /\ call'.op = op /\ call'.c = c /\ call'.i = i /\ call'.arg = arg
           /\ \/ value'[c] = ev /\ asked'[c] = want /\ call'.ret = 0
              \/ value'[c] = value[c] /\ asked'[c] = asked[c] /\ call'.ret = -1
           /\ (\A k \in Slot(c) : ev[k] \in InRange(Card[c])) => call'.ret = 0
           /\ \A d \in Ctl \ {c} : value'[d] = value[d] /\ asked'[d] = asked[d]
           /\ Values(value)' /\ Values(asked)' /\ Ranged'
           /\ UNCHANGED <<pc, ename>>
<1> DEFINE taken == \A k \in Slot(c) : ev[k] \in InRange(Card[c])
<1>1. /\ value' = IF taken THEN [value EXCEPT ![c] = ev] ELSE value
      /\ asked' = IF taken THEN [asked EXCEPT ![c] = want] ELSE asked
      /\ call' = [op |-> op, c |-> c, i |-> i, arg |-> arg, ret |-> IF taken THEN 0 ELSE -1]
      /\ UNCHANGED <<pc, ename>>
  BY DEF Write, mixer
<1>2. DOMAIN value = Ctl /\ DOMAIN asked = Ctl BY DEF ValueInv, Values
<1>3. CASE taken
  <2>1. value' = [value EXCEPT ![c] = ev] /\ asked' = [asked EXCEPT ![c] = want] BY <1>1, <1>3
  <2>2. value'[c] = ev /\ asked'[c] = want BY <1>2, <2>1
  <2>3. \A d \in Ctl \ {c} : value'[d] = value[d] /\ asked'[d] = asked[d] BY <1>2, <2>1
  <2>4. Values(value)' /\ Values(asked)' BY <1>2, <2>1, <2>2, <2>3 DEF ValueInv, Values
  <2>5. Ranged' BY <1>3, <2>2, <2>3 DEF ValueInv, Ranged
  <2> QED BY <1>1, <1>3, <2>2, <2>3, <2>4, <2>5
<1>4. CASE ~taken
  <2>1. UNCHANGED <<value, asked>> BY <1>1, <1>4
  <2>2. Values(value)' /\ Values(asked)' /\ Ranged' BY <2>1 DEF ValueInv, Values, Ranged
  <2> QED BY <1>1, <1>4, <2>1, <2>2
<1> QED BY <1>3, <1>4

\* mixer_open writes no value, and no call has been made by then.
LEMMA OpenWritesNothing ==
    ASSUME ValueInv, mixer_open \/ mixer_close
    PROVE  ValueInv'
<1>1. UNCHANGED <<value, reading, asked, disturbed, call>> BY DEF mixer_open, mixer_close, controls
<1>2. CASE mixer_open
  <2>1. pc \notin {"open", "closed"}
    BY <1>2 DEF mixer_open, open, ElemList, AllocMixer, AllocArrays, CardInfo, AllocIds, ElemIds,
                ElemInfo, AllocItems, ItemName, Steps
  <2>2. reading = NoSet /\ call.op = "none" BY <2>1 DEF ValueInv, Pending, LastCall
  <2> QED BY <1>1, <2>2 DEF ValueInv, Values, Ranged, Pending, LastCall, Agreed
<1>3. CASE mixer_close
  <2>1. pc = "open" /\ pc' = "closed" /\ reading = NoSet /\ UNCHANGED ename
    BY <1>3 DEF mixer_close, mixer
  <2> QED BY <1>1, <2>1 DEF ValueInv, Values, Ranged, Pending, LastCall, Agreed
<1> QED BY <1>2, <1>3

\* The first ioctl of mixer_ctl_set_value: what is to be written differs from what
\* was read in one value.
LEMMA ReadStep ==
    ASSUME ValueInv, pc = "open", NEW c \in Ctl, NEW i \in Slot(c), NEW v \in Int, NEW op \in {"value", "percent"}, NEW arg,
           SetOne(c, i, v, op, arg),
           op = "percent" => /\ Card[c].type = "INTEGER" /\ arg \in Int
                             /\ v = percent_to_int(Card[c], arg) /\ v \in InRange(Card[c])
    PROVE  ValueInv'
<1> DEFINE ev == [value[c] EXCEPT ![i] = v]
<1>1. /\ reading' = [op |-> op, c |-> c, i |-> i, arg |-> arg, v |-> v, ev |-> ev]
      /\ UNCHANGED <<pc, ename, value, asked, disturbed, call>>
  BY DEF SetOne, Read, mixer
<1>2. value[c] \in [Slot(c) -> Int] BY DEF ValueInv, Values
<1>3. ev \in [Slot(c) -> Int] /\ ev[i] = v /\ \A k \in Slot(c) \ {i} : ev[k] = value[c][k] BY <1>2
<1>4. op = "percent" => \A k \in Slot(c) : ev[k] \in InRange(Card[c])
  BY <1>3 DEF ValueInv, Ranged
<1>5. /\ reading'.op = op /\ reading'.c = c /\ reading'.i = i /\ reading'.arg = arg
      /\ reading'.v = v /\ reading'.ev = ev
  BY <1>1
<1> HIDE DEF ev
<1>6. Pending'
  BY <1>1, <1>3, <1>4, <1>5 DEF Pending, ev
<1> QED BY <1>1, <1>6 DEF ValueInv, Values, Ranged, LastCall, Agreed

LEMMA SetValueStep ==
    ASSUME ValueInv, NEW c \in Ctl, NEW i \in Slot(c), NEW v \in Value, mixer_ctl_set_value(c, i, v)
    PROVE  ValueInv'
<1>1. v \in Int BY MixerAssumption
<1>2. Put(Card[c].type, v) \in Int BY <1>1 DEF Put
<1> QED BY <1>2, ReadStep DEF mixer_ctl_set_value

LEMMA SetPercentStep ==
    ASSUME ValueInv, NEW c \in Ctl, NEW i \in Slot(c), NEW p \in Percent, mixer_ctl_set_percent(c, i, p)
    PROVE  ValueInv'
<1>1. p \in Int /\ Card[c].min \in Int /\ Card[c].max \in Int BY MixerAssumption
<1>2. Card[c].type = "INTEGER" /\ pc = "open" /\ SetOne(c, i, percent_to_int(Card[c], p), "percent", p)
  BY DEF mixer_ctl_set_percent
<1>3. percent_to_int(Card[c], p) \in Card[c].min..Card[c].max BY <1>1, PercentConverts
<1>4. percent_to_int(Card[c], p) \in Int BY <1>1, <1>3
<1>5. percent_to_int(Card[c], p) \in InRange(Card[c]) BY <1>2, <1>3 DEF InRange
<1> QED BY <1>1, <1>2, <1>4, <1>5, ReadStep

\* The second ioctl of mixer_ctl_set_value.
LEMMA ElemWriteStep ==
    ASSUME ValueInv, ElemWrite
    PROVE  ValueInv'
<1>0. PICK c, i, ev, v, arg, op :
        c = reading.c /\ i = reading.i /\ ev = reading.ev /\ v = reading.v /\ arg = reading.arg /\ op = reading.op
  OBVIOUS
<1> DEFINE want == [asked[c] EXCEPT ![i] = v]
<1>1. /\ reading # NoSet /\ reading' = NoSet /\ UNCHANGED disturbed
      /\ Write(c, ev, want, op, i, arg)
  BY <1>0 DEF ElemWrite
<1>2. /\ pc = "open" /\ op \in {"value", "percent"}
      /\ c \in Ctl /\ i \in Slot(c) /\ v \in Int /\ ev \in [Slot(c) -> Int] /\ ev[i] = v
      /\ c \notin disturbed => ev = [value[c] EXCEPT ![i] = v]
      /\ op = "percent" => /\ Card[c].type = "INTEGER" /\ arg \in Int
                           /\ v = percent_to_int(Card[c], arg)
                           /\ \A k \in Slot(c) : ev[k] \in InRange(Card[c])
  BY <1>0, <1>1 DEF ValueInv, Pending
<1>3. asked[c] \in [Slot(c) -> Int] BY <1>2 DEF ValueInv, Values
<1>4. want \in [Slot(c) -> Int] /\ want[i] = v BY <1>2, <1>3
<1> HIDE DEF want
<1>5. /\ call'.op = op /\ call'.c = c /\ call'.i = i /\ call'.arg = arg
      /\ \/ value'[c] = ev /\ asked'[c] = want /\ call'.ret = 0
         \/ value'[c] = value[c] /\ asked'[c] = asked[c] /\ call'.ret = -1
      /\ op = "percent" => call'.ret = 0
      /\ \A d \in Ctl \ {c} : value'[d] = value[d] /\ asked'[d] = asked[d]
      /\ Values(value)' /\ Values(asked)' /\ Ranged'
      /\ UNCHANGED <<pc, ename>>
  BY <1>1, <1>2, <1>4, Written
<1>6. LastCall' BY <1>2, <1>4, <1>5 DEF LastCall
<1>7. Agreed'
  <2>1. c \notin disturbed => value[c] = asked[c] BY <1>2 DEF ValueInv, Agreed
  <2>2. c \notin disturbed => value'[c] = asked'[c] BY <1>2, <1>5, <2>1 DEF want
  <2> QED BY <1>1, <1>5, <2>2 DEF ValueInv, Agreed
<1> QED BY <1>1, <1>5, <1>6, <1>7 DEF ValueInv, Pending

LEMMA SetArrayStep ==
    ASSUME ValueInv, NEW c \in Ctl, NEW a \in Array, mixer_ctl_set_array(c, a)
    PROVE  ValueInv'
<1>1. a \in Seq(Int) /\ Card[c].count \in Nat \ {0} BY MixerAssumption
<1>2. value[c] \in [Slot(c) -> Int] BY DEF ValueInv, Values
<1> DEFINE ev == [k \in DOMAIN value[c] |-> IF k < Len(a) THEN a[k + 1] ELSE 0]
<1>3. ev \in [Slot(c) -> Int] BY <1>1, <1>2 DEF Slot
<1>4. pc = "open" /\ reading = NoSet /\ Write(c, ev, ev, "array", 0, 0) /\ UNCHANGED <<reading, disturbed>>
  BY DEF mixer_ctl_set_array
<1> HIDE DEF ev
<1>5. /\ call'.op = "array" /\ call'.c = c /\ call'.i = 0
      /\ \/ value'[c] = ev /\ asked'[c] = ev /\ call'.ret = 0
         \/ value'[c] = value[c] /\ asked'[c] = asked[c] /\ call'.ret = -1
      /\ \A d \in Ctl \ {c} : value'[d] = value[d] /\ asked'[d] = asked[d]
      /\ Values(value)' /\ Values(asked)' /\ Ranged'
      /\ UNCHANGED <<pc, ename>>
  BY <1>3, <1>4, Written
<1>6. 0 \in Slot(c) BY <1>1 DEF Slot
<1>7. LastCall' BY <1>4, <1>5, <1>6 DEF LastCall
<1> QED BY <1>4, <1>5, <1>7 DEF ValueInv, Pending, Agreed

LEMMA SetEnumStep ==
    ASSUME OpenInv, ValueInv, NEW c \in Ctl, NEW string, mixer_ctl_set_enum_by_string(c, string)
    PROVE  ValueInv'
<1>1. Card[c].names \in Seq(Name) /\ Card[c].count \in Nat \ {0} BY MixerAssumption
<1>2. value[c] \in [Slot(c) -> Int] BY DEF ValueInv, Values
<1>3. ename[c] \in Seq(Name) /\ Len(ename[c]) <= Len(Card[c].names) BY DEF OpenInv, Named
<1>4. /\ pc = "open" /\ reading = NoSet /\ Card[c].type = "ENUMERATED" /\ UNCHANGED <<reading, disturbed>>
  BY DEF mixer_ctl_set_enum_by_string
<1>5. PICK k \in 1..Len(ename[c]) :
        /\ ename[c][k] = string
        /\ LET ev == [j \in DOMAIN value[c] |-> IF j = 0 THEN k - 1 ELSE 0]
           IN  Write(c, ev, ev, "enum", 0, string)
  BY DEF mixer_ctl_set_enum_by_string
<1> DEFINE ev == [j \in DOMAIN value[c] |-> IF j = 0 THEN k - 1 ELSE 0]
<1>6. 0 \in Slot(c) BY <1>1 DEF Slot
<1>7. ev \in [Slot(c) -> Int] /\ ev[0] = k - 1 BY <1>2, <1>3, <1>6
<1>8. \A j \in Slot(c) : ev[j] \in InRange(Card[c])
  <2>1. Len(Card[c].names) \in Nat /\ Len(ename[c]) \in Nat BY <1>1, <1>3
  <2>2. k - 1 \in 0..(Len(Card[c].names) - 1) /\ 0 \in 0..(Len(Card[c].names) - 1) BY <1>3, <2>1
  <2>3. InRange(Card[c]) = 0..(Len(Card[c].names) - 1) BY <1>4 DEF InRange
  <2> QED BY <1>2, <2>2, <2>3
<1>9. Write(c, ev, ev, "enum", 0, string) BY <1>5
<1> HIDE DEF ev
<1>10. /\ call'.op = "enum" /\ call'.c = c /\ call'.i = 0 /\ call'.arg = string
       /\ value'[c] = ev /\ asked'[c] = ev /\ call'.ret = 0
       /\ \A d \in Ctl \ {c} : value'[d] = value[d] /\ asked'[d] = asked[d]
       /\ Values(value)' /\ Values(asked)' /\ Ranged'
       /\ UNCHANGED <<pc, ename>>
  BY <1>7, <1>8, <1>9, Written
<1>11. LastCall' BY <1>4, <1>5, <1>6, <1>7, <1>10 DEF LastCall
<1> QED BY <1>4, <1>10, <1>11 DEF ValueInv, Pending, Agreed

LEMMA OtherSetsStep ==
    ASSUME ValueInv, NEW c \in Ctl, NEW i \in Slot(c), NEW v \in Value, OtherSets(c, i, v)
    PROVE  ValueInv'
<1>1. v \in Int BY MixerAssumption
<1>2. value[c] \in [Slot(c) -> Int] /\ asked[c] \in [Slot(c) -> Int] BY DEF ValueInv, Values
<1> DEFINE ev == [value[c] EXCEPT ![i] = v]
           want == [asked[c] EXCEPT ![i] = v]
<1>3. ev \in [Slot(c) -> Int] /\ want \in [Slot(c) -> Int] BY <1>1, <1>2
<1>4. /\ pc = "open" /\ UNCHANGED reading /\ Write(c, ev, want, "other", i, v)
      /\ disturbed' = disturbed \union IF reading # NoSet /\ reading.c = c THEN {c} ELSE {}
  BY DEF OtherSets
<1>5. value[c] = asked[c] => ev = want OBVIOUS
<1> HIDE DEF ev, want
<1>6. /\ call'.op = "other" /\ call'.c = c /\ call'.i = i
      /\ \/ value'[c] = ev /\ asked'[c] = want /\ call'.ret = 0
         \/ value'[c] = value[c] /\ asked'[c] = asked[c] /\ call'.ret = -1
      /\ \A d \in Ctl \ {c} : value'[d] = value[d] /\ asked'[d] = asked[d]
      /\ Values(value)' /\ Values(asked)' /\ Ranged'
      /\ UNCHANGED <<pc, ename>>
  BY <1>3, <1>4, Written
<1>7. LastCall' BY <1>4, <1>6 DEF LastCall
<1>8. Pending'
  <2>1. CASE reading = NoSet BY <1>4, <2>1 DEF Pending
  <2>2. CASE reading # NoSet
    <3>1. reading.c \notin disturbed' => reading.c \in Ctl \ {c} /\ reading.c \notin disturbed
      BY <1>4, <2>2 DEF ValueInv, Pending
    <3>2. reading.c \notin disturbed' => value'[reading.c] = value[reading.c]
      BY <1>6, <3>1
    <3> QED BY <1>4, <1>6, <2>2, <3>1, <3>2 DEF ValueInv, Pending
  <2> QED BY <2>1, <2>2
<1>9. Agreed' BY <1>4, <1>5, <1>6 DEF ValueInv, Agreed
<1> QED BY <1>6, <1>7, <1>8, <1>9 DEF ValueInv

LEMMA ValueStep == OpenInv /\ ValueInv /\ [Next]_vars => ValueInv'
<1> SUFFICES ASSUME OpenInv, ValueInv, [Next]_vars PROVE ValueInv'
  OBVIOUS
<1>1. CASE mixer_open \/ mixer_close BY <1>1, OpenWritesNothing
<1>2. CASE ElemWrite BY <1>2, ElemWriteStep
<1>3. ASSUME NEW c \in Ctl, NEW i \in DOMAIN value[c],
             \/ \E v \in Value : mixer_ctl_set_value(c, i, v) \/ OtherSets(c, i, v)
             \/ \E p \in Percent : mixer_ctl_set_percent(c, i, p)
      PROVE  ValueInv'
  <2>1. i \in Slot(c) BY <1>3 DEF ValueInv, Values
  <2> QED BY <1>3, <2>1, SetValueStep, OtherSetsStep, SetPercentStep
<1>4. ASSUME NEW c \in Ctl, NEW a \in Array, mixer_ctl_set_array(c, a) PROVE ValueInv'
  BY <1>4, SetArrayStep
<1>5. ASSUME NEW c \in Ctl, NEW string \in Name, mixer_ctl_set_enum_by_string(c, string) PROVE ValueInv'
  BY <1>5, SetEnumStep
<1>6. CASE UNCHANGED vars
  BY <1>6 DEF vars, controls, mixer, ValueInv, Values, Ranged, Pending, LastCall, Agreed
<1> QED BY <1>1, <1>2, <1>3, <1>4, <1>5, <1>6 DEF Next

\* What the calls have left in the card, at every moment.
THEOREM Setting == Spec => []ValueInv
BY ValueInit, ValueStep, Opening, PTL DEF Spec

\* Each value of each control is the last one it was set to, for every card and
\* however the calls of this and of another process follow one another; no
\* percentage is refused, whatever the range.
THEOREM LastSet == Spec => []LastSetHolds
<1>1. ValueInv => LastSetHolds
  <2> SUFFICES ASSUME ValueInv PROVE LastSetHolds
    OBVIOUS
  <2>1. ASSUME call.op = "percent" PROVE PercentReaches
    <3>0. PICK c, i, p : c = call.c /\ i = call.i /\ p = call.arg OBVIOUS
    <3>1. /\ call.ret = 0 /\ c \in Ctl /\ p \in Int /\ Card[c].type = "INTEGER"
          /\ value[c][i] = percent_to_int(Card[c], p)
      BY <2>1, <3>0 DEF ValueInv, LastCall
    <3>2. mixer_ctl_get_percent(c, i) = int_to_percent(Card[c], percent_to_int(Card[c], p))
      BY <3>1 DEF mixer_ctl_get_percent, mixer_ctl_get_value
    <3>3. p <= 0 => mixer_ctl_get_percent(c, i) = 0
      BY <3>1, <3>2, PercentConverts, PercentReadsBack
    <3>4. p >= 100 /\ Card[c].min < Card[c].max => mixer_ctl_get_percent(c, i) = 100
      BY <3>1, <3>2, PercentConverts, PercentReadsBack
    <3> QED BY <3>0, <3>1, <3>3, <3>4 DEF PercentReaches
  <2>2. ASSUME call.op = "array", call.ret = 0, Card[call.c].type # "IEC958"
        PROVE  mixer_ctl_get_array(call.c, Card[call.c].count) = asked[call.c]
    <3>0. PICK c : c = call.c OBVIOUS
    <3>1. c \in Ctl /\ value[c] = asked[c] /\ value[c] \in [Slot(c) -> Int]
      BY <2>2, <3>0 DEF ValueInv, LastCall, Values
    <3> QED BY <2>2, <3>0, <3>1 DEF mixer_ctl_get_array, Slot
  <2> QED BY <2>1, <2>2 DEF LastSetHolds, PercentReaches, ValueInv, LastCall, Agreed
<1> QED BY <1>1, Setting, PTL

\* An item that was chosen by its name is the one the card gives that name.
THEOREM NamedItem == Spec => []NamedItemChosen
<1>1. OpenInv /\ ValueInv => NamedItemChosen
  <2> SUFFICES ASSUME OpenInv, ValueInv, call.op = "enum" PROVE NamedItemChosen
    BY DEF NamedItemChosen
  <2>0. PICK c, string : c = call.c /\ string = call.arg OBVIOUS
  <2>1. call.ret = 0 /\ c \in Ctl /\ Card[c].type = "ENUMERATED"
    BY <2>0 DEF ValueInv, LastCall
  <2>2. PICK k \in 1..Len(ename[c]) : ename[c][k] = string /\ value[c][0] = k - 1
    BY <2>0 DEF ValueInv, LastCall
  <2>3. ename[c] \in Seq(Name) /\ ename[c][k] = Card[c].names[k]
    BY <2>1, <2>2 DEF OpenInv, Named
  <2>4. mixer_ctl_get_value(c, 0) = k - 1 BY <2>1, <2>2 DEF mixer_ctl_get_value
  <2>5. (k - 1) + 1 = k BY <2>2, <2>3
  <2> QED BY <2>0, <2>1, <2>2, <2>3, <2>4, <2>5 DEF NamedItemChosen, mixer_ctl_get_enum_string
<1> QED BY <1>1, Opening, Setting, PTL
-----------------------------------------------------------------------------
(* Types.                                                                  *)

\* What the two invariants above do not say of the types.
Handle ==
    /\ fds \subseteq 0..1 /\ card_fd \in -1..1 /\ fd \in 0..1
    /\ pc \in Steps \union {"none", "open", "failed", "closed"}
    /\ at \in Steps \union {"none"}
    /\ n \in 0..(Len(Card) + 1) /\ count \in 0..Len(Card)
    /\ info \subseteq Ctl /\ ename \in [Ctl -> Seq(Name)]
    /\ disturbed \subseteq Ctl /\ calls \in 0..MaxCall

\* The end of a control, and of the last one.
LEMMA ContinueHandle ==
    ASSUME Handle, NEW c \in 0..(Len(Card) + 1), NEW held, Continue(c, held), info' \subseteq Ctl,
           ename' \in [Ctl -> Seq(Name)], UNCHANGED <<fd, count, disturbed, calls>>
    PROVE  Handle'
BY DEF Continue, Handle, Steps

\* The steps of mixer_open keep what they collect in the size of the card.
LEMMA OpenHandle ==
    ASSUME OpenInv, Handle, mixer_open
    PROVE  Handle'
<1>0. Len(Card) \in Nat BY MixerAssumption
<1>1. UNCHANGED <<disturbed, calls>> BY DEF mixer_open, controls
<1>2. CASE open
  <2>1. UNCHANGED <<mem, n, at, mixer>> BY <1>2 DEF open
  <2>2. pc' \in {"list", "failed"} BY <1>2 DEF open
  <2>3. fds' \subseteq 0..1 /\ card_fd' \in -1..1
    <3>1. CASE fds' = fds \union {1} /\ card_fd' = 1 BY <3>1 DEF Handle
    <3>2. CASE UNCHANGED <<fds, card_fd>> BY <3>2 DEF Handle
    <3> QED BY <1>2, <3>1, <3>2 DEF open
  <2> QED BY <1>1, <2>1, <2>2, <2>3 DEF Handle, Steps, mixer
<1>3. CASE ElemList BY <1>1, <1>3 DEF ElemList, Goto, Handle, Steps, mixer
<1>4. CASE AllocMixer BY <1>1, <1>4 DEF AllocMixer, Goto, Handle, Steps, mixer
<1>5. CASE AllocArrays BY <1>1, <1>5 DEF AllocArrays, Fail, Goto, Handle, Steps, mixer
<1>6. CASE CardInfo BY <1>1, <1>6 DEF CardInfo, Goto, Handle, Steps, mixer
<1>7. CASE AllocIds
  <2>1. card_fd = 1 BY <1>7 DEF AllocIds, OpenInv, Descriptors, Blank
  <2> QED BY <1>0, <1>1, <1>7, <2>1 DEF AllocIds, Goto, Handle, Steps
<1>8. CASE ElemIds
  <2>1. Continue(1, mem) /\ UNCHANGED mixer BY <1>8 DEF ElemIds
  <2> QED BY <1>0, <1>1, <2>1, ContinueHandle DEF mixer, Handle
<1>9. CASE ElemInfo
  <2>1. n \in Ctl /\ n + 1 \in 0..(Len(Card) + 1)
    BY <1>0, <1>9 DEF ElemInfo, OpenInv, Collected, Ctl
  <2>2. info' \subseteq Ctl /\ UNCHANGED <<fd, count, ename>> /\ ename' \in [Ctl -> Seq(Name)]
    BY <1>9, <2>1 DEF ElemInfo, Handle
  <2>3. CASE Continue(n + 1, mem) BY <1>1, <2>1, <2>2, <2>3, ContinueHandle
  <2>4. CASE Goto("items") BY <1>1, <2>2, <2>4 DEF Goto, Handle, Steps
  <2> QED BY <1>9, <2>3, <2>4 DEF ElemInfo
<1>10. CASE AllocItems BY <1>1, <1>10 DEF AllocItems, Goto, Handle, Steps, mixer
<1>11. CASE ItemName
  <2> DEFINE k == Len(ename[n]) + 1
             name == Card[n].names[Asked(k)]
  <2>1. n \in Ctl /\ n + 1 \in 0..(Len(Card) + 1) /\ ename[n] \in Seq(Name) /\ Len(ename[n]) < Len(Card[n].names)
    BY <1>0, <1>11 DEF ItemName, OpenInv, Collected, Named, Ctl
  <2>2. k \in 1..Len(Card[n].names) BY <2>1, MixerAssumption
  <2>3. name \in Name BY <2>1, <2>2, MixerAssumption DEF Asked
  <2>4. /\ ename' = [ename EXCEPT ![n] = Append(@, name)]
        /\ \/ Continue(n + 1, mem \union {Item(n, k)})
           \/ Goto("names")
        /\ UNCHANGED <<fd, count, info>>
    BY <1>11 DEF ItemName
  <2> HIDE DEF name, k
  <2>5. Append(ename[n], name) \in Seq(Name) BY <2>1, <2>3
  <2>6. ename' \in [Ctl -> Seq(Name)] BY <2>1, <2>4, <2>5 DEF Handle
  <2>7. info' \subseteq Ctl BY <2>4 DEF Handle
  <2>8. CASE Continue(n + 1, mem \union {Item(n, k)})
    BY <1>1, <2>1, <2>4, <2>6, <2>7, <2>8, ContinueHandle
  <2>9. CASE Goto("names") BY <1>1, <2>4, <2>6, <2>7, <2>9 DEF Goto, Handle, Steps
  <2> QED BY <2>4, <2>8, <2>9
<1>12. CASE pc \in Steps /\ Fail(mem) BY <1>1, <1>12 DEF Fail, Handle, Steps, mixer
<1> QED BY <1>2, <1>3, <1>4, <1>5, <1>6, <1>7, <1>8, <1>9, <1>10, <1>11, <1>12 DEF mixer_open

\* The setters leave the handle alone and count their writes.
LEMMA HandleStep == OpenInv /\ ValueInv /\ Handle /\ [Next]_vars => Handle'
<1> SUFFICES ASSUME OpenInv, ValueInv, Handle, [Next]_vars PROVE Handle'
  OBVIOUS
<1>1. CASE mixer_open BY <1>1, OpenHandle
<1>2. CASE mixer_close BY <1>2 DEF mixer_close, Handle, mixer, controls
<1>3. ASSUME NEW c, NEW ev, NEW want, NEW op, NEW i, NEW arg, Write(c, ev, want, op, i, arg),
             disturbed' \subseteq Ctl
      PROVE  Handle'
  BY <1>3, MixerAssumption DEF Write, Handle, process, mixer
<1>4. disturbed \subseteq Ctl BY DEF Handle
<1>5. CASE ElemWrite BY <1>3, <1>4, <1>5 DEF ElemWrite
<1>6. ASSUME NEW c \in Ctl, NEW i, NEW v, mixer_ctl_set_value(c, i, v) PROVE Handle'
  BY <1>6 DEF mixer_ctl_set_value, SetOne, Read, Handle, process, mixer
<1>7. ASSUME NEW c \in Ctl, NEW i, NEW p, mixer_ctl_set_percent(c, i, p) PROVE Handle'
  BY <1>7 DEF mixer_ctl_set_percent, SetOne, Read, Handle, process, mixer
<1>8. ASSUME NEW c \in Ctl, NEW i, NEW v, OtherSets(c, i, v) PROVE Handle'
  BY <1>3, <1>4, <1>8 DEF OtherSets
<1>9. ASSUME NEW c \in Ctl, NEW a, mixer_ctl_set_array(c, a) PROVE Handle'
  BY <1>3, <1>4, <1>9 DEF mixer_ctl_set_array
<1>10. ASSUME NEW c \in Ctl, NEW string, mixer_ctl_set_enum_by_string(c, string) PROVE Handle'
  BY <1>3, <1>4, <1>10 DEF mixer_ctl_set_enum_by_string
<1>11. CASE UNCHANGED vars BY <1>11 DEF vars, process, mixer, controls, Handle
<1> QED BY <1>1, <1>2, <1>5, <1>6, <1>7, <1>8, <1>9, <1>10, <1>11 DEF Next

\* The handle, the values of the card and the call between its ioctls keep their
\* types: count and the control mixer_open is in stay within the card, the value a
\* call is to write is one of its control's.
THEOREM MixerTypes == Spec => []TypeOK
<1>1. Init => Handle
  <2> SUFFICES ASSUME Init PROVE Handle
    OBVIOUS
  <2>1. Len(Card) \in Nat /\ MaxCall \in Nat BY MixerAssumption
  <2>2. ename \in [Ctl -> Seq(Name)]
    <3>1. <<>> \in Seq(Name) OBVIOUS
    <3> QED BY <3>1 DEF Init
  <2> QED BY <2>1, <2>2 DEF Init, Handle
<1>2. Handle /\ ValueInv => TypeOK
  <2> SUFFICES ASSUME Handle, ValueInv PROVE TypeOK
    OBVIOUS
  <2>1. \A c \in Ctl : /\ DOMAIN value[c] = 0..(Card[c].count - 1)
                       /\ \A i \in DOMAIN value[c] : value[c][i] \in Int
    BY DEF ValueInv, Values, Slot
  <2>2. reading = NoSet \/ reading.i \in DOMAIN value[reading.c]
    BY <2>1 DEF ValueInv, Pending, Slot
  <2> QED BY <2>1, <2>2 DEF Handle, TypeOK
<1> QED BY <1>1, <1>2, HandleStep, Opening, Setting, PTL DEF Spec
=============================================================================
