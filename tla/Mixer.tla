-------------------------------- MODULE Mixer --------------------------------
(***************************************************************************)
(* speech/src/mixer.c: a handle on the controls of a sound card.           *)
(* mixer_open collects what the kernel says of each control, any step of   *)
(* it may fail, and mixer_close releases what it collected.  The setters   *)
(* convert a value and write all values of a control at once.              *)
(*                                                                         *)
(* The kernel is external: it keeps the values of the card's controls and  *)
(* refuses values out of range.  Another process may set values at any     *)
(* time, also between the two ioctls of mixer_ctl_set_value.               *)
(***************************************************************************)
EXTENDS Integers, Sequences

CONSTANTS Card,      \* its controls, each a record of type, count (of values),
                     \* min, max, and names, those of an enumeration's items
          Value,     \* values a client sets
          Percent,   \* percentages a client sets
          Array,     \* arrays a client sets
          MaxCall    \* bound: calls that write

Type == {"BOOLEAN", "INTEGER", "ENUMERATED", "BYTES", "IEC958"}
Ctl == 1..Len(Card)
Name == UNION {{Card[c].names[k] : k \in 1..Len(Card[c].names)} : c \in Ctl}

ASSUME MixerAssumption ==
    /\ Len(Card) \in Nat
    /\ \A c \in Ctl : /\ Card[c].names \in Seq(Name)
                      /\ Card[c].type \in Type /\ Card[c].count \in Nat \ {0}
                      /\ Card[c].min \in Int /\ Card[c].max \in Int
                      /\ Card[c].min <= Card[c].max
                      /\ Card[c].type = "ENUMERATED" <=> Card[c].names # <<>>
    /\ Value \subseteq Int /\ Percent \subseteq Int
    /\ \A a \in Array : a \in Seq(Int)
    /\ MaxCall \in Nat

VARIABLES
    fds, mem,          \* the process: its descriptors, what it has allocated
    pc, n,             \* mixer_open: where it is, in which control
    card_fd, at,       \* mixer_open: fd; the step that failed
    fd, count, info,   \* struct mixer: fd, count, the controls with ctl[].info
    ename,             \* the names in ctl[].ename
    value,             \* the card
    reading,           \* the call of mixer_ctl_set_value between its two ioctls
    asked, disturbed,  \* history: what the values were asked to be; the controls
                       \* another process set between those two ioctls
    call, calls        \* the last call that wrote, and how many have

process == <<fds, mem>>
mixer == <<fd, count, info, ename>>
controls == <<value, reading, asked, disturbed, call, calls>>
vars == <<process, pc, n, card_fd, at, mixer, controls>>

Steps == {"list", "mixer", "arrays", "card_info", "eid", "pids", "elem", "items", "names"}
NoSet == [op |-> "none"]
NoCall == [op |-> "none", c |-> 1, i |-> 0, arg |-> 0, ret |-> 0]

\* Blocks of memory.
Block(kind) == <<kind, 0, 0>>
Enames(c) == <<"ename", c, 0>>
Item(c, k) == <<"name", c, k>>

TypeOK ==
    /\ fds \subseteq 0..1 /\ card_fd \in -1..1 /\ fd \in 0..1
    /\ pc \in Steps \union {"none", "open", "failed", "closed"}
    /\ at \in Steps \union {"none"}
    /\ n \in 0..(Len(Card) + 1) /\ count \in 0..Len(Card)
    /\ info \subseteq Ctl /\ ename \in [Ctl -> Seq(Name)]
    /\ \A c \in Ctl : /\ DOMAIN value[c] = 0..(Card[c].count - 1)
                      /\ \A i \in DOMAIN value[c] : value[c][i] \in Int
    /\ reading = NoSet \/ reading.i \in DOMAIN value[reading.c]
    /\ disturbed \subseteq Ctl /\ calls \in 0..MaxCall

Silence == [c \in Ctl |-> [i \in 0..(Card[c].count - 1) |-> Card[c].min]]

\* Descriptor 0 is the process's standard input.
Init ==
    /\ fds = {0} /\ mem = {}
    /\ pc = "none" /\ n = 0 /\ card_fd = -1 /\ at = "none"
    /\ fd = 0 /\ count = 0 /\ info = {} /\ ename = [c \in Ctl |-> <<>>]
    /\ value = Silence /\ asked = value /\ reading = NoSet /\ disturbed = {}
    /\ call = NoCall /\ calls = 0
-----------------------------------------------------------------------------
(* mixer_open, step by step.                                               *)

\* Mutant of Reached: the names of the items are forgotten.
ReachedShallow(held) ==
    {Block("mixer"), Block("ctl"), Block("elem_info")} \union
    {Enames(c) : c \in 1..count}

\* What mixer_close frees of what is held.
Reached(held) ==
    {Block("mixer"), Block("ctl"), Block("elem_info")} \union
    IF Block("ctl") \notin held THEN {}
    ELSE UNION {{Enames(c)} \union {Item(c, k) : k \in 1..Len(Card[c].names)} :
                c \in {b \in 1..count : Enames(b) \in held}}

\* fail: what is held and descriptor card_fd.  mixer_close closes mixer->fd, which
\* calloc made 0.
Fail(held) ==
    /\ pc' = "failed" /\ at' = pc
    /\ IF Block("mixer") \in held
       THEN /\ fds' = fds \ {fd}
            /\ mem' = held \ (Reached(held) \union {Block("eid")})
       ELSE /\ fds' = fds \ {card_fd}
            /\ mem' = held \ {Block("eid")}
    /\ UNCHANGED <<n, card_fd, mixer>>

Goto(step) == pc' = step /\ UNCHANGED <<fds, n, card_fd, at>>
Allocate(blocks) == mem' = mem \union blocks

open ==
    /\ pc = "none"
    /\ \/ pc' = "list" /\ fds' = fds \union {1} /\ card_fd' = 1
       \/ pc' = "failed" /\ UNCHANGED <<fds, card_fd>>
    /\ UNCHANGED <<mem, n, at, mixer>>

ElemList ==
    /\ pc = "list"
    /\ Goto("mixer") /\ UNCHANGED <<mem, mixer>>

AllocMixer ==
    /\ pc = "mixer"
    /\ Goto("arrays") /\ Allocate({Block("mixer")})
    /\ UNCHANGED mixer

\* Both are tried before either is looked at.
AllocArrays ==
    /\ pc = "arrays"
    /\ \/ /\ Goto("card_info") /\ Allocate({Block("ctl"), Block("elem_info")})
          /\ UNCHANGED mixer
       \/ \E got \in {"ctl", "elem_info"} : Fail(mem \union {Block(got)})

CardInfo ==
    /\ pc = "card_info"
    /\ Goto("eid") /\ UNCHANGED <<mem, mixer>>

AllocIds ==
    /\ pc = "eid"
    /\ Goto("pids") /\ Allocate({Block("eid")})
    /\ count' = Len(Card) /\ fd' = card_fd
    /\ UNCHANGED <<info, ename>>

\* Control c is next, or there is none left and eid is freed.
Continue(c, held) ==
    /\ n' = c
    /\ IF c <= count THEN pc' = "elem" /\ mem' = held
       ELSE pc' = "open" /\ mem' = held \ {Block("eid")}
    /\ UNCHANGED <<fds, card_fd, at>>

ElemIds == pc = "pids" /\ Continue(1, mem) /\ UNCHANGED mixer

ElemInfo ==
    /\ pc = "elem"
    /\ info' = info \union {n}
    /\ IF Card[n].type = "ENUMERATED" THEN Goto("items") /\ UNCHANGED mem
       ELSE Continue(n + 1, mem)
    /\ UNCHANGED <<fd, count, ename>>

AllocItems ==
    /\ pc = "items"
    /\ Goto("names") /\ Allocate({Enames(n)})
    /\ UNCHANGED mixer

\* Mutant of Asked: the item after it, for which the kernel takes the last at most.
AskedLate(k) == IF k < Len(Card[n].names) THEN k + 1 ELSE k

\* The item whose name is asked for as the k-th.
Asked(k) == k

ItemName ==
    /\ pc = "names"
    /\ LET k == Len(ename[n]) + 1
       IN  /\ ename' = [ename EXCEPT ![n] = Append(@, Card[n].names[Asked(k)])]
           /\ IF k = Len(Card[n].names) THEN Continue(n + 1, mem \union {Item(n, k)})
              ELSE Goto("names") /\ Allocate({Item(n, k)})
    /\ UNCHANGED <<fd, count, info>>

mixer_open ==
    /\ \/ open \/ ElemList \/ AllocMixer \/ AllocArrays \/ CardInfo \/ AllocIds
       \/ ElemIds \/ ElemInfo \/ AllocItems \/ ItemName
       \/ pc \in Steps /\ Fail(mem)
    /\ UNCHANGED controls

mixer_close ==
    /\ pc = "open" /\ reading = NoSet /\ pc' = "closed"
    /\ fds' = fds \ {fd}
    /\ mem' = mem \ Reached(mem)
    /\ UNCHANGED <<n, card_fd, at, mixer, controls>>
-----------------------------------------------------------------------------
(* Values.                                                                 *)

EINVAL == -22

Clamp(p) == IF p > 100 THEN 100 ELSE IF p < 0 THEN 0 ELSE p

percent_to_int(e, p) == e.min + ((e.max - e.min) * Clamp(p)) \div 100

int_to_percent(e, v) ==
    IF e.max = e.min THEN 0 ELSE ((v - e.min) \div (e.max - e.min)) * 100

\* How a value is put in struct snd_ctl_elem_value.
Put(type, v) ==
    CASE type = "BOOLEAN" -> IF v = 0 THEN 0 ELSE 1
      [] type = "BYTES"   -> v % 256
      [] OTHER            -> v

mixer_ctl_get_value(c, i) ==
    CASE Card[c].type = "BOOLEAN" -> IF value[c][i] = 0 THEN 0 ELSE 1
      [] Card[c].type = "IEC958"  -> EINVAL
      [] OTHER                    -> value[c][i]

\* The channel status is never read.
mixer_ctl_get_array(c, m) ==
    [i \in 0..(m - 1) |-> IF Card[c].type = "IEC958" THEN 0 ELSE value[c][i]]

mixer_ctl_get_percent(c, i) == int_to_percent(Card[c], mixer_ctl_get_value(c, i))
mixer_ctl_get_enum_string(c, item) == ename[c][item + 1]

\* The values the kernel takes for a control.
InRange(e) ==
    CASE e.type = "BOOLEAN"    -> 0..1
      [] e.type = "INTEGER"    -> e.min..e.max
      [] e.type = "ENUMERATED" -> 0..(Len(e.names) - 1)
      [] OTHER                 -> 0..255

\* SNDRV_CTL_IOCTL_ELEM_WRITE of all values of c, in a call that was to give them
\* the values want.
Write(c, ev, want, op, i, arg) ==
    LET taken == \A k \in DOMAIN ev : ev[k] \in InRange(Card[c])
    IN  /\ value' = IF taken THEN [value EXCEPT ![c] = ev] ELSE value
        /\ asked' = IF taken THEN [asked EXCEPT ![c] = want] ELSE asked
        /\ call' = [op |-> op, c |-> c, i |-> i, arg |-> arg, ret |-> IF taken THEN 0 ELSE -1]
        /\ calls < MaxCall /\ calls' = calls + 1
        /\ UNCHANGED <<process, pc, n, card_fd, at, mixer>>

\* The first ioctl of mixer_ctl_set_value has read the values; ev is what the
\* second is to write.
Read(c, i, v, ev, op, arg) ==
    /\ reading' = [op |-> op, c |-> c, i |-> i, arg |-> arg, v |-> v, ev |-> ev]
    /\ UNCHANGED <<process, pc, n, card_fd, at, mixer, value, asked, disturbed, call, calls>>

\* Mutant of SetOne: the other values are not read.
SetOneOfNone(c, i, v, op, arg) ==
    Read(c, i, v, [k \in DOMAIN value[c] |-> IF k = i THEN v ELSE 0], op, arg)

\* mixer_ctl_set_value: read all, change one.
SetOne(c, i, v, op, arg) ==
    Read(c, i, v, [value[c] EXCEPT ![i] = v], op, arg)

\* A call with an index or of a type that is refused changes nothing.
mixer_ctl_set_value(c, i, v) ==
    /\ pc = "open" /\ reading = NoSet
    /\ i < Card[c].count /\ Card[c].type # "IEC958"
    /\ SetOne(c, i, Put(Card[c].type, v), "value", v)

mixer_ctl_set_percent(c, i, p) ==
    /\ pc = "open" /\ reading = NoSet
    /\ Card[c].type = "INTEGER" /\ i < Card[c].count
    /\ SetOne(c, i, percent_to_int(Card[c], p), "percent", p)

\* The second ioctl of mixer_ctl_set_value.
ElemWrite ==
    /\ reading # NoSet /\ reading' = NoSet
    /\ Write(reading.c, reading.ev, [asked[reading.c] EXCEPT ![reading.i] = reading.v],
             reading.op, reading.i, reading.arg)
    /\ UNCHANGED disturbed

\* The values after those of the array become 0; what a client that sends fewer
\* asks them to be is not said.
mixer_ctl_set_array(c, a) ==
    /\ pc = "open" /\ reading = NoSet /\ Card[c].type # "ENUMERATED"
    /\ Len(a) \in 1..Card[c].count
    /\ LET ev == [k \in DOMAIN value[c] |-> IF k < Len(a) THEN a[k + 1] ELSE 0]
       IN  Write(c, ev, ev, "array", 0, 0)
    /\ UNCHANGED <<reading, disturbed>>

\* The first item of that name, in the first value; the others become 0.
mixer_ctl_set_enum_by_string(c, string) ==
    /\ pc = "open" /\ reading = NoSet /\ Card[c].type = "ENUMERATED"
    /\ \E k \in 1..Len(ename[c]) :
        /\ ename[c][k] = string /\ \A j \in 1..(k - 1) : ename[c][j] # string
        /\ LET ev == [j \in DOMAIN value[c] |-> IF j = 0 THEN k - 1 ELSE 0]
           IN  Write(c, ev, ev, "enum", 0, string)
    /\ UNCHANGED <<reading, disturbed>>

\* Another process sets one value.
OtherSets(c, i, v) ==
    /\ pc = "open" /\ v \in InRange(Card[c])
    /\ Write(c, [value[c] EXCEPT ![i] = v], [asked[c] EXCEPT ![i] = v], "other", i, v)
    /\ disturbed' = disturbed \union IF reading # NoSet /\ reading.c = c THEN {c} ELSE {}
    /\ UNCHANGED reading

Next ==
    \/ mixer_open \/ mixer_close \/ ElemWrite
    \/ \E c \in Ctl :
        \/ \E i \in DOMAIN value[c] :
            \/ \E v \in Value : mixer_ctl_set_value(c, i, v) \/ OtherSets(c, i, v)
            \/ \E p \in Percent : mixer_ctl_set_percent(c, i, p)
        \/ \E a \in Array : mixer_ctl_set_array(c, a)
        \/ \E string \in Name : mixer_ctl_set_enum_by_string(c, string)

Spec == Init /\ [][Next]_vars
-----------------------------------------------------------------------------
(* Properties.                                                             *)

\* A mixer_open that fails, at whatever step and with whatever it has collected
\* by then, and a mixer_close leave no block allocated, and close the card's
\* descriptor and no other.  The exception: when mixer_open fails between the
\* allocation of the handle and the assignment of its fd (lines 113 to 130)
\* mixer_close closes descriptor 0.
NothingHeld ==
    pc \in {"failed", "closed"} =>
        /\ mem = {}
        /\ at \notin {"arrays", "card_info", "eid"} => fds = {0}

\* The kernel refuses no percentage, and the ends of the range read back as 0 and
\* as 100.
PercentReaches ==
    call.op = "percent" =>
        /\ call.ret = 0
        /\ call.arg <= 0 => mixer_ctl_get_percent(call.c, call.i) = 0
        /\ call.arg >= 100 /\ Card[call.c].min < Card[call.c].max =>
               mixer_ctl_get_percent(call.c, call.i) = 100

\* However setters of this and of another process follow one another, each value
\* of each control is the last one it was set to: mixer_ctl_set_value changes the
\* value it is for and no other.  Only where the other process wrote to the same
\* control between the read and the write of a call is its value lost, and then
\* too the own value of a call that succeeds is the one it was given.  A percentage
\* is never refused, and an array that was set is read back, unless it is a channel
\* status.
LastSetHolds ==
    /\ \A c \in Ctl \ disturbed : value[c] = asked[c]
    /\ call.op \in {"value", "percent"} /\ call.ret = 0 =>
           value[call.c][call.i] = asked[call.c][call.i]
    /\ PercentReaches
    /\ call.op = "array" /\ call.ret = 0 /\ Card[call.c].type # "IEC958" =>
           mixer_ctl_get_array(call.c, Card[call.c].count) = asked[call.c]

\* An item chosen by its name is the one the card calls so: the names mixer_open
\* has collected are in the order of the items.
NamedItemChosen ==
    call.op = "enum" =>
        LET item == mixer_ctl_get_value(call.c, 0)
        IN  /\ call.ret = 0 /\ Card[call.c].names[item + 1] = call.arg
            /\ mixer_ctl_get_enum_string(call.c, item) = call.arg
=============================================================================
