--------------------------- MODULE SseStream_proofs ---------------------------
(***************************************************************************)
(* Proofs about SseStream, for any number of messages and any bound of the *)
(* writer: the types, that a healthy stream withholds nothing, that the    *)
(* backlog is bounded, and that OrderedStream is implemented.  Everything  *)
(* rests on two facts: the messages on the wire are 1, 2, ... and those in *)
(* the buffer follow them, and the writer's counter is exact.              *)
(***************************************************************************)
EXTENDS SseStream, SequenceLemmas

USE NAssumption, MaxOutstandingAssumption

-----------------------------------------------------------------------------
(* The inductive invariant *)

\* k consecutive messages after the first n.
Run(n, k) == [i \in 1 .. k |-> n + i]

\* The messages on the wire are the first ones; those in the buffer follow.
Consecutive ==
  /\ Written = Run(0, Len(Written))
  /\ ~stuck => pending = Run(Len(Written), Len(pending))
  /\ \A i \in 1 .. Len(pending) : pending[i] \notin bad

\* The confirmation comes before them, and nothing is buffered after it settled.
Confirmed ==
  /\ (Events = <<>> /\ Written = <<>>) \/ Events = <<Confirmation>> \o Written
  /\ pc \in {"subscribing", "subscribed"} => Events = <<>>
  /\ pc = "ready" => Events # <<>> /\ pending = <<>>

\* What is reported is the first message that cannot be represented.
Reported ==
  Reports = <<>> \/ \E b \in bad : Reports = <<b>> /\ \A j \in 1 .. b - 1 : j \notin bad

\* Until the handler's flag is set every message is accounted for.
Flag ==
  /\ stuck \/ Reports # <<>> => disconnected
  /\ ~disconnected => received = Len(Written) + Len(pending)

\* The writer's counter is the number of unsettled messages.
Counter == outstanding = Len(Backlog)

Inv == TypeOK /\ Consecutive /\ Confirmed /\ Reported /\ Flag /\ Counter

-----------------------------------------------------------------------------
(* Runs of consecutive messages *)

\* What a run is, and its first j messages.
LEMMA RunIsSeq ==
  ASSUME NEW n \in Nat, NEW k \in Nat
  PROVE  /\ Run(n, k) \in Seq(Nat) /\ Len(Run(n, k)) = k
         /\ \A i \in 1 .. k : Run(n, k)[i] = n + i
         /\ \A j \in 0 .. k : SubSeq(Run(n, k), 1, j) = Run(n, j)
BY DEF Run

\* A run and the run that follows it.
LEMMA RunsJoin ==
  ASSUME NEW n \in Nat, NEW j \in Nat, NEW k \in Nat
  PROVE  Run(n, j) \o Run(n + j, k) = Run(n, j + k)
<1> DEFINE a == Run(n, j)
           b == Run(n + j, k)
           c == Run(n, j + k)
<1>1. /\ a \in Seq(Nat) /\ Len(a) = j /\ \A i \in 1 .. j : a[i] = n + i
      /\ b \in Seq(Nat) /\ Len(b) = k /\ \A i \in 1 .. k : b[i] = (n + j) + i
      /\ c \in Seq(Nat) /\ Len(c) = j + k /\ \A i \in 1 .. j + k : c[i] = n + i
  <2>1. n + j \in Nat /\ j + k \in Nat
    OBVIOUS
  <2> QED
    BY <2>1, RunIsSeq
<1> HIDE DEF a, b, c
<1>2. /\ a \o b \in Seq(Nat) /\ Len(a \o b) = j + k
      /\ \A i \in 1 .. Len(a \o b) : \/ i \in 1 .. Len(a) /\ (a \o b)[i] = a[i]
                                     \/ /\ i > Len(a) /\ i - Len(a) \in 1 .. Len(b)
                                        /\ (a \o b)[i] = b[i - Len(a)]
  BY <1>1, Joined
<1> DEFINE d == a \o b
<1> HIDE DEF d
<1>3. ASSUME NEW i \in 1 .. Len(d) PROVE d[i] = c[i]
  <2>1. i \in Nat /\ i <= j + k /\ i >= 1
    BY <1>2 DEF d
  <2>2. CASE i \in 1 .. j /\ d[i] = a[i]
    BY <1>1, <2>1, <2>2
  <2>3. CASE i > j /\ i - j \in 1 .. k /\ d[i] = b[i - j]
    <3>1. (n + j) + (i - j) = n + i
      BY <2>1
    <3> QED
      BY <1>1, <2>1, <2>3, <3>1
  <2> QED
    BY <1>1, <1>2, <2>2, <2>3 DEF d
<1>4. d = c
  BY <1>1, <1>2, <1>3, SameSeq DEF d
<1> QED
  BY <1>4 DEF a, b, c, d

\* The elements of a sequence that is a run over S.
LEMMA RunOver ==
  ASSUME NEW S, NEW n \in Nat, NEW k \in Nat
  PROVE  Run(n, k) \in Seq(S) <=> \A i \in 1 .. k : n + i \in S
<1>1. ASSUME Run(n, k) \in Seq(S) PROVE \A i \in 1 .. k : n + i \in S
  <2> DEFINE r == Run(n, k)
  <2>1. r \in Seq(S) /\ Len(r) = k /\ \A i \in 1 .. k : r[i] = n + i
    BY <1>1, RunIsSeq
  <2> HIDE DEF r
  <2>2. \A i \in 1 .. k : r[i] \in S
    BY <2>1
  <2> QED
    BY <2>1, <2>2
<1>2. ASSUME \A i \in 1 .. k : n + i \in S PROVE Run(n, k) \in Seq(S)
  BY <1>2 DEF Run
<1> QED
  BY <1>1, <1>2

-----------------------------------------------------------------------------
(* The parts of the wire *)

\* What is kept of the wire.
LEMMA Parts ==
  ASSUME TypeOK
  PROVE  /\ bad \subseteq Messages /\ Confirmation \notin Messages
         /\ Written \in Seq(Messages \ bad) /\ Len(Written) \in Nat
         /\ Events \in Seq((Messages \cup {Confirmation}) \ bad) /\ Len(Events) \in Nat
         /\ Reports \in Seq(bad)
         /\ \A n \in 0 .. Len(wire) :
              Len(Keep(SubSeq(wire, n + 1, Len(wire)), Messages \ bad)) \in Nat
<1> DEFINE E == Messages \cup {Confirmation}
<1>1. wire \in Seq(E) /\ bad \subseteq Messages /\ Confirmation \notin Messages
  BY DEF TypeOK, Confirmation, Messages
<1>2. /\ E \cap (Messages \ bad) = Messages \ bad
      /\ E \cap (E \ bad) = E \ bad /\ E \cap bad = bad
  BY <1>1
<1> HIDE DEF E
<1>3. /\ Keep(wire, Messages \ bad) \in Seq(E \cap (Messages \ bad))
      /\ Keep(wire, E \ bad) \in Seq(E \cap (E \ bad))
      /\ Keep(wire, bad) \in Seq(E \cap bad)
  BY <1>1, KeepProperties
<1>4. /\ Written \in Seq(Messages \ bad) /\ Reports \in Seq(bad)
      /\ Events \in Seq((Messages \cup {Confirmation}) \ bad)
  BY <1>2, <1>3 DEF Written, Events, Reports, E
<1>5. ASSUME NEW n \in 0 .. Len(wire)
      PROVE  Len(Keep(SubSeq(wire, n + 1, Len(wire)), Messages \ bad)) \in Nat
  <2> DEFINE rest == SubSeq(wire, n + 1, Len(wire))
             kept == Keep(rest, Messages \ bad)
  <2>1. rest \in Seq(E)
    BY <1>1, CutFront
  <2> HIDE DEF rest
  <2>2. kept \in Seq(E \cap (Messages \ bad))
    BY <2>1, KeepProperties
  <2> HIDE DEF kept
  <2>3. Len(kept) \in Nat
    BY <2>2
  <2> QED
    BY <2>3 DEF kept, rest
<1> QED
  BY <1>1, <1>4, <1>5

\* The messages whose writes would be unsettled after n have settled.
Unsettled(n) == Keep(SubSeq(wire, n + 1, Len(wire)), Messages \ bad)

\* More messages, and then error events, are written.
LEMMA Grows ==
  ASSUME TypeOK, NEW x \in Seq(Messages \ bad), NEW y \in Seq(bad),
         wire' = (wire \o x) \o y, bad' = bad, settled' \in 0 .. Len(wire)
  PROVE  /\ Written' = Written \o x /\ Events' = Events \o x /\ Reports' = Reports \o y
         /\ Len(Backlog') = Len(Unsettled(settled')) + Len(x)
         /\ wire' \in Seq(Messages \cup {Confirmation}) /\ Len(wire') >= Len(wire)
<1> DEFINE E == Messages \cup {Confirmation}
<1>1. /\ wire \in Seq(E) /\ x \in Seq(E) /\ y \in Seq(E) /\ bad \subseteq Messages
      /\ Confirmation \notin Messages
  <2>1. wire \in Seq(E) /\ Messages \ bad \subseteq E /\ bad \subseteq E /\ bad \subseteq Messages
    BY Parts DEF TypeOK
  <2> QED
    BY <2>1, SeqMonotonic, Parts
<1>2. /\ \A i \in 1 .. Len(x) : x[i] \in Messages \ bad
      /\ \A i \in 1 .. Len(y) : y[i] \in bad
  OBVIOUS
<1>3. /\ Keep(x, Messages \ bad) = x /\ Keep(x, E \ bad) = x /\ Keep(x, bad) = <<>>
      /\ Keep(y, Messages \ bad) = <<>> /\ Keep(y, E \ bad) = <<>> /\ Keep(y, bad) = y
  <2>1. /\ \A i \in 1 .. Len(x) : x[i] \in E \ bad /\ x[i] \notin bad
        /\ \A i \in 1 .. Len(y) : y[i] \notin E \ bad /\ y[i] \notin Messages \ bad
    BY <1>2
  <2> HIDE DEF E
  <2> QED
    BY <1>1, <1>2, <2>1, KeepAll, KeepNone
<1> HIDE DEF E
<1>4. ASSUME NEW w \in Seq(E), NEW S
      PROVE  Keep((w \o x) \o y, S) = (Keep(w, S) \o Keep(x, S)) \o Keep(y, S)
  <2>1. w \o x \in Seq(E)
    BY <1>1
  <2>2. \A q \in Seq(E), r \in Seq(E) : Keep(q \o r, S) = Keep(q, S) \o Keep(r, S)
    BY KeepConcat
  <2> QED
    BY <1>1, <2>1, <2>2
<1>5. \A S, q : q \in Seq(S) => q \o <<>> = q
  OBVIOUS
<1>6. /\ Written \in Seq(E) /\ Events \in Seq(E) /\ Reports \in Seq(E)
  <2>1. /\ Messages \ bad \subseteq E /\ (Messages \cup {Confirmation}) \ bad \subseteq E
        /\ bad \subseteq E
    BY <1>1 DEF E
  <2> QED
    BY <2>1, Parts, SeqMonotonic
<1>7. Written' = Written \o x
  <2>1. Written' = (Written \o x) \o <<>>
    BY <1>1, <1>3, <1>4 DEF Written
  <2>2. Written \o x \in Seq(E)
    BY <1>1, <1>6
  <2> QED
    BY <1>5, <2>1, <2>2
<1>8. Events' = Events \o x
  <2>1. Events' = (Events \o x) \o <<>>
    BY <1>1, <1>3, <1>4 DEF Events, E
  <2>2. Events \o x \in Seq(E)
    BY <1>1, <1>6
  <2> QED
    BY <1>5, <2>1, <2>2
<1>9. Reports' = Reports \o y
  <2>1. Reports' = (Reports \o <<>>) \o y
    BY <1>1, <1>3, <1>4 DEF Reports
  <2> QED
    BY <1>5, <1>6, <2>1
<1>10. Len(Backlog') = Len(Unsettled(settled')) + Len(x)
  <2> DEFINE rest == SubSeq(wire, settled' + 1, Len(wire))
             kept == Keep(rest, Messages \ bad)
  <2>1. rest \in Seq(E)
    BY <1>1, CutFront
  <2>2. SubSeq(wire', settled' + 1, Len(wire')) = (rest \o x) \o y
    <3>1. wire \o x \in Seq(E) /\ settled' \in 0 .. Len(wire \o x)
      BY <1>1, Joined
    <3>2. SubSeq(wire', settled' + 1, Len(wire'))
            = SubSeq(wire \o x, settled' + 1, Len(wire \o x)) \o y
      BY <1>1, <3>1, CutJoined
    <3>3. SubSeq(wire \o x, settled' + 1, Len(wire \o x)) = rest \o x
      BY <1>1, CutJoined
    <3> QED
      BY <3>2, <3>3
  <2> HIDE DEF rest
  <2>3. kept \in Seq(E \cap (Messages \ bad))
    BY <2>1, KeepProperties
  <2>4. Backlog' = (kept \o x) \o <<>>
    BY <1>3, <1>4, <2>1, <2>2 DEF Backlog
  <2> HIDE DEF kept
  <2>5. kept \in Seq(E) /\ kept \o x \in Seq(E)
    <3>1. E \cap (Messages \ bad) \subseteq E
      OBVIOUS
    <3>2. kept \in Seq(E)
      BY <2>3, <3>1, SeqMonotonic
    <3> QED
      BY <1>1, <3>2
  <2>6. Backlog' = kept \o x
    BY <1>5, <2>4, <2>5
  <2>7. Len(Backlog') = Len(kept) + Len(x)
    BY <1>1, <2>5, <2>6
  <2> QED
    BY <2>7 DEF kept, rest, Unsettled
<1>11. wire' \in Seq(E) /\ Len(wire') >= Len(wire)
  <2>1. wire \o x \in Seq(E) /\ Len(wire \o x) = Len(wire) + Len(x) /\ Len(x) \in Nat
    BY <1>1, Joined
  <2>2. wire' \in Seq(E) /\ Len(wire') = Len(wire \o x) + Len(y) /\ Len(y) \in Nat
    BY <1>1, <2>1, Joined
  <2> QED
    BY <1>1, <2>1, <2>2
<1> QED
  BY <1>7, <1>8, <1>9, <1>10, <1>11 DEF E

-----------------------------------------------------------------------------
(* What writing does to the parts *)

\* k more messages, in their order, and then error events.
LEMMA Advances ==
  ASSUME Inv, NEW k \in Nat, Run(Len(Written), k) \in Seq(Messages \ bad), NEW y \in Seq(bad),
         wire' = (wire \o Run(Len(Written), k)) \o y, bad' = bad, settled' \in 0 .. Len(wire)
  PROVE  /\ Written' = Run(0, Len(Written) + k) /\ Len(Written') = Len(Written) + k
         /\ Events' = Events \o Run(Len(Written), k) /\ Reports' = Reports \o y
         /\ Events # <<>> => Events' # <<>> /\ Events' = <<Confirmation>> \o Written'
         /\ Len(Backlog') = Len(Unsettled(settled')) + k
         /\ wire' \in Seq(Messages \cup {Confirmation}) /\ settled' \in 0 .. Len(wire')
<1> DEFINE n == Len(Written)
           x == Run(n, k)
<1>1. /\ TypeOK /\ n \in Nat /\ Written = Run(0, n) /\ Written \in Seq(Messages \ bad)
      /\ Events \in Seq((Messages \cup {Confirmation}) \ bad)
      /\ Events # <<>> => Events = <<Confirmation>> \o Written
  BY Parts DEF Inv, Consecutive, Confirmed
<1>2. x \in Seq(Messages \ bad) /\ Len(x) = k
  BY <1>1, RunIsSeq
<1>3. /\ Written' = Written \o x /\ Events' = Events \o x /\ Reports' = Reports \o y
      /\ Len(Backlog') = Len(Unsettled(settled')) + Len(x)
      /\ wire' \in Seq(Messages \cup {Confirmation}) /\ Len(wire') >= Len(wire)
  BY <1>1, <1>2, Grows
<1>4. Written' = Run(0, n + k) /\ n + k \in Nat
  <2>1. 0 + n = n /\ n + k \in Nat
    BY <1>1
  <2>2. Run(0, n) \o Run(0 + n, k) = Run(0, n + k)
    BY <1>1, RunsJoin
  <2> QED
    BY <1>1, <1>3, <2>1, <2>2
<1>5. Len(Written') = n + k
  BY <1>4, RunIsSeq
<1> HIDE DEF x
<1>6. Events # <<>> => Events' # <<>> /\ Events' = <<Confirmation>> \o Written'
  <2>1. /\ <<Confirmation>> \in Seq(Messages \cup {Confirmation})
        /\ Written \in Seq(Messages \cup {Confirmation}) /\ x \in Seq(Messages \cup {Confirmation})
    BY <1>1, <1>2
  <2>2. (<<Confirmation>> \o Written) \o x = <<Confirmation>> \o (Written \o x)
    BY <2>1
  <2>3. <<Confirmation>> \o (Written \o x) # <<>>
    BY <2>1
  <2> QED
    BY <1>1, <1>3, <2>2, <2>3
<1>7. settled' \in 0 .. Len(wire')
  BY <1>1, <1>3 DEF TypeOK
<1> QED
  BY <1>2, <1>3, <1>4, <1>5, <1>6, <1>7 DEF x

\* What the bounded writer does with messages that are next in line: it takes
\* the first ones, and all of them unless it is stuck.
LEMMA WriteAllDoes ==
  ASSUME Inv, NEW ms \in Seq(Messages), ~stuck => ms = Run(Len(Written), Len(ms)),
         \A i \in 1 .. Len(ms) : ms[i] \notin bad, WriteAll(ms)
  PROVE  \E k \in Nat :
           /\ Run(Len(Written), k) \in Seq(Messages \ bad)
           /\ wire' = (wire \o Run(Len(Written), k)) \o <<>>
           /\ outstanding' = outstanding + k /\ outstanding' \in 0 .. MaxOutstanding
           /\ {stuck', disconnected', aborted'} \subseteq BOOLEAN
           /\ stuck' => disconnected'
           /\ disconnected => disconnected'
           /\ ~stuck' => k = Len(ms)
<1> DEFINE n == Len(Written)
           room == MaxOutstanding - outstanding
           taken == IF stuck THEN 0 ELSE IF Len(ms) <= room THEN Len(ms) ELSE room
<1>1. /\ n \in Nat /\ Len(ms) \in Nat /\ outstanding \in 0 .. MaxOutstanding
      /\ {stuck, disconnected, aborted} \subseteq BOOLEAN
      /\ wire \in Seq(Messages \cup {Confirmation}) /\ (stuck => disconnected)
  BY Parts DEF Inv, TypeOK, Flag
<1>2. taken \in 0 .. Len(ms) /\ outstanding + taken \in 0 .. MaxOutstanding
  BY <1>1
<1>3. SubSeq(ms, 1, taken) = Run(n, taken)
  <2>1. CASE stuck
    BY <1>1, <2>1 DEF Run
  <2>2. CASE ~stuck
    <3> HIDE DEF taken, n
    <3>1. \A j \in 0 .. Len(ms) : SubSeq(Run(n, Len(ms)), 1, j) = Run(n, j)
      BY <1>1, RunIsSeq
    <3>2. ms = Run(n, Len(ms))
      BY <2>2 DEF n
    <3> QED
      BY <1>2, <3>1, <3>2
  <2> QED
    BY <2>1, <2>2
<1>4. Run(n, taken) \in Seq(Messages \ bad)
  <2>1. SubSeq(ms, 1, taken) \in Seq(Messages \ bad)
    BY <1>1, <1>2
  <2> QED
    BY <1>3, <2>1
<1>5. wire' = wire \o Run(n, taken)
  BY <1>3 DEF WriteAll
<1>6. /\ outstanding' = outstanding + taken
      /\ stuck' = (stuck \/ (~stuck /\ Len(ms) > room))
      /\ disconnected' = (disconnected \/ (~stuck /\ Len(ms) > room))
      /\ aborted' = (aborted \/ (~stuck /\ Len(ms) > room))
  BY DEF WriteAll
<1>7. wire' = (wire \o Run(n, taken)) \o <<>>
  <2> DEFINE x == Run(n, taken)
  <2>1. x \in Seq(Messages \cup {Confirmation})
    BY <1>4
  <2> HIDE DEF x
  <2>2. (wire \o x) \o <<>> = wire \o x
    BY <1>1, <2>1
  <2> QED
    BY <1>5, <2>2 DEF x
<1>8. ~stuck' => taken = Len(ms)
  <2>1. ASSUME ~stuck' PROVE ~stuck /\ ~(Len(ms) > room)
    BY <1>6, <2>1
  <2> QED
    BY <1>1, <2>1
<1>9. /\ {stuck', disconnected', aborted'} \subseteq BOOLEAN
      /\ (stuck' => disconnected') /\ (disconnected => disconnected')
  BY <1>1, <1>6
<1>10. taken \in Nat
  BY <1>2
<1> HIDE DEF taken
<1> QED
  BY <1>2, <1>4, <1>6, <1>7, <1>8, <1>9, <1>10

\* A write settles.
LEMMA Settling ==
  ASSUME TypeOK, settled < Len(wire)
  PROVE  /\ wire[settled + 1] \in Messages \cup {Confirmation}
         /\ settled + 1 \in 0 .. Len(wire) /\ settled + 1 \in 1 .. Len(wire)
         /\ Len(Unsettled(settled + 1)) \in Nat
         /\ Len(Backlog) = Len(Unsettled(settled + 1))
                           + (IF wire[settled + 1] \in Messages \ bad THEN 1 ELSE 0)
<1> DEFINE E == Messages \cup {Confirmation}
           S == Messages \ bad
           e == wire[settled + 1]
           rest == SubSeq(wire, settled + 2, Len(wire))
<1>1. wire \in Seq(E) /\ settled \in Nat /\ Len(wire) \in Nat
  BY DEF TypeOK
<1>2. SubSeq(wire, settled + 1, Len(wire)) = <<e>> \o rest /\ rest \in Seq(E) /\ e \in E
  BY <1>1, CutOne
<1>3. (settled + 1) + 1 = settled + 2 /\ settled + 1 \in 0 .. Len(wire)
  BY <1>1
<1>4. Unsettled(settled + 1) = Keep(rest, S)
  BY <1>3 DEF Unsettled
<1>5. <<e>> \in Seq(E) /\ Len(<<e>>) = 1 /\ <<e>>[1] = e
  BY <1>2
<1>6. /\ e \in S => Keep(<<e>>, S) = <<e>>
      /\ e \notin S => Keep(<<e>>, S) = <<>>
  <2> DEFINE one == <<e>>
  <2>1. one \in Seq(E) /\ \A i \in 1 .. Len(one) : one[i] = e
    BY <1>5
  <2> HIDE DEF e, one, S, E
  <2>2. e \in S => Keep(one, S) = one
    BY <2>1, KeepAll
  <2>3. e \notin S => Keep(one, S) = <<>>
    BY <2>1, KeepNone
  <2> QED
    BY <2>2, <2>3 DEF one
<1>7. Backlog = Keep(<<e>>, S) \o Keep(rest, S)
  <2>1. Backlog = Keep(<<e>> \o rest, S)
    BY <1>2 DEF Backlog
  <2> HIDE DEF e, rest, S, E
  <2> QED
    BY <1>2, <1>5, <2>1, KeepConcat
<1>8. Keep(rest, S) \in Seq(E \cap S)
  <2> HIDE DEF rest, E, S
  <2> QED
    BY <1>2, KeepProperties
<1> DEFINE r == Keep(rest, S)
<1>9. Len(Backlog) = Len(r) + (IF e \in S THEN 1 ELSE 0) /\ Len(r) \in Nat
  <2> HIDE DEF r, rest, e
  <2>1. r \in Seq(E)
    BY <1>8 DEF r
  <2>2. CASE e \in S
    <3>1. Backlog = <<e>> \o r
      BY <1>6, <1>7, <2>2 DEF r
    <3>2. Len(<<e>> \o r) = 1 + Len(r) /\ Len(r) \in Nat
      BY <1>5, <2>1, Joined
    <3> QED
      BY <2>2, <3>1, <3>2
  <2>3. CASE e \notin S
    <3>1. Backlog = <<>> \o r
      BY <1>6, <1>7, <2>3 DEF r
    <3>2. <<>> \o r = r /\ Len(r) \in Nat
      BY <2>1
    <3> QED
      BY <2>3, <3>1, <3>2
  <2> QED
    BY <2>2, <2>3
<1> QED
  BY <1>1, <1>2, <1>3, <1>4, <1>9
-----------------------------------------------------------------------------
(* OrderedStream's steps *)

\* Redis publishes 1, 2, ... in this order.
Published == [i \in Messages |-> i]

StreamStep == [Stream!Next]_<<Published, bad, Events, Reports>>

\* What was published.
LEMMA PublishedIs ==
  Published \in Seq(Messages) /\ Len(Published) = N /\ \A i \in Messages : Published[i] = i
BY DEF Published, Messages

\* The next k messages are delivered, maybe with a report.
LEMMA Delivers ==
  ASSUME Inv, NEW k \in Nat, Run(Len(Written), k) \in Seq(Messages \ bad),
         Events' = Events \o Run(Len(Written), k), bad' = bad,
         k > 0 => Events # <<>>, Reports' = Reports \/ Stream!Report
  PROVE  StreamStep
<1> DEFINE n == Len(Written)
           x == Run(n, k)
<1>1. /\ n \in Nat /\ Written = Run(0, n) /\ Written \in Seq(Messages \ bad)
      /\ Events \in Seq((Messages \cup {Confirmation}) \ bad) /\ Len(Events) \in Nat
      /\ Events # <<>> => Events = <<Confirmation>> \o Written
  BY Parts DEF Inv, Consecutive, Confirmed
<1>2. CASE k = 0
  <2>1. x = <<>>
    BY <1>2 DEF Run
  <2> HIDE DEF x
  <2>2. Events' = Events
    BY <1>1, <2>1 DEF x
  <2>3. Stream!Report => Stream!Next
    BY <2>2 DEF Stream!Next, Stream!Report
  <2> QED
    BY <2>2, <2>3 DEF StreamStep, Published
<1>3. CASE k > 0
  <2>1. Events = <<Confirmation>> \o Written /\ Events # <<>>
    BY <1>1, <1>3
  <2>2. Len(Events) - 1 = n
    <3>1. Written \in Seq(Messages \cup {Confirmation})
      BY <1>1
    <3> HIDE DEF n
    <3>2. Len(<<Confirmation>> \o Written) = 1 + Len(Written)
      BY <3>1
    <3> QED
      BY <1>1, <2>1, <3>2 DEF n
  <2>3. \A i \in 1 .. k : n + i \in Messages \ bad
    BY <1>1, RunOver
  <2>4. \A i \in 1 .. n : 0 + i \in Messages \ bad
    <3>1. Run(0, n) \in Seq(Messages \ bad) /\ 0 \in Nat
      BY <1>1
    <3> HIDE DEF n
    <3> QED
      BY <1>1, <3>1, RunOver
  <2>5. n + k <= N /\ k \in 1 .. N
    <3>0. k \in 1 .. k
      BY <1>3
    <3>1. n + k \in Messages
      BY <2>3, <3>0
    <3> HIDE DEF n
    <3> QED
      BY <1>1, <1>3, <3>1 DEF Messages
  <2>6. \A i \in 1 .. n + k : Published[i] \notin bad
    <3>1. ASSUME NEW i \in 1 .. n + k PROVE i \in Messages \ bad
      <4>1. CASE i <= n
        BY <1>1, <2>4, <4>1
      <4>2. CASE i > n
        <5>1. i - n \in 1 .. k /\ n + (i - n) = i
          BY <1>1, <4>2
        <5> QED
          BY <2>3, <5>1
      <4> QED
        BY <1>1, <4>1, <4>2
    <3> QED
      BY <3>1, PublishedIs
  <2>7. SubSeq(Published, n + 1, n + k) = x
    <3> DEFINE s == SubSeq(Published, n + 1, n + k)
    <3>1. s \in Seq(Messages) /\ Len(s) = k /\ \A i \in 1 .. k : s[i] = Published[n + i]
      BY <1>1, <2>5, PublishedIs
    <3>2. \A i \in 1 .. k : Published[n + i] = n + i
      BY <2>3, PublishedIs
    <3>3. x \in Seq(Messages \ bad) /\ Len(x) = k /\ \A i \in 1 .. k : x[i] = n + i
      BY <1>1, RunIsSeq
    <3> HIDE DEF s, x
    <3>4. s = x
      BY <3>1, <3>2, <3>3, SameSeq
    <3> QED
      BY <3>4 DEF s
  <2> HIDE DEF n, x
  <2>8. Events' = Events \o x
    BY DEF n, x
  <2>9. Stream!Deliver(k)
    BY <2>1, <2>2, <2>5, <2>6, <2>7, <2>8, PublishedIs DEF Stream!Deliver, Published
  <2> QED
    BY <2>5, <2>9, PublishedIs DEF StreamStep, Stream!Next, Published
<1> QED
  BY <1>2, <1>3

\* Until the handler's flag is set, no message received was incompatible.
LEMMA NoGapSoFar ==
  ASSUME Inv, ~disconnected
  PROVE  /\ received = Len(Written) + Len(pending) /\ ~stuck /\ Reports = <<>>
         /\ pending = Run(Len(Written), Len(pending))
         /\ received \in Nat /\ Len(Written) \in Nat /\ Len(pending) \in Nat
         /\ \A j \in 1 .. received : j \in Messages \ bad
<1> DEFINE n == Len(Written)
           m == Len(pending)
<1>1. /\ n \in Nat /\ m \in Nat /\ received = n + m /\ ~stuck /\ Reports = <<>>
      /\ received <= N
      /\ Written = Run(0, n) /\ Written \in Seq(Messages \ bad) /\ pending = Run(n, m)
      /\ \A i \in 1 .. m : pending[i] \notin bad
  BY Parts DEF Inv, Flag, Consecutive, TypeOK
<1>2. \A i \in 1 .. n : 0 + i \in Messages \ bad
  <2>1. Run(0, n) \in Seq(Messages \ bad) /\ 0 \in Nat
    BY <1>1
  <2> HIDE DEF n
  <2> QED
    BY <1>1, <2>1, RunOver
<1>3. \A i \in 1 .. m : pending[i] = n + i
  <2> HIDE DEF n, m
  <2> QED
    BY <1>1, RunIsSeq
<1>4. ASSUME NEW j \in 1 .. received PROVE j \in Messages \ bad
  <2>1. CASE j <= n
    BY <1>1, <1>2, <2>1
  <2>2. CASE j > n
    <3>1. j - n \in 1 .. m /\ n + (j - n) = j /\ j \in Messages
      BY <1>1, <2>2 DEF Messages
    <3>2. pending[j - n] = j
      BY <1>3, <3>1
    <3> QED
      BY <1>1, <3>1, <3>2
  <2> QED
    BY <1>1, <2>1, <2>2
<1> QED
  BY <1>1, <1>4

-----------------------------------------------------------------------------
(* Steps that write nothing *)

\* What is on the wire and in the buffer stays.
LEMMA QuietStep ==
  ASSUME Inv, TypeOK', UNCHANGED <<wire, bad, pending>>, Len(Backlog') = outstanding',
         stuck => stuck', stuck' => disconnected', disconnected => disconnected',
         received' = received \/ disconnected,
         pc' \in {pc, "over"} \/ (pc' = "subscribed" /\ pc = "subscribing")
  PROVE  Inv' /\ StreamStep
<1>1. Written' = Written /\ Events' = Events /\ Reports' = Reports
  BY DEF Written, Events, Reports
<1>2. Consecutive'
  BY <1>1 DEF Inv, Consecutive
<1>3. Confirmed'
  BY <1>1 DEF Inv, Confirmed
<1>4. Reported' /\ Flag' /\ Counter'
  BY <1>1 DEF Inv, Reported, Flag, Counter
<1>5. StreamStep
  BY <1>1 DEF StreamStep, Published
<1> QED
  BY <1>2, <1>3, <1>4, <1>5 DEF Inv

\* The same if nothing settles either.
LEMMA IdleStep ==
  ASSUME Inv, UNCHANGED <<fixed, wire, settled, pending, outstanding, stuck>>,
         received' \in 0 .. N, {disconnected', aborted', dropped'} \subseteq BOOLEAN,
         disconnected => disconnected', received' = received \/ disconnected,
         pc' \in {pc, "over"} \/ (pc' = "subscribed" /\ pc = "subscribing")
  PROVE  Inv' /\ StreamStep
<1>1. TypeOK'
  BY DEF Inv, TypeOK, fixed
<1>2. Len(Backlog') = outstanding'
  BY DEF Inv, Counter, Backlog, fixed
<1> QED
  BY <1>1, <1>2, QuietStep DEF Inv, Flag, fixed

\* The handler's steps, the end of the stream and the loss of Redis.
LEMMA HandlerStep ==
  ASSUME Inv, \/ Subscribed \/ SubscribeFails \/ Ends \/ ClientDisconnects \/ RedisDrops
              \/ UNCHANGED vars
  PROVE  Inv' /\ StreamStep
<1> USE DEF Inv, TypeOK, sink
<1>1. CASE Subscribed \/ SubscribeFails \/ Ends \/ UNCHANGED vars
  BY <1>1, IdleStep DEF Subscribed, SubscribeFails, Ends, vars
<1>2. CASE ClientDisconnects
  <2>1. aborted' \in BOOLEAN /\ disconnected' \in BOOLEAN /\ (disconnected => disconnected')
    BY <1>2 DEF ClientDisconnects, Abort
  <2> QED
    BY <1>2, <2>1, IdleStep DEF ClientDisconnects
<1>3. CASE RedisDrops
  BY <1>3, IdleStep DEF RedisDrops
<1> QED
  BY <1>1, <1>2, <1>3

\* A write settles that is not the confirmation's, or the confirmation's is
\* rejected.
LEMMA SettleStep ==
  ASSUME Inv, \/ ConfirmationRejected \/ ErrorSettles
              \/ \E rejected \in BOOLEAN : MessageSettles(rejected)
  PROVE  Inv' /\ StreamStep
<1> DEFINE e == wire[settled + 1]
<1>1. SettleOne /\ TypeOK
  BY DEF Inv, ConfirmationRejected, ErrorSettles, MessageSettles
<1>2. settled' = settled + 1 /\ settled < Len(wire) /\ UNCHANGED <<kind, bad>>
  BY <1>1 DEF SettleOne, fixed
<1>3. /\ settled + 1 \in 0 .. Len(wire) /\ Len(Unsettled(settled + 1)) \in Nat
      /\ Len(Backlog) = Len(Unsettled(settled + 1)) + (IF e \in Messages \ bad THEN 1 ELSE 0)
  BY <1>1, <1>2, Settling
<1>4. UNCHANGED <<wire, pending, received, dropped>>
  BY DEF ConfirmationRejected, ErrorSettles, MessageSettles, sink
<1>5. Backlog' = Unsettled(settled + 1)
  BY <1>2, <1>4 DEF Backlog, Unsettled
<1>6. outstanding = Len(Backlog) /\ outstanding \in 0 .. MaxOutstanding
      /\ (stuck => disconnected) /\ {stuck, disconnected, aborted, dropped} \subseteq BOOLEAN
  BY <1>1 DEF Inv, Counter, Flag, TypeOK
<1> HIDE DEF e
<1>7. CASE ConfirmationRejected \/ ErrorSettles
  <2>1. e \notin Messages \ bad
    BY <1>7, Parts, <1>1 DEF ConfirmationRejected, ErrorSettles, e
  <2>2. /\ UNCHANGED <<outstanding, stuck>> /\ pc' \in {pc, "over"}
        /\ {disconnected', aborted'} \subseteq BOOLEAN /\ (disconnected => disconnected')
    BY <1>6, <1>7 DEF ConfirmationRejected, ErrorSettles, Abort, sink
  <2>3. Len(Backlog') = outstanding'
    BY <1>3, <1>5, <1>6, <2>1, <2>2
  <2>4. TypeOK'
    BY <1>1, <1>2, <1>3, <1>4, <1>6, <2>2 DEF TypeOK
  <2> QED
    BY <1>2, <1>4, <1>6, <2>2, <2>3, <2>4, QuietStep
<1>8. ASSUME NEW rejected \in BOOLEAN, MessageSettles(rejected) PROVE Inv' /\ StreamStep
  <2>1. e \in Messages \ bad
    BY <1>8 DEF MessageSettles, e
  <2>2. /\ outstanding' = outstanding - 1 /\ UNCHANGED <<pc, aborted>>
        /\ stuck' = (stuck \/ rejected) /\ disconnected' = (disconnected \/ rejected)
    BY <1>8 DEF MessageSettles
  <2>3. Len(Backlog') = outstanding' /\ outstanding' \in 0 .. MaxOutstanding
    BY <1>3, <1>5, <1>6, <2>1, <2>2
  <2>4. /\ stuck' \in BOOLEAN /\ disconnected' \in BOOLEAN /\ (disconnected => disconnected')
        /\ (stuck' => disconnected') /\ (stuck => stuck')
    BY <1>6, <2>2
  <2>5. TypeOK'
    BY <1>1, <1>2, <1>3, <1>4, <2>2, <2>3, <2>4 DEF TypeOK
  <2> QED
    BY <1>2, <1>4, <2>2, <2>3, <2>4, <2>5, QuietStep
<1> QED
  BY <1>7, <1>8

-----------------------------------------------------------------------------
(* Steps that write *)

\* The confirmation is written, before anything else but a report.
LEMMA ConfirmStep == ASSUME Inv, Confirms PROVE Inv' /\ StreamStep
<1> DEFINE E == Messages \cup {Confirmation}
           c == <<Confirmation>>
<1>1. /\ TypeOK /\ pc = "subscribed" /\ Events = <<>> /\ Written = <<>>
      /\ wire \in Seq(E) /\ settled \in 0 .. Len(wire) /\ Confirmation \notin bad
      /\ UNCHANGED <<kind, bad, received, pending, settled, outstanding, stuck,
                     disconnected, aborted, dropped>>
  <2>1. TypeOK /\ pc = "subscribed" /\ Events = <<>>
    BY DEF Inv, Confirmed, Confirms
  <2>2. Written = <<>>
    <3>1. Events = c \o Written => Events # <<>>
      <4>1. Written \in Seq(E) /\ c \in Seq(E)
        BY <2>1, Parts
      <4> QED
        BY <4>1
    <3> QED
      BY <2>1, <3>1 DEF Inv, Confirmed
  <2>3. Confirmation \notin bad /\ wire \in Seq(E) /\ settled \in 0 .. Len(wire)
    BY <2>1, Parts DEF TypeOK
  <2> QED
    BY <2>1, <2>2, <2>3 DEF Confirms, fixed
<1>2. CASE wire' = wire /\ pc' = "over"
  <2>1. {disconnected', aborted', dropped'} \subseteq BOOLEAN /\ received' \in 0 .. N
    BY <1>1 DEF TypeOK
  <2> QED
    BY <1>1, <1>2, <2>1, IdleStep DEF fixed
<1>3. CASE wire' = Append(wire, Confirmation) /\ pc' = "confirming"
  <2>1. c \in Seq(E) /\ wire' = wire \o c /\ Len(c) = 1 /\ c[1] = Confirmation
    BY <1>1, <1>3
  <2>2. /\ Keep(c, Messages \ bad) = <<>> /\ Keep(c, bad) = <<>> /\ Keep(c, E \ bad) = c
    <3>1. /\ \A i \in 1 .. Len(c) : c[i] \notin Messages \ bad /\ c[i] \notin bad
          /\ \A i \in 1 .. Len(c) : c[i] \in E \ bad
      BY <1>1, <2>1, Parts
    <3> HIDE DEF c, E
    <3> QED
      BY <2>1, <3>1, KeepAll, KeepNone
  <2> HIDE DEF c, E
  <2>3. \A S : \A q \in Seq(E) : Keep(q \o c, S) = Keep(q, S) \o Keep(c, S)
    BY <2>1, KeepConcat
  <2>4. \A S, q : q \in Seq(S) => q \o <<>> = q
    OBVIOUS
  <2>5. Written' = Written /\ Reports' = Reports
    <3>1. Written' = Written \o <<>> /\ Reports' = Reports \o <<>>
      BY <1>1, <2>1, <2>2, <2>3 DEF Written, Reports
    <3> QED
      BY <1>1, <2>4, <3>1, Parts
  <2>6. Events' = c /\ Events' = <<Confirmation>> \o Written'
    <3>1. Events' = Events \o c
      BY <1>1, <2>1, <2>2, <2>3 DEF Events, E
    <3>2. <<>> \o c = c /\ c \o <<>> = c
      BY <2>1
    <3> QED
      BY <1>1, <2>5, <3>1, <3>2 DEF c
  <2>7. Backlog' = Backlog
    <3> DEFINE rest == SubSeq(wire, settled + 1, Len(wire))
    <3>1. SubSeq(wire', settled + 1, Len(wire')) = rest \o c /\ rest \in Seq(E)
      BY <1>1, <2>1, CutJoined, CutFront
    <3> HIDE DEF rest
    <3>2. Backlog' = Keep(rest, Messages \ bad) \o <<>>
      BY <1>1, <2>2, <2>3, <3>1 DEF Backlog
    <3>3. Keep(rest, Messages \ bad) \in Seq(E \cap (Messages \ bad))
      BY <3>1, KeepProperties
    <3> QED
      BY <2>4, <3>2, <3>3 DEF Backlog, rest
  <2>8. TypeOK'
    <3>1. wire' \in Seq(E) /\ Len(wire) \in Nat /\ Len(wire') = Len(wire) + 1
      <4>1. wire \o c \in Seq(E) /\ Len(wire) \in Nat /\ Len(wire \o c) = Len(wire) + Len(c)
        BY <1>1, <2>1, Joined
      <4> QED
        BY <2>1, <4>1
    <3>2. settled' \in 0 .. Len(wire')
      BY <1>1, <3>1
    <3>3. wire' \in Seq(Messages \cup {Confirmation})
      BY <3>1 DEF E
    <3> QED
      BY <1>1, <1>3, <3>2, <3>3 DEF TypeOK
  <2>9. Events' # <<>>
    BY <2>1, <2>6
  <2>10. Consecutive' /\ Reported' /\ Flag' /\ Counter'
    BY <1>1, <2>5, <2>7 DEF Inv, Consecutive, Reported, Flag, Counter
  <2>11. Confirmed'
    BY <1>3, <2>6, <2>9 DEF Confirmed
  <2>12. StreamStep
    BY <1>1, <2>5, <2>6 DEF StreamStep, Stream!Next, Stream!Confirm, Published, c
  <2> QED
    BY <2>8, <2>10, <2>11, <2>12 DEF Inv
<1> QED
  BY <1>2, <1>3 DEF Confirms

\* The next messages are written, and then maybe the report of the first that
\* is incompatible; the buffer holds what follows.
LEMMA WriteStep ==
  ASSUME Inv, NEW k \in Nat, Run(Len(Written), k) \in Seq(Messages \ bad), NEW y \in Seq(bad),
         wire' = (wire \o Run(Len(Written), k)) \o y,
         UNCHANGED fixed, settled' \in 0 .. Len(wire),
         outstanding' = Len(Unsettled(settled')) + k, outstanding' \in 0 .. MaxOutstanding,
         {stuck', disconnected', aborted', dropped'} \subseteq BOOLEAN, received' \in 0 .. N,
         pc' \in {"subscribed", "confirming", "ready"}, pending' \in Seq(Messages),
         k > 0 \/ pc' = "ready" => Events # <<>>,
         pc' = "subscribed" => Events = <<>>,
         pc' = "ready" => pending' = <<>>,
         ~stuck' => pending' = Run(Len(Written) + k, Len(pending')),
         \A i \in 1 .. Len(pending') : pending'[i] \notin bad,
         stuck' => disconnected', disconnected => disconnected',
         ~disconnected' => received' = Len(Written) + k + Len(pending'),
         \/ y = <<>>
         \/ \E b \in bad : /\ y = <<b>> /\ Reports = <<>> /\ disconnected'
                           /\ \A j \in 1 .. b - 1 : j \notin bad
  PROVE  Inv' /\ StreamStep
<1> DEFINE n == Len(Written)
           x == Run(n, k)
<1>1. /\ bad' = bad /\ kind' = kind /\ TypeOK /\ n \in Nat /\ Reports \in Seq(bad)
      /\ bad \subseteq Messages
  BY Parts DEF Inv, fixed
<1>2. /\ Written' = Run(0, n + k) /\ Len(Written') = n + k
      /\ Events' = Events \o x /\ Reports' = Reports \o y
      /\ Events # <<>> => Events' # <<>> /\ Events' = <<Confirmation>> \o Written'
      /\ Len(Backlog') = Len(Unsettled(settled')) + k
      /\ wire' \in Seq(Messages \cup {Confirmation}) /\ settled' \in 0 .. Len(wire')
  BY <1>1, Advances
<1>3. TypeOK'
  BY <1>1, <1>2 DEF TypeOK
<1>4. /\ Events = <<>> => k = 0 /\ Events' = <<>> /\ Written' = <<>>
  <2>1. ASSUME Events = <<>> PROVE k = 0 /\ Events' = <<>> /\ Written' = <<>>
    <3>1. k = 0
      BY <2>1
    <3>2. x = <<>> /\ <<>> \o <<>> = <<>>
      BY <3>1 DEF Run
    <3>3. Written = <<>>
      <4>1. Written \in Seq(Messages \cup {Confirmation})
        BY <1>1, Parts
      <4>2. <<Confirmation>> \o Written # <<>>
        BY <4>1
      <4> QED
        BY <2>1, <4>2 DEF Inv, Confirmed
    <3>4. n + k = 0
      BY <3>1, <3>3
    <3>5. Written' = <<>>
      BY <1>2, <3>4 DEF Run
    <3> QED
      BY <1>2, <2>1, <3>1, <3>2, <3>5
  <2> QED
    BY <2>1
<1> HIDE DEF x
<1>5. Consecutive'
  BY <1>1, <1>2 DEF Consecutive
<1>6. Confirmed'
  BY <1>2, <1>4 DEF Confirmed
<1>7. Counter'
  BY <1>2 DEF Counter
<1>8. CASE y = <<>>
  <2>1. Reports' = Reports
    BY <1>1, <1>2, <1>8
  <2>2. Reported' /\ Flag'
    BY <1>1, <1>2, <2>1 DEF Inv, Reported, Flag
  <2>3. StreamStep
    BY <1>1, <1>2, <2>1, Delivers DEF x
  <2> QED
    BY <1>3, <1>5, <1>6, <1>7, <2>2, <2>3 DEF Inv
<1>9. ASSUME NEW b \in bad, y = <<b>>, Reports = <<>>, disconnected',
             \A j \in 1 .. b - 1 : j \notin bad
      PROVE  Inv' /\ StreamStep
  <2>1. Reports' = <<b>>
    <3>1. <<>> \o <<b>> = <<b>>
      OBVIOUS
    <3> QED
      BY <1>2, <1>9, <3>1
  <2>2. Reported' /\ Flag'
    BY <1>1, <1>2, <1>9, <2>1 DEF Reported, Flag
  <2>3. Stream!Report
    <3>1. b \in 1 .. N /\ Published[b] = b /\ \A j \in 1 .. b - 1 : Published[j] = j
      BY <1>1, PublishedIs DEF Messages
    <3>2. b \in 1 .. Len(Published) /\ Published[b] \in bad
          /\ \A j \in 1 .. b - 1 : Published[j] \notin bad
      BY <1>9, <3>1, PublishedIs
    <3>3. Reports' = <<Published[b]>>
      BY <2>1, <3>1
    <3> QED
      BY <1>9, <3>2, <3>3 DEF Stream!Report, Published
  <2>4. StreamStep
    BY <1>1, <1>2, <2>3, Delivers DEF x
  <2> QED
    BY <1>3, <1>5, <1>6, <1>7, <2>2, <2>4 DEF Inv
<1> QED
  BY <1>8, <1>9

\* The confirmation's write settles, and the buffer is flushed.
LEMMA FlushStep == ASSUME Inv, ConfirmationSettles PROVE Inv' /\ StreamStep
<1> DEFINE n == Len(Written)
<1>1. /\ TypeOK /\ settled < Len(wire) /\ settled' = settled + 1 /\ UNCHANGED fixed
      /\ wire[settled + 1] = Confirmation /\ pc' = "ready" /\ pending' = <<>>
      /\ WriteAll(pending) /\ UNCHANGED <<received, dropped>>
  BY DEF Inv, ConfirmationSettles, SettleOne, Flush
<1>2. /\ Confirmation \notin Messages /\ Confirmation \notin bad /\ n \in Nat
      /\ wire \in Seq(Messages \cup {Confirmation}) /\ pending \in Seq(Messages)
      /\ received' \in 0 .. N /\ dropped' \in BOOLEAN /\ Len(pending) \in Nat
  BY <1>1, Parts DEF TypeOK
<1>3. /\ settled' \in 0 .. Len(wire) /\ settled + 1 \in 1 .. Len(wire)
      /\ Len(Backlog) = Len(Unsettled(settled')) /\ Len(Backlog) \in Nat
  <2>1. Len(Backlog) = Len(Unsettled(settled + 1)) + 0 /\ Len(Unsettled(settled + 1)) \in Nat
    BY <1>1, <1>2, Settling
  <2>2. Len(Backlog) = Len(Unsettled(settled + 1))
    BY <2>1
  <2> QED
    BY <1>1, <2>1, <2>2, Settling
<1>4. Events # <<>>
  <2>1. wire[settled + 1] \in (Messages \cup {Confirmation}) \ bad
    BY <1>1, <1>2
  <2> QED
    BY <1>2, <1>3, <2>1, KeepSome DEF Events
<1>5. PICK k \in Nat :
        /\ Run(n, k) \in Seq(Messages \ bad)
        /\ wire' = (wire \o Run(n, k)) \o <<>>
        /\ outstanding' = outstanding + k /\ outstanding' \in 0 .. MaxOutstanding
        /\ {stuck', disconnected', aborted'} \subseteq BOOLEAN
        /\ stuck' => disconnected'
        /\ disconnected => disconnected'
        /\ ~stuck' => k = Len(pending)
  <2>1. /\ ~stuck => pending = Run(n, Len(pending))
        /\ \A i \in 1 .. Len(pending) : pending[i] \notin bad
    BY DEF Inv, Consecutive
  <2> QED
    BY <1>1, <1>2, <2>1, WriteAllDoes
<1>6. outstanding' = Len(Unsettled(settled')) + k
  BY <1>3, <1>5 DEF Inv, Counter
<1>7. ~disconnected' => received' = n + k + Len(pending')
  <2>1. ~disconnected => received = n + Len(pending)
    BY DEF Inv, Flag
  <2>2. Len(pending') = 0
    BY <1>1
  <2> HIDE DEF n
  <2> QED
    BY <1>1, <1>2, <1>5, <2>1, <2>2
<1>8. pending' = Run(n + k, Len(pending')) /\ pending' \in Seq(Messages) /\ Len(pending') = 0
  BY <1>1 DEF Run
<1>9. <<>> \in Seq(bad) /\ \A i \in 1 .. Len(pending') : pending'[i] \notin bad
  BY <1>8
<1>10. /\ {stuck', disconnected', aborted', dropped'} \subseteq BOOLEAN
       /\ pc' \in {"subscribed", "confirming", "ready"} /\ pc' # "subscribed"
  BY <1>1, <1>2, <1>5
<1> HIDE DEF n
<1> QED
  BY <1>1, <1>2, <1>3, <1>4, <1>5, <1>6, <1>7, <1>8, <1>9, <1>10, WriteStep DEF n

\* The part of a chunk before its first incompatible channel.
LEMMA CompatibleIs ==
  ASSUME NEW ms \in Seq(Messages)
  PROVE  \E n \in 0 .. Len(ms) :
           /\ Compatible(ms) = SubSeq(ms, 1, n) /\ Len(Compatible(ms)) = n
           /\ \A i \in 1 .. n : ms[i] \notin bad
           /\ n < Len(ms) => ms[n + 1] \in bad
<1> DEFINE gaps == {i \in 1 .. Len(ms) : ms[i] \in bad}
           first == CHOOSE i \in gaps : \A j \in gaps : i <= j
<1>1. CASE gaps = {}
  <2>1. Compatible(ms) = ms
    BY <1>1 DEF Compatible
  <2>2. SubSeq(ms, 1, Len(ms)) = ms /\ Len(ms) \in 0 .. Len(ms) /\ ~(Len(ms) < Len(ms))
    OBVIOUS
  <2>3. \A i \in 1 .. Len(ms) : ms[i] \notin bad
    BY <1>1
  <2> QED
    BY <2>1, <2>2, <2>3
<1>2. CASE gaps # {}
  <2>1. first \in gaps /\ \A j \in gaps : first <= j
    <3>1. gaps \in SUBSET Nat
      OBVIOUS
    <3> HIDE DEF gaps
    <3>2. \E i \in gaps : \A j \in gaps : i <= j
      BY <1>2, <3>1, LeastElement
    <3> QED
      BY <3>2
  <2>2. Compatible(ms) = SubSeq(ms, 1, first - 1)
    BY <1>2 DEF Compatible
  <2> HIDE DEF first
  <2>3. /\ first - 1 \in 0 .. Len(ms) /\ (first - 1) + 1 = first /\ ms[first] \in bad
        /\ \A i \in 1 .. first - 1 : ms[i] \notin bad
    BY <2>1
  <2>4. Len(SubSeq(ms, 1, first - 1)) = first - 1
    BY <2>3
  <2> QED
    BY <2>2, <2>3, <2>4
<1> QED
  BY <1>1, <1>2

\* The next m messages are sent.
LEMMA SendStep ==
  ASSUME Inv, ~disconnected, pc = "ready", NEW m \in Nat,
         \A i \in 1 .. m : received + i \in Messages \ bad,
         WriteAll(Run(received, m)), UNCHANGED <<fixed, pc, pending, settled, dropped>>,
         received' \in 0 .. N, ~disconnected' => received' = received + m
  PROVE  Inv' /\ StreamStep
<1> DEFINE n == Len(Written)
           ms == Run(received, m)
<1>1. /\ TypeOK /\ pending = <<>> /\ Events # <<>> /\ n \in Nat /\ received = n /\ ~stuck
      /\ dropped \in BOOLEAN /\ settled \in 0 .. Len(wire)
  <2>1. TypeOK /\ pending = <<>> /\ Events # <<>> /\ n \in Nat /\ received = n + Len(pending)
        /\ ~stuck
    BY NoGapSoFar DEF Inv, Confirmed
  <2>2. Len(pending) = 0
    BY <2>1
  <2> HIDE DEF n
  <2> QED
    BY <2>1, <2>2 DEF TypeOK
<1>2. ms \in Seq(Messages \ bad) /\ Len(ms) = m /\ \A i \in 1 .. m : ms[i] \notin bad
  <2>1. Run(received, m) \in Seq(Messages \ bad)
    BY <1>1, RunOver
  <2>2. Len(ms) = m
    BY <1>1, RunIsSeq
  <2> HIDE DEF ms
  <2> QED
    BY <2>1, <2>2 DEF ms
<1>3. ms \in Seq(Messages)
  BY <1>2, SeqMonotonic
<1>4. ms = Run(n, Len(ms)) /\ WriteAll(ms)
  BY <1>1, <1>2
<1> HIDE DEF ms
<1>5. PICK k \in Nat :
        /\ Run(n, k) \in Seq(Messages \ bad)
        /\ wire' = (wire \o Run(n, k)) \o <<>>
        /\ outstanding' = outstanding + k /\ outstanding' \in 0 .. MaxOutstanding
        /\ {stuck', disconnected', aborted'} \subseteq BOOLEAN
        /\ stuck' => disconnected'
        /\ disconnected => disconnected'
        /\ ~stuck' => k = m
  BY <1>2, <1>3, <1>4, WriteAllDoes
<1>6. outstanding' = Len(Unsettled(settled')) + k
  BY <1>5 DEF Inv, Counter, Backlog, Unsettled
<1>7. /\ pending' = Run(n + k, Len(pending')) /\ pending' \in Seq(Messages) /\ pending' = <<>>
      /\ Len(pending') = 0
  BY <1>1 DEF Run
<1>8. ~disconnected' => received' = n + k + Len(pending')
  <2> HIDE DEF n
  <2> QED
    BY <1>1, <1>5, <1>7
<1>9. <<>> \in Seq(bad) /\ \A i \in 1 .. Len(pending') : pending'[i] \notin bad
  BY <1>7
<1>10. /\ {stuck', disconnected', aborted', dropped'} \subseteq BOOLEAN
       /\ pc' \in {"subscribed", "confirming", "ready"} /\ pc' # "subscribed"
       /\ settled' \in 0 .. Len(wire)
  BY <1>1, <1>5
<1> HIDE DEF n
<1> QED
  BY <1>1, <1>5, <1>6, <1>7, <1>8, <1>9, <1>10, WriteStep DEF n

\* Before the confirmation settled the next m messages are buffered, and then
\* maybe an incompatible one is reported.
LEMMA BufferStep ==
  ASSUME Inv, ~disconnected, pc \in {"subscribed", "confirming"}, NEW m \in Nat,
         \A i \in 1 .. m : received + i \in Messages \ bad,
         pending' = pending \o Run(received, m), NEW y \in Seq(bad), wire' = wire \o y,
         UNCHANGED <<fixed, pc, settled, dropped, outstanding, stuck, aborted>>,
         received' \in 0 .. N, disconnected' \in BOOLEAN,
         ~disconnected' => received' = received + m,
         \/ y = <<>>
         \/ \E b \in bad : /\ y = <<b>> /\ Reports = <<>> /\ disconnected'
                           /\ \A j \in 1 .. b - 1 : j \notin bad
  PROVE  Inv' /\ StreamStep
<1> DEFINE n == Len(Written)
           l == Len(pending)
           x == Run(received, m)
<1>1. /\ TypeOK /\ n \in Nat /\ l \in Nat /\ received = n + l /\ ~stuck /\ received \in Nat
      /\ pending = Run(n, l) /\ pending \in Seq(Messages)
      /\ wire \in Seq(Messages \cup {Confirmation})
      /\ outstanding \in 0 .. MaxOutstanding /\ settled \in 0 .. Len(wire)
      /\ {stuck, aborted, dropped} \subseteq BOOLEAN
  BY NoGapSoFar DEF Inv, TypeOK
<1>2. x \in Seq(Messages \ bad) /\ Len(x) = m
  BY <1>1, RunOver, RunIsSeq
<1>3. pending' = Run(n, l + m) /\ l + m \in Nat
  <2> HIDE DEF n, l
  <2>1. Run(n, l) \o Run(n + l, m) = Run(n, l + m)
    BY <1>1, RunsJoin
  <2> QED
    BY <1>1, <2>1
<1>4. Len(pending') = l + m
  <2> HIDE DEF n, l
  <2>1. Len(Run(n, l + m)) = l + m
    BY <1>1, <1>3, RunIsSeq
  <2> QED
    BY <1>3, <2>1
<1>5. pending' \in Seq(Messages \ bad)
  <2>1. pending \in Seq(Messages \ bad)
    <3> HIDE DEF n, l
    <3>1. \A i \in 1 .. Len(pending) : pending[i] \notin bad
      BY DEF Inv, Consecutive
    <3> QED
      BY <1>1, <3>1, WithoutAny
  <2> HIDE DEF x
  <2> QED
    BY <1>2, <2>1 DEF x
<1>6. pending' \in Seq(Messages) /\ \A i \in 1 .. Len(pending') : pending'[i] \notin bad
  <2>1. Messages \ bad \subseteq Messages
    OBVIOUS
  <2> QED
    BY <1>5, <2>1, SeqMonotonic
<1>7. Run(n, 0) = <<>> /\ Run(n, 0) \in Seq(Messages \ bad)
  BY DEF Run
<1>8. wire' = (wire \o Run(n, 0)) \o y
  <2>1. wire \o <<>> = wire
    BY <1>1
  <2> QED
    BY <1>7, <2>1
<1>9. outstanding' = Len(Unsettled(settled')) + 0 /\ outstanding' \in 0 .. MaxOutstanding
  <2>1. outstanding' = Len(Unsettled(settled'))
    BY DEF Inv, Counter, Backlog, Unsettled
  <2> QED
    BY <1>1, <2>1
<1>10. /\ {stuck', disconnected', aborted', dropped'} \subseteq BOOLEAN
       /\ pc' \in {"subscribed", "confirming", "ready"} /\ pc' # "ready"
       /\ settled' \in 0 .. Len(wire) /\ ~stuck'
  BY <1>1
<1>11. pc' = "subscribed" => Events = <<>>
  BY DEF Inv, Confirmed
<1> HIDE DEF n, l, x
<1>12. n + 0 = n /\ Len(pending') = l + m
  BY <1>1, <1>4 DEF l
<1>13. pending' = Run(n + 0, Len(pending'))
  BY <1>3, <1>12
<1>14. 0 \in Nat /\ ~(0 > 0)
  OBVIOUS
<1>15. ~disconnected' => received' = n + 0 + Len(pending')
  <2>1. ~disconnected' => received' = received + m
    OBVIOUS
  <2>2. received + m = n + 0 + (l + m)
    BY <1>1
  <2> QED
    BY <1>12, <2>1, <2>2
<1> QED
  BY <1>6, <1>7, <1>8, <1>9, <1>10, <1>11, <1>12, <1>13, <1>14, <1>15, WriteStep DEF n

\* The next m messages are sent, and then an incompatible one is reported.
LEMMA ReportStep ==
  ASSUME Inv, ~disconnected, pc = "ready", NEW m \in Nat, m <= MaxOutstanding - outstanding,
         \A i \in 1 .. m : received + i \in Messages \ bad,
         NEW b \in bad, \A j \in 1 .. b - 1 : j \notin bad,
         wire' = (wire \o Run(received, m)) \o <<b>>, outstanding' = outstanding + m,
         UNCHANGED <<fixed, pc, pending, settled, dropped, stuck, aborted>>,
         received' \in 0 .. N, disconnected' = TRUE
  PROVE  Inv' /\ StreamStep
<1> DEFINE n == Len(Written)
<1>1. /\ TypeOK /\ n \in Nat /\ received = n + Len(pending) /\ pending = <<>> /\ ~stuck
      /\ Events # <<>> /\ Reports = <<>>
      /\ outstanding \in 0 .. MaxOutstanding /\ settled \in 0 .. Len(wire)
      /\ {stuck, aborted, dropped} \subseteq BOOLEAN
  BY NoGapSoFar DEF Inv, Confirmed, TypeOK
<1>2. received = n
  <2>1. Len(pending) = 0
    BY <1>1
  <2> HIDE DEF n
  <2> QED
    BY <1>1, <2>1
<1>3. Run(n, m) \in Seq(Messages \ bad)
  BY <1>1, <1>2, RunOver
<1>4. outstanding' = Len(Unsettled(settled')) + m /\ outstanding' \in 0 .. MaxOutstanding
  <2>1. outstanding = Len(Unsettled(settled'))
    BY DEF Inv, Counter, Backlog, Unsettled
  <2>2. outstanding + m \in 0 .. MaxOutstanding
    BY <1>1
  <2> QED
    BY <2>1, <2>2
<1>5. /\ pending' = Run(n + m, Len(pending')) /\ pending' \in Seq(Messages) /\ pending' = <<>>
      /\ \A i \in 1 .. Len(pending') : pending'[i] \notin bad
  BY <1>1 DEF Run
<1>6. /\ {stuck', disconnected', aborted', dropped'} \subseteq BOOLEAN
      /\ pc' \in {"subscribed", "confirming", "ready"} /\ pc' # "subscribed"
      /\ settled' \in 0 .. Len(wire) /\ disconnected' /\ <<b>> \in Seq(bad)
  BY <1>1
<1> HIDE DEF n
<1> QED
  BY <1>1, <1>2, <1>3, <1>4, <1>5, <1>6, WriteStep DEF n

\* A chunk of messages that can be represented arrives.
LEMMA ReceiveStep == ASSUME Inv, NEW k \in Messages, Receive(k) PROVE Inv' /\ StreamStep
<1> DEFINE ms == Chunk(k)
<1>1. /\ pc \in {"subscribed", "confirming", "ready"} /\ received' = received + k
      /\ received' \in 0 .. N /\ k \in Nat /\ received \in Nat
      /\ UNCHANGED <<fixed, pc, settled, dropped>>
  BY DEF Receive, Inv, TypeOK, Messages
<1>2. CASE disconnected
  <2>1. /\ UNCHANGED <<pending, sink>> /\ {disconnected, aborted, dropped} \subseteq BOOLEAN
    BY <1>2 DEF Receive, Inv, TypeOK
  <2> QED
    BY <1>1, <1>2, <2>1, IdleStep DEF sink
<1>3. CASE ~disconnected
  <2>1. Compatible(ms) = ms /\ Push(ms) /\ ms = Run(received, k)
    BY <1>3 DEF Receive, Chunk, Run
  <2>2. ms \in Seq(Messages) /\ Len(ms) = k /\ \A i \in 1 .. k : ms[i] = received + i
    <3> HIDE DEF ms
    <3>1. \A i \in 1 .. k : received + i \in Messages
      BY <1>1 DEF Messages
    <3>2. Run(received, k) \in Seq(Messages)
      BY <1>1, <3>1, RunOver
    <3> QED
      BY <1>1, <2>1, <3>2, RunIsSeq
  <2>3. \A i \in 1 .. k : received + i \in Messages \ bad
    <3> HIDE DEF ms
    <3>1. \A i \in 1 .. k : ms[i] \notin bad /\ ms[i] \in Messages
      BY <2>1, <2>2, CompatibleIs
    <3> QED
      BY <2>2, <3>1
  <2>4. CASE pc = "ready"
    <3>1. WriteAll(Run(received, k)) /\ UNCHANGED pending
      BY <2>1, <2>4 DEF Push, Ready
    <3> QED
      BY <1>1, <1>3, <2>3, <2>4, <3>1, SendStep
  <2>5. CASE pc \in {"subscribed", "confirming"}
    <3>1. pending' = pending \o Run(received, k) /\ UNCHANGED sink
      BY <2>1, <2>5 DEF Push, Ready
    <3>2. wire' = wire \o <<>> /\ <<>> \in Seq(bad)
      BY <3>1 DEF sink, Inv, TypeOK
    <3>3. disconnected' \in BOOLEAN /\ UNCHANGED <<outstanding, stuck, aborted>>
      BY <3>1 DEF sink, Inv, TypeOK
    <3> QED
      BY <1>1, <1>3, <2>3, <2>5, <3>1, <3>2, <3>3, BufferStep
  <2> QED
    BY <1>1, <2>4, <2>5
<1> QED
  BY <1>2, <1>3

\* A chunk with an incompatible channel arrives.
LEMMA ReceiveIncompatibleStep ==
  ASSUME Inv, NEW k \in Messages, ReceiveIncompatible(k) PROVE Inv' /\ StreamStep
<1> DEFINE ms == Chunk(k)
           good == Compatible(ms)
           b == ms[Len(good) + 1]
           room == MaxOutstanding - outstanding
<1>1. /\ pc \in {"subscribed", "confirming", "ready"} /\ received' = received + k
      /\ received' \in 0 .. N /\ k \in Nat /\ received \in Nat /\ ~disconnected /\ good # ms
      /\ UNCHANGED <<fixed, pc, settled, dropped>>
      /\ ms = Run(received, k)
  BY DEF ReceiveIncompatible, Inv, TypeOK, Messages, Chunk, Run
<1>2. ms \in Seq(Messages) /\ Len(ms) = k /\ \A i \in 1 .. k : ms[i] = received + i
  <2> HIDE DEF ms
  <2>1. \A i \in 1 .. k : received + i \in Messages
    BY <1>1 DEF Messages
  <2>2. Run(received, k) \in Seq(Messages)
    BY <1>1, <2>1, RunOver
  <2> QED
    BY <1>1, <2>2, RunIsSeq
<1>3. PICK m \in 0 .. k :
        /\ good = SubSeq(ms, 1, m) /\ Len(good) = m
        /\ \A i \in 1 .. m : ms[i] \notin bad
        /\ m < k => ms[m + 1] \in bad
  BY <1>2, CompatibleIs
<1>4. m \in Nat /\ m < k /\ m + 1 \in 1 .. k /\ b = received + (m + 1) /\ b \in bad
  <2>1. SubSeq(ms, 1, k) = ms
    BY <1>2
  <2>2. m # k
    BY <1>1, <1>3, <2>1
  <2> QED
    BY <1>1, <1>2, <1>3, <2>2
<1>5. good = Run(received, m)
  <2> HIDE DEF ms, good
  <2>1. SubSeq(Run(received, k), 1, m) = Run(received, m)
    BY <1>1, RunIsSeq
  <2> QED
    BY <1>1, <1>3, <2>1
<1>6. \A i \in 1 .. m : received + i \in Messages \ bad
  <2> HIDE DEF ms, good
  <2>1. \A i \in 1 .. m : i \in 1 .. k /\ ms[i] \in Messages
    BY <1>2, <1>3
  <2> QED
    BY <1>2, <1>3, <2>1
<1>7. Reports = <<>> /\ \A j \in 1 .. b - 1 : j \notin bad
  <2>1. Reports = <<>> /\ \A j \in 1 .. received : j \notin bad
    BY <1>1, NoGapSoFar
  <2>2. ASSUME NEW j \in 1 .. b - 1 PROVE j \notin bad
    <3> HIDE DEF b
    <3>1. CASE j <= received
      BY <1>1, <1>4, <2>1, <3>1
    <3>2. CASE j > received
      <4>1. j - received \in 1 .. m /\ received + (j - received) = j
        BY <1>1, <1>4, <3>2
      <4> QED
        BY <1>6, <4>1
    <3> QED
      BY <1>1, <1>4, <3>1, <3>2
  <2> QED
    BY <2>1, <2>2
<1>8. CASE Ready /\ m > room
  <2>1. Push(good) /\ pc = "ready"
    BY <1>1, <1>3, <1>8 DEF ReceiveIncompatible, Ready
  <2>2. WriteAll(Run(received, m)) /\ UNCHANGED pending
    BY <1>5, <1>8, <2>1 DEF Push
  <2>3. disconnected'
    <3>1. ~stuck
      BY <1>1 DEF Inv, Flag
    <3> HIDE DEF good
    <3>2. disconnected' = (disconnected \/ (~stuck /\ Len(good) > room))
      BY <1>5, <2>2 DEF WriteAll
    <3> QED
      BY <1>3, <1>8, <3>1, <3>2
  <2> HIDE DEF b, good, ms
  <2> QED
    BY <1>1, <1>4, <1>6, <2>1, <2>2, <2>3, SendStep
<1>9. CASE ~(Ready /\ m > room)
  <2>1. /\ pending' = IF Ready THEN pending ELSE pending \o good
        /\ wire' = wire \o (IF Ready THEN good ELSE <<>>) \o <<b>>
        /\ outstanding' = outstanding + (IF Ready THEN m ELSE 0)
        /\ disconnected' = TRUE
        /\ UNCHANGED <<stuck, aborted>>
    BY <1>3, <1>9 DEF ReceiveIncompatible
  <2> HIDE DEF b, good, ms
  <2>2. /\ wire \in Seq(Messages \cup {Confirmation}) /\ outstanding \in 0 .. MaxOutstanding
    BY DEF Inv, TypeOK
  <2>3. CASE pc = "ready"
    <3>1. Ready /\ m <= room
      BY <1>4, <1>9, <2>2, <2>3 DEF Ready
    <3>2. /\ wire' = (wire \o Run(received, m)) \o <<b>> /\ outstanding' = outstanding + m
          /\ UNCHANGED pending
      BY <1>5, <2>1, <3>1
    <3> QED
      BY <1>1, <1>4, <1>6, <1>7, <2>1, <2>3, <3>1, <3>2, ReportStep
  <2>4. CASE pc \in {"subscribed", "confirming"}
    <3>1. ~Ready
      BY <2>4 DEF Ready
    <3>2. /\ wire' = wire \o <<b>> /\ pending' = pending \o Run(received, m)
          /\ outstanding' = outstanding /\ <<b>> \in Seq(bad)
      BY <1>4, <1>5, <2>1, <2>2, <3>1
    <3> QED
      BY <1>1, <1>4, <1>6, <1>7, <2>1, <2>4, <3>2, BufferStep
  <2> QED
    BY <1>1, <2>3, <2>4
<1> QED
  BY <1>8, <1>9

-----------------------------------------------------------------------------
(* The theorems *)

\* The initial states.
LEMMA InvInit == ASSUME Init PROVE Inv /\ Stream!Init
<1> USE DEF Init
<1>1. Written = <<>> /\ Events = <<>> /\ Reports = <<>> /\ Len(Written) = 0
  BY KeepEmpty DEF Written, Events, Reports
<1>2. Backlog = <<>>
  <2>1. SubSeq(<<>>, 0 + 1, Len(<<>>)) = <<>>
    OBVIOUS
  <2> QED
    BY <2>1, KeepEmpty DEF Backlog
<1>3. TypeOK
  <2>1. /\ wire \in Seq(Messages \cup {Confirmation}) /\ pending \in Seq(Messages)
        /\ Len(wire) = 0 /\ settled \in 0 .. 0 /\ outstanding \in 0 .. MaxOutstanding
        /\ received \in 0 .. N
    OBVIOUS
  <2> QED
    BY <2>1 DEF TypeOK
<1>4. Consecutive
  BY <1>1 DEF Consecutive, Run
<1>5. Confirmed /\ Reported /\ Flag
  BY <1>1 DEF Confirmed, Reported, Flag
<1>6. Counter
  BY <1>2 DEF Counter
<1> QED
  BY <1>1, <1>3, <1>4, <1>5, <1>6 DEF Inv, Stream!Init

\* Every step.
LEMMA InvStep == ASSUME Inv, [Next]_vars PROVE Inv' /\ StreamStep
<1>1. CASE \/ Subscribed \/ SubscribeFails \/ Ends \/ ClientDisconnects \/ RedisDrops
           \/ UNCHANGED vars
  BY <1>1, HandlerStep
<1>2. CASE Confirms
  BY <1>2, ConfirmStep
<1>3. CASE ConfirmationSettles
  BY <1>3, FlushStep
<1>4. CASE \/ ConfirmationRejected \/ ErrorSettles
           \/ \E rejected \in BOOLEAN : MessageSettles(rejected)
  BY <1>4, SettleStep
<1>5. CASE \E k \in Messages : Receive(k)
  BY <1>5, ReceiveStep
<1>6. CASE \E k \in Messages : ReceiveIncompatible(k)
  BY <1>6, ReceiveIncompatibleStep
<1> QED
  BY <1>1, <1>2, <1>3, <1>4, <1>5, <1>6 DEF Next, Settles

\* The invariant holds in every reachable state.
THEOREM InvHolds == Spec => []Inv
<1>1. Init => Inv
  BY InvInit
<1>2. Inv /\ [Next]_vars => Inv'
  BY InvStep
<1> QED
  BY <1>1, <1>2, PTL DEF Spec

\* Type correctness: above all the writer's counter stays between 0 and
\* MAX_OUTSTANDING_SSE_WRITES, whatever arrives and settles in which order.
THEOREM TypeCorrect == Spec => []TypeOK
<1>1. Inv => TypeOK
  BY DEF Inv
<1> QED
  BY <1>1, InvHolds, PTL

\* At most MAX_OUTSTANDING_SSE_WRITES messages wait unread in the stream: the
\* counter of createBoundedSseWriter is the number of unsettled writes.
THEOREM BacklogIsBounded == Spec => []BoundedBacklog
<1>1. Inv => BoundedBacklog
  BY DEF Inv, TypeOK, Counter, BoundedBacklog
<1> QED
  BY <1>1, InvHolds, PTL

\* Once the confirmation settled and the buffer is flushed, a healthy stream
\* holds every message received.
THEOREM NothingIsWithheld == Spec => []NothingWithheld
<1>1. ASSUME Inv PROVE NothingWithheld
  <2> SUFFICES ASSUME pc = "ready", ~stuck, ~disconnected
               PROVE  pending = <<>> /\ Len(Written) = received
    BY DEF NothingWithheld
  <2>1. pending = <<>> /\ received = Len(Written) + Len(pending) /\ Len(Written) \in Nat
    BY <1>1, NoGapSoFar DEF Inv, Confirmed
  <2>2. Len(pending) = 0
    BY <2>1
  <2> QED
    BY <2>1, <2>2
<1> QED
  BY <1>1, InvHolds, PTL

\* The handlers implement OrderedStream: the confirmation first, then a
\* gap-free prefix of what was published, nothing from behind a channel that
\* cannot be represented, and one report of it at most.
THEOREM ImplementsOrderedStream == Spec => Ordered
<1>1. Init => Stream!Init
  BY InvInit
<1>2. Inv /\ [Next]_vars => StreamStep
  BY InvStep
<1> QED
  BY <1>1, <1>2, InvHolds, PTL DEF Spec, Ordered, Stream!Spec, StreamStep, Published
=============================================================================
