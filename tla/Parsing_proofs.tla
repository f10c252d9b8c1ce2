--------------------------- MODULE Parsing_proofs ---------------------------
(***************************************************************************)
(* Proofs about the two parsers of the server: the command gate's scan of  *)
(* an argument list, and the incremental parser of a pattern subscription  *)
(* with the events made of what it returns.                                *)
(*                                                                         *)
(* First CommandGate, for argument lists of any length: the gate's scan    *)
(* and the parser of Redis agree on every stream read.  Both are recursive *)
(* functions that read a list from a position on; the proofs first show    *)
(* that the recursion has a solution, and then compare the two from the    *)
(* end of the list backwards.                                              *)
(*                                                                         *)
(* Then PatternWire, for everything Redis may send and every way to cut it *)
(* into chunks: what the parser finds in a buffer it finds wherever that   *)
(* buffer is part of a longer one, and what Redis encodes is parsed as     *)
(* what it is; so the bytes that have arrived decide what has been         *)
(* handled, and what the SDK reads of the events is what was published.    *)
(***************************************************************************)
EXTENDS CommandGate, PatternWire, SequenceLemmas


-----------------------------------------------------------------------------
(* The scan *)

\* One step of the scan, with f for what follows.
Scans(f, cmd, list, i) ==
  /\ i <= Len(list)
  /\ list[i] # "STREAMS"
  /\ \/ list[i] = "BLOCK"
     \/ f[CASE list[i] = "GROUP" /\ cmd = "XREADGROUP" -> i + 3
            [] list[i] = "COUNT" -> i + 2
            [] OTHER -> i + 1]

\* A step looks only at what follows.
LEMMA ScansAhead ==
  ASSUME NEW cmd, NEW T, NEW list \in Seq(T), NEW g, NEW h, NEW i \in 1 .. Len(list) + 3,
         \A j \in 1 .. Len(list) + 3 : j > i => h[j] = g[j]
  PROVE  Scans(h, cmd, list, i) = Scans(g, cmd, list, i)
<1> DEFINE j == CASE list[i] = "GROUP" /\ cmd = "XREADGROUP" -> i + 3
                  [] list[i] = "COUNT" -> i + 2
                  [] OTHER -> i + 1
<1>1. j \in {i + 1, i + 2, i + 3}
  OBVIOUS
<1> HIDE DEF j
<1>2. i <= Len(list) => h[j] = g[j]
  BY <1>1
<1>3. \A f : Scans(f, cmd, list, i) = (/\ i <= Len(list) /\ list[i] # "STREAMS"
                                     /\ (list[i] = "BLOCK" \/ f[j]))
  BY DEF Scans, j
<1> QED
  BY <1>2, <1>3

\* The recursion has a solution.
LEMMA ScanExists ==
  ASSUME NEW cmd, NEW T, NEW list \in Seq(T)
  PROVE  \E f : f = [i \in 1 .. Len(list) + 3 |-> Scans(f, cmd, list, i)]
<1> DEFINE n == Len(list) + 3
           From(g, k) == \A i \in 1 .. n : i + k > n => g[i] = Scans(g, cmd, list, i)
           K == {k \in Nat : \E g : From(g, k)}
<1>0. n \in Nat
  OBVIOUS
<1>1. 0 \in K
  OBVIOUS
<1>2. ASSUME NEW k \in K PROVE k + 1 \in K
  <2>1. PICK g : From(g, k)
    OBVIOUS
  <2> DEFINE h == [i \in 1 .. n |-> IF i + k > n THEN g[i] ELSE Scans(g, cmd, list, i)]
  <2>2. ASSUME NEW i \in 1 .. n PROVE h[i] = Scans(g, cmd, list, i)
    BY <2>1
  <2>3. \A i \in 1 .. n : i + k > n => h[i] = g[i]
    OBVIOUS
  <2> HIDE DEF h
  <2>4. ASSUME NEW i \in 1 .. n, i + (k + 1) > n PROVE h[i] = Scans(h, cmd, list, i)
    <3>1. \A j \in 1 .. n : j > i => h[j] = g[j]
      BY <1>0, <2>3, <2>4
    <3>2. Scans(h, cmd, list, i) = Scans(g, cmd, list, i)
      BY <3>1, ScansAhead
    <3> QED
      BY <2>2, <3>2
  <2>5. From(h, k + 1)
    BY <2>4
  <2> QED
    BY <2>5
<1>3. n \in K
  <2>1. K \in SUBSET Nat
    OBVIOUS
  <2> HIDE DEF K
  <2>2. K = Nat
    BY <1>1, <1>2, <2>1, SetInduction
  <2> QED
    BY <1>0, <2>2
<1>4. PICK g : From(g, n)
  BY <1>3
<1>5. \A i \in 1 .. n : g[i] = Scans(g, cmd, list, i)
  BY <1>0, <1>4
<1> DEFINE f == [i \in 1 .. n |-> g[i]]
<1>6. ASSUME NEW i \in 1 .. n PROVE Scans(f, cmd, list, i) = g[i]
  <2>1. Scans(f, cmd, list, i) = Scans(g, cmd, list, i)
    BY ScansAhead
  <2> QED
    BY <1>5, <2>1
<1>7. f = [i \in 1 .. n |-> Scans(f, cmd, list, i)]
  BY <1>6
<1> QED
  BY <1>7

\* The scan is what its recursion says.
LEMMA ScanUnfolds ==
  ASSUME NEW cmd, NEW T, NEW list \in Seq(T)
  PROVE  \E f : /\ FindsBlock(cmd, list) = f[1]
                /\ \A i \in 1 .. Len(list) + 3 : f[i] = Scans(f, cmd, list, i)
<1> DEFINE f == CHOOSE f : f = [i \in 1 .. Len(list) + 3 |-> Scans(f, cmd, list, i)]
<1>1. f = [i \in 1 .. Len(list) + 3 |-> Scans(f, cmd, list, i)]
  BY ScanExists
<1>2. FindsBlock(cmd, list) = f[1]
  BY Zenon DEF FindsBlock, Scans
<1> HIDE DEF f
<1> QED
  BY <1>1, <1>2

-----------------------------------------------------------------------------
(* The parser *)

\* Where the parser can be: the position, and whether BLOCK and GROUP were seen.
ParserStates(list) == (1 .. Len(list) + 1) \X BOOLEAN \X BOOLEAN

\* One step of the parser of Redis, with f for what follows.
ParserStep(f, cmd, list, s) ==
  LET i == s[1]  blk == s[2]  grp == s[3]  more == Len(list) - i
      number == more >= 1 /\ list[i + 1] = "1" IN
  IF i > Len(list) THEN "error"
  ELSE CASE list[i] = "BLOCK" /\ number -> f[<<i + 2, TRUE, grp>>]
         [] list[i] = "COUNT" /\ number -> f[<<i + 2, blk, grp>>]
         [] list[i] = "GROUP" /\ more >= 2 /\ cmd = "XREADGROUP" ->
              f[<<i + 3, blk, TRUE>>]
         [] list[i] = "NOACK" /\ cmd = "XREADGROUP" -> f[<<i + 1, blk, grp>>]
         [] /\ list[i] = "STREAMS" /\ more >= 2 /\ more % 2 = 0
            /\ cmd = "XREADGROUP" => grp -> IF blk THEN "blocks" ELSE "returns"
         [] OTHER -> "error"

IsParser(f, cmd, list) == f = [s \in ParserStates(list) |-> ParserStep(f, cmd, list, s)]

\* What a state is.
LEMMA ParserStateIs ==
  ASSUME NEW T, NEW list \in Seq(T), NEW s \in ParserStates(list)
  PROVE  /\ s[1] \in 1 .. Len(list) + 1 /\ s[1] \in Nat /\ Len(list) \in Nat
         /\ s[2] \in BOOLEAN /\ s[3] \in BOOLEAN /\ s = <<s[1], s[2], s[3]>>
BY DEF ParserStates

\* A step looks only at what follows.
LEMMA ParserStepAhead ==
  ASSUME NEW cmd, NEW T, NEW list \in Seq(T), NEW g, NEW h, NEW s \in ParserStates(list),
         \A t \in ParserStates(list) : t[1] > s[1] => h[t] = g[t]
  PROVE  ParserStep(h, cmd, list, s) = ParserStep(g, cmd, list, s)
<1> DEFINE i == s[1]
           blk == s[2]
           grp == s[3]
           more == Len(list) - i
<1>1. i \in Nat /\ Len(list) \in Nat /\ i \in 1 .. Len(list) + 1 /\ {blk, grp} \subseteq BOOLEAN
  BY ParserStateIs
<1>2. CASE i > Len(list)
  BY <1>2 DEF ParserStep
<1>3. CASE i <= Len(list)
  <2>1. ASSUME NEW j \in 1 .. Len(list) + 1, NEW b \in BOOLEAN, NEW p \in BOOLEAN, j > i
        PROVE  h[<<j, b, p>>] = g[<<j, b, p>>]
    <3>1. <<j, b, p>> \in ParserStates(list) /\ <<j, b, p>>[1] = j
      BY DEF ParserStates
    <3> QED
      BY <2>1, <3>1
  <2>2. more >= 1 => /\ h[<<i + 2, TRUE, grp>>] = g[<<i + 2, TRUE, grp>>]
                     /\ h[<<i + 2, blk, grp>>] = g[<<i + 2, blk, grp>>]
    <3>1. more >= 1 => i + 2 \in 1 .. Len(list) + 1 /\ i + 2 > i
      BY <1>1
    <3> HIDE DEF i, blk, grp
    <3> QED
      BY <1>1, <2>1, <3>1
  <2>3. more >= 2 => h[<<i + 3, blk, TRUE>>] = g[<<i + 3, blk, TRUE>>]
    <3>1. more >= 2 => i + 3 \in 1 .. Len(list) + 1 /\ i + 3 > i
      BY <1>1
    <3> HIDE DEF i, blk, grp
    <3> QED
      BY <1>1, <2>1, <3>1
  <2>4. h[<<i + 1, blk, grp>>] = g[<<i + 1, blk, grp>>]
    <3>1. i + 1 \in 1 .. Len(list) + 1 /\ i + 1 > i
      BY <1>1, <1>3
    <3> HIDE DEF i, blk, grp
    <3> QED
      BY <1>1, <2>1, <3>1
  <2> QED
    BY <1>3, <2>2, <2>3, <2>4 DEF ParserStep
<1> QED
  BY <1>1, <1>2, <1>3

\* The recursion has a solution.
LEMMA ParserExists ==
  ASSUME NEW cmd, NEW T, NEW list \in Seq(T) PROVE \E f : IsParser(f, cmd, list)
<1> DEFINE n == Len(list) + 1
           S == ParserStates(list)
           From(g, k) == \A s \in S : s[1] + k > n => g[s] = ParserStep(g, cmd, list, s)
           K == {k \in Nat : \E g : From(g, k)}
<1>0. n \in Nat /\ \A s \in S : s[1] \in 1 .. n
  BY ParserStateIs
<1> HIDE DEF S
<1>1. 0 \in K
  BY <1>0
<1>2. ASSUME NEW k \in K PROVE k + 1 \in K
  <2>1. PICK g : From(g, k)
    OBVIOUS
  <2> DEFINE h == [s \in S |-> IF s[1] + k > n THEN g[s] ELSE ParserStep(g, cmd, list, s)]
  <2>2. ASSUME NEW s \in S PROVE h[s] = ParserStep(g, cmd, list, s)
    BY <2>1
  <2>3. \A s \in S : s[1] + k > n => h[s] = g[s]
    OBVIOUS
  <2> HIDE DEF h
  <2>4. ASSUME NEW s \in S, s[1] + (k + 1) > n PROVE h[s] = ParserStep(h, cmd, list, s)
    <3>1. \A t \in S : t[1] > s[1] => h[t] = g[t]
      BY <1>0, <2>3, <2>4
    <3>2. ParserStep(h, cmd, list, s) = ParserStep(g, cmd, list, s)
      BY <3>1, ParserStepAhead DEF S
    <3> QED
      BY <2>2, <3>2
  <2>5. From(h, k + 1)
    BY <2>4
  <2> QED
    BY <2>5
<1>3. n \in K
  <2>1. K \in SUBSET Nat
    OBVIOUS
  <2> HIDE DEF K
  <2>2. K = Nat
    BY <1>1, <1>2, <2>1, SetInduction
  <2> QED
    BY <1>0, <2>2
<1>4. PICK g : From(g, n)
  BY <1>3
<1>5. \A s \in S : g[s] = ParserStep(g, cmd, list, s)
  BY <1>0, <1>4
<1> DEFINE f == [s \in S |-> g[s]]
<1>6. ASSUME NEW s \in S PROVE ParserStep(f, cmd, list, s) = g[s]
  <2>1. ParserStep(f, cmd, list, s) = ParserStep(g, cmd, list, s)
    BY ParserStepAhead DEF S
  <2> QED
    BY <1>5, <2>1
<1>7. f = [s \in S |-> ParserStep(f, cmd, list, s)]
  BY <1>6
<1> QED
  BY <1>7 DEF IsParser, S

\* The parser is what its recursion says.
LEMMA ParserUnfolds ==
  ASSUME NEW cmd, NEW T, NEW list \in Seq(T)
  PROVE  \E f : /\ RedisReads(cmd, list) = f[<<1, FALSE, FALSE>>]
                /\ \A s \in ParserStates(list) : f[s] = ParserStep(f, cmd, list, s)
<1> DEFINE f == CHOOSE f : IsParser(f, cmd, list)
<1>1. IsParser(f, cmd, list)
  BY ParserExists
<1>2. RedisReads(cmd, list) = f[<<1, FALSE, FALSE>>]
  BY Zenon DEF RedisReads, IsParser, ParserStep, ParserStates
<1> HIDE DEF f
<1>3. ASSUME NEW s \in ParserStates(list) PROVE f[s] = ParserStep(f, cmd, list, s)
  BY <1>1 DEF IsParser
<1> QED
  BY <1>2, <1>3

-----------------------------------------------------------------------------
(* The scan and the parser agree *)

\* What the scan f has to say of the parser's result from state s on.
ScanAgrees(f, g, s) ==
  /\ g[s] = "blocks" => s[2] \/ f[s[1]]
  /\ g[s] = "returns" => ~s[2] /\ ~f[s[1]]

\* They agree on a state if they agree on all that follow.
LEMMA ScanAgreesHere ==
  ASSUME NEW cmd, NEW T, NEW list \in Seq(T), NEW f, NEW g,
         \A i \in 1 .. Len(list) + 3 : f[i] = Scans(f, cmd, list, i),
         \A s \in ParserStates(list) : g[s] = ParserStep(g, cmd, list, s),
         NEW s \in ParserStates(list), \A t \in ParserStates(list) : t[1] > s[1] => ScanAgrees(f, g, t)
  PROVE  ScanAgrees(f, g, s)
<1> DEFINE i == s[1]
           blk == s[2]
           grp == s[3]
           number == Len(list) - i >= 1 /\ list[i + 1] = "1"
<1>1. /\ i \in Nat /\ Len(list) \in Nat /\ i \in 1 .. Len(list) + 1
      /\ blk \in BOOLEAN /\ grp \in BOOLEAN
  BY ParserStateIs
<1>2. g[s] = ParserStep(g, cmd, list, s) /\ f[i] = Scans(f, cmd, list, i)
  BY <1>1
<1>3. ASSUME NEW j \in 1 .. Len(list) + 1, NEW b \in BOOLEAN, NEW p \in BOOLEAN, j > i
      PROVE  /\ g[<<j, b, p>>] = "blocks" => b \/ f[j]
             /\ g[<<j, b, p>>] = "returns" => ~b /\ ~f[j]
  <2> DEFINE t == <<j, b, p>>
  <2>1. t \in ParserStates(list) /\ t[1] = j /\ t[2] = b
    BY DEF ParserStates
  <2> HIDE DEF t
  <2>2. ScanAgrees(f, g, t)
    BY <1>3, <2>1
  <2> QED
    BY <2>1, <2>2 DEF ScanAgrees, t
<1>4. SUFFICES /\ g[s] = "blocks" => blk \/ f[i]
               /\ g[s] = "returns" => ~blk /\ ~f[i]
  BY DEF ScanAgrees
<1>5. CASE i > Len(list)
  BY <1>2, <1>5 DEF ParserStep
<1>6. CASE i <= Len(list) /\ list[i] = "BLOCK"
  <2>1. f[i]
    BY <1>2, <1>6 DEF Scans
  <2>2. g[s] = IF number THEN g[<<i + 2, TRUE, grp>>] ELSE "error"
    BY <1>1, <1>2, <1>6 DEF ParserStep
  <2>3. CASE number
    <3>1. i + 2 \in 1 .. Len(list) + 1 /\ i + 2 > i
      BY <1>1, <2>3
    <3> HIDE DEF i, blk, grp
    <3>2. g[<<i + 2, TRUE, grp>>] # "returns"
      BY <1>1, <1>3, <3>1
    <3> QED
      BY <2>1, <2>2, <2>3, <3>2
  <2> HIDE DEF number
  <2>4. CASE ~number
    BY <2>2, <2>4
  <2> QED
    BY <2>3, <2>4
<1>7. CASE i <= Len(list) /\ list[i] = "COUNT"
  <2>1. f[i] <=> f[i + 2]
    BY <1>2, <1>7 DEF Scans
  <2>2. g[s] = IF number THEN g[<<i + 2, blk, grp>>] ELSE "error"
    BY <1>1, <1>2, <1>7 DEF ParserStep
  <2>3. CASE number
    <3>1. i + 2 \in 1 .. Len(list) + 1 /\ i + 2 > i
      BY <1>1, <2>3
    <3> HIDE DEF i, blk, grp
    <3> QED
      BY <1>1, <1>3, <2>1, <2>2, <2>3, <3>1
  <2> HIDE DEF number
  <2>4. CASE ~number
    BY <2>2, <2>4
  <2> QED
    BY <2>3, <2>4
<1>8. CASE i <= Len(list) /\ list[i] = "GROUP"
  <2>1. cmd = "XREADGROUP" => (f[i] <=> f[i + 3])
    BY <1>2, <1>8 DEF Scans
  <2>2. g[s] = IF Len(list) - i >= 2 /\ cmd = "XREADGROUP"
               THEN g[<<i + 3, blk, TRUE>>] ELSE "error"
    BY <1>1, <1>2, <1>8 DEF ParserStep
  <2>3. CASE Len(list) - i >= 2 /\ cmd = "XREADGROUP"
    <3>1. i + 3 \in 1 .. Len(list) + 1 /\ i + 3 > i
      BY <1>1, <2>3
    <3> HIDE DEF i, blk, grp
    <3> QED
      BY <1>1, <1>3, <2>1, <2>2, <2>3, <3>1
  <2>4. CASE ~(Len(list) - i >= 2 /\ cmd = "XREADGROUP")
    BY <2>2, <2>4
  <2> QED
    BY <2>3, <2>4
<1>9. CASE i <= Len(list) /\ list[i] = "NOACK"
  <2>1. f[i] <=> f[i + 1]
    BY <1>2, <1>9 DEF Scans
  <2>2. g[s] = IF cmd = "XREADGROUP" THEN g[<<i + 1, blk, grp>>] ELSE "error"
    BY <1>1, <1>2, <1>9 DEF ParserStep
  <2>3. i + 1 \in 1 .. Len(list) + 1 /\ i + 1 > i
    BY <1>1, <1>9
  <2> HIDE DEF i, blk, grp
  <2> QED
    BY <1>1, <1>3, <2>1, <2>2, <2>3
<1>10. CASE i <= Len(list) /\ list[i] = "STREAMS"
  <2>1. ~f[i]
    BY <1>2, <1>10 DEF Scans
  <2>2. g[s] \in {IF blk THEN "blocks" ELSE "returns", "error"}
    BY <1>1, <1>2, <1>10 DEF ParserStep
  <2> HIDE DEF i, blk, grp
  <2> QED
    BY <2>1, <2>2
<1>11. CASE i <= Len(list) /\ list[i] \notin {"BLOCK", "COUNT", "GROUP", "NOACK", "STREAMS"}
  BY <1>2, <1>11 DEF ParserStep
<1> QED
  BY <1>1, <1>5, <1>6, <1>7, <1>8, <1>9, <1>10, <1>11

\* They agree on every list.
LEMMA Agreement ==
  ASSUME NEW cmd, NEW T, NEW list \in Seq(T)
  PROVE  /\ RedisReads(cmd, list) = "blocks" => FindsBlock(cmd, list)
         /\ RedisReads(cmd, list) = "returns" => ~FindsBlock(cmd, list)
<1>1. PICK f : /\ FindsBlock(cmd, list) = f[1]
               /\ \A i \in 1 .. Len(list) + 3 : f[i] = Scans(f, cmd, list, i)
  BY ScanUnfolds
<1>2. PICK g : /\ RedisReads(cmd, list) = g[<<1, FALSE, FALSE>>]
               /\ \A s \in ParserStates(list) : g[s] = ParserStep(g, cmd, list, s)
  BY ParserUnfolds
<1> DEFINE n == Len(list) + 1
           K == {k \in Nat : \A s \in ParserStates(list) : s[1] + k > n => ScanAgrees(f, g, s)}
<1>3. n \in Nat /\ \A s \in ParserStates(list) : s[1] \in 1 .. n
  BY ParserStateIs
<1>4. 0 \in K
  BY <1>3
<1>5. ASSUME NEW k \in K PROVE k + 1 \in K
  <2>1. ASSUME NEW s \in ParserStates(list), s[1] + (k + 1) > n PROVE ScanAgrees(f, g, s)
    <3>1. \A t \in ParserStates(list) : t[1] > s[1] => ScanAgrees(f, g, t)
      BY <1>3, <2>1
    <3> QED
      BY <1>1, <1>2, <3>1, ScanAgreesHere
  <2> QED
    BY <2>1
<1>6. n \in K
  <2>1. K \in SUBSET Nat
    OBVIOUS
  <2> HIDE DEF K
  <2>2. K = Nat
    BY <1>4, <1>5, <2>1, SetInduction
  <2> QED
    BY <1>3, <2>2
<1> DEFINE s == <<1, FALSE, FALSE>>
<1>7. s \in ParserStates(list) /\ s[1] = 1 /\ s[2] = FALSE
  <2>1. 1 \in 1 .. Len(list) + 1
    BY <1>3
  <2> QED
    BY <2>1 DEF ParserStates
<1> HIDE DEF s
<1>8. ScanAgrees(f, g, s)
  BY <1>3, <1>6, <1>7
<1> QED
  BY <1>1, <1>2, <1>7, <1>8 DEF ScanAgrees, s

-----------------------------------------------------------------------------
(* The theorems *)

\* A command and the tokens it has been given.
GateInv ==
  /\ command \in CommandKinds
  /\ command \in StreamReads => args \in Seq(Tokens)

\* The gate's verdict on a stream read.
LEMMA Verdict ==
  ASSUME command \in StreamReads, NEW list
  PROVE  CheckBlocked(command, list) <=> FindsBlock(command, list) \/ command \in ExtraBlocked
BY DEF CheckBlocked, BLOCKED_COMMANDS, BlockedSubcommand, StreamReads, DANGEROUS_COMMANDS

\* The lists looked at are lists of tokens.
LEMMA ListsOfTokens ==
  ASSUME args \in Seq(Tokens) PROVE \A list \in Lists : list \in Seq(Tokens)
<1>1. <<"GROUP", "1", "1">> \in Seq(Tokens)
  BY DEF Tokens
<1> DEFINE header == <<"GROUP", "1", "1">>
<1> HIDE DEF header
<1>2. header \o args \in Seq(Tokens)
  BY <1>1 DEF header
<1> QED
  BY <1>2 DEF Lists, header

\* The invariant holds.
THEOREM GateInvHolds == GateSpec => []GateInv
<1>1. GateInit => GateInv
  BY DEF GateInit, GateInv
<1>2. GateInv /\ [GateNext]_gateVars => GateInv'
  <2> SUFFICES ASSUME GateInv, [GateNext]_gateVars PROVE GateInv'
    OBVIOUS
  <2>1. CASE GateNext
    BY <2>1 DEF GateInv, GateNext
  <2>2. CASE UNCHANGED gateVars
    BY <2>2 DEF GateInv, gateVars
  <2> QED
    BY <2>1, <2>2
<1> QED
  BY <1>1, <1>2, PTL DEF GateSpec

\* Whatever its options, groups and keys are named and however many there are,
\* a stream read that passes checkBlockedCommand does not block Redis's
\* connection (commands.ts:292-303).
THEOREM GateIsTight == GateSpec => []NeverBlocks
<1>1. GateInv => NeverBlocks
  <2> SUFFICES ASSUME GateInv, command \in StreamReads, NEW list \in Lists,
                      ~CheckBlocked(command, list)
               PROVE  RedisReads(command, list) # "blocks"
    BY DEF NeverBlocks
  <2>1. list \in Seq(Tokens)
    BY ListsOfTokens DEF GateInv
  <2> QED
    BY <2>1, Verdict, Agreement
<1> QED
  BY <1>1, GateInvHolds, PTL

\* checkBlockedCommand refuses no stream read that would return at once, unless
\* the operator blocked the command by its name.
THEOREM GateIsFair == GateSpec => []NoFalseRefusal
<1>1. GateInv => NoFalseRefusal
  <2> SUFFICES ASSUME GateInv, command \in StreamReads \ ExtraBlocked, NEW list \in Lists,
                      RedisReads(command, list) = "returns"
               PROVE  ~CheckBlocked(command, list)
    BY DEF NoFalseRefusal
  <2>1. list \in Seq(Tokens)
    BY ListsOfTokens DEF GateInv
  <2> QED
    BY <2>1, Verdict, Agreement
<1> QED
  BY <1>1, GateInvHolds, PTL

-----------------------------------------------------------------------------
(* Lines *)

\* b is what c holds behind the first k bytes.
Window(b, c, k) ==
  /\ b \in Seq(Symbol) /\ c \in Seq(Symbol) /\ k \in Nat /\ k + Len(b) <= Len(c)
  /\ \A i \in 1 .. Len(b) : c[k + i] = b[i]

\* CR LF is at i.
EndsAt(b, i) == b[i] = "cr" /\ b[i + 1] = "lf"

Part(b, p, q) == SubSeq(b, p, q)

Line(text, next) == [got |-> "line", text |-> text, next |-> next]

\* ReadLine finds the first CR LF from an offset on, if there is one.
LEMMA LineIs ==
  ASSUME NEW b \in Seq(Symbol), NEW from \in 1 .. Len(b) + 1
  PROVE  \/ /\ ReadLine(b, from) = More
            /\ \A i \in from .. Len(b) - 1 : ~EndsAt(b, i)
         \/ \E e \in from .. Len(b) - 1 :
              /\ EndsAt(b, e) /\ \A i \in from .. e - 1 : ~EndsAt(b, i)
              /\ ReadLine(b, from) = Line(Part(b, from, e - 1), e + 2)
<1> DEFINE ends == {i \in from .. Len(b) - 1 : <<b[i], b[i + 1]>> = Crlf}
<1>0. Len(b) \in Nat
  OBVIOUS
<1>1. \A i \in from .. Len(b) - 1 : i \in ends <=> EndsAt(b, i)
  BY DEF EndsAt, Crlf
<1>2. ReadLine(b, from) = IF ends = {} THEN More
                          ELSE Line(Part(b, from, Min(ends) - 1), Min(ends) + 2)
  BY Zenon DEF ReadLine, Line, Part
<1>3. ends \in SUBSET Nat /\ ends \subseteq from .. Len(b) - 1
  BY <1>0
<1> HIDE DEF ends
<1>4. CASE ends = {}
  BY <1>1, <1>2, <1>4
<1>5. CASE ends # {}
  <2>1. PICK m \in ends : \A j \in ends : m <= j
    BY <1>3, <1>5, LeastElement
  <2>2. Min(ends) \in ends /\ \A j \in ends : Min(ends) <= j
    BY Zenon, <2>1 DEF Min
  <2> DEFINE e == Min(ends)
  <2> HIDE DEF e
  <2>3. e \in from .. Len(b) - 1 /\ EndsAt(b, e) /\ \A i \in from .. e - 1 : ~EndsAt(b, i)
    <3>1. e \in ends /\ \A j \in ends : e <= j
      BY <2>2 DEF e
    <3>2. ASSUME NEW i \in from .. e - 1, EndsAt(b, i) PROVE FALSE
      <4>1. i \in from .. Len(b) - 1 /\ ~(e <= i)
        BY <1>0, <1>3, <3>1
      <4> QED
        BY <1>1, <3>1, <3>2, <4>1
    <3> QED
      BY <1>1, <1>3, <3>1, <3>2
  <2>4. ReadLine(b, from) = Line(Part(b, from, e - 1), e + 2)
    BY <1>2, <1>5 DEF e
  <2> QED
    BY <2>3, <2>4
<1> QED
  BY <1>4, <1>5

\* A line that ends nowhere before e ends at e.
LEMMA LineAt ==
  ASSUME NEW b \in Seq(Symbol), NEW from \in 1 .. Len(b) + 1, NEW e \in from .. Len(b) - 1,
         EndsAt(b, e), \A i \in from .. e - 1 : ~EndsAt(b, i)
  PROVE  ReadLine(b, from) = Line(Part(b, from, e - 1), e + 2)
<1>0. Len(b) \in Nat
  OBVIOUS
<1>1. PICK f \in from .. Len(b) - 1 :
        /\ EndsAt(b, f) /\ \A i \in from .. f - 1 : ~EndsAt(b, i)
        /\ ReadLine(b, from) = Line(Part(b, from, f - 1), f + 2)
  BY LineIs
<1>2. f = e
  BY <1>0, <1>1
<1> QED
  BY <1>1, <1>2

\* What a window shows of a part is the part.
LEMMA PartInWindow ==
  ASSUME NEW b, NEW c, NEW k, Window(b, c, k),
         NEW p \in 1 .. Len(b) + 1, NEW q \in p - 1 .. Len(b),
         NEW p2, p2 = k + p, NEW q2, q2 = k + q
  PROVE  Part(c, p2, q2) = Part(b, p, q) /\ Part(b, p, q) \in Seq(Symbol)
<1> DEFINE s == Part(c, p2, q2)
           t == Part(b, p, q)
<1>0. /\ Len(b) \in Nat /\ Len(c) \in Nat /\ k \in Nat /\ k + Len(b) <= Len(c)
      /\ b \in Seq(Symbol) /\ c \in Seq(Symbol)
      /\ \A i \in 1 .. Len(b) : c[k + i] = b[i]
  BY DEF Window
<1>1. t \in Seq(Symbol) /\ Len(t) = q - p + 1 /\ \A i \in 1 .. q - p + 1 : t[i] = b[p - 1 + i]
  BY <1>0 DEF Part
<1>2. s \in Seq(Symbol) /\ Len(s) = q - p + 1 /\ \A i \in 1 .. q - p + 1 : s[i] = c[k + p - 1 + i]
  <2>1. p2 \in 1 .. Len(c) + 1 /\ q2 \in p2 - 1 .. Len(c) /\ q2 - p2 + 1 = q - p + 1 /\ k + p - 1 = p2 - 1
    BY <1>0
  <2> QED
    BY <1>0, <2>1 DEF Part
<1>3. \A i \in 1 .. q - p + 1 : p - 1 + i \in 1 .. Len(b) /\ k + (p - 1 + i) = k + p - 1 + i
  BY <1>0
<1>4. \A i \in 1 .. q - p + 1 : s[i] = t[i]
  BY <1>0, <1>1, <1>2, <1>3
<1> HIDE DEF s, t
<1>5. s = t
  BY <1>1, <1>2, <1>4, SameSeq
<1> QED
  BY <1>1, <1>5 DEF s, t

\* A line that is complete in a window is the same line around it; one that is
\* not, in a window up to the end, is not complete either way.
LEMMA LineInWindow ==
  ASSUME NEW b, NEW c, NEW k, Window(b, c, k), NEW from \in 1 .. Len(b) + 1
  PROVE  \/ /\ ReadLine(b, from) = More
            /\ Len(c) = k + Len(b) => ReadLine(c, k + from) = More
         \/ \E text \in Seq(Symbol), next \in from + 2 .. Len(b) + 1 :
              /\ ReadLine(b, from) = Line(text, next)
              /\ ReadLine(c, k + from) = Line(text, k + next)
<1>0. /\ Len(b) \in Nat /\ Len(c) \in Nat /\ k \in Nat /\ k + Len(b) <= Len(c)
      /\ b \in Seq(Symbol) /\ c \in Seq(Symbol)
      /\ \A i \in 1 .. Len(b) : c[k + i] = b[i]
  BY DEF Window
<1>1. k + from \in 1 .. Len(c) + 1
  BY <1>0
<1>2. \A i \in 1 .. Len(b) - 1 : EndsAt(c, k + i) = EndsAt(b, i)
  <2>1. ASSUME NEW i \in 1 .. Len(b) - 1 PROVE EndsAt(c, k + i) = EndsAt(b, i)
    <3>1. i \in 1 .. Len(b) /\ i + 1 \in 1 .. Len(b) /\ k + (i + 1) = (k + i) + 1
      BY <1>0
    <3>2. c[k + i] = b[i] /\ c[k + (i + 1)] = b[i + 1]
      BY <1>0, <3>1
    <3> QED
      BY <3>1, <3>2 DEF EndsAt
  <2> QED
    BY <2>1
<1>3. CASE ReadLine(b, from) = More /\ \A i \in from .. Len(b) - 1 : ~EndsAt(b, i)
  <2>1. ASSUME Len(c) = k + Len(b), NEW e \in k + from .. Len(c) - 1, EndsAt(c, e) PROVE FALSE
    <3>1. e - k \in from .. Len(b) - 1 /\ k + (e - k) = e
      BY <1>0, <2>1
    <3> QED
      BY <1>2, <1>3, <2>1, <3>1
  <2>2. Len(c) = k + Len(b) => ReadLine(c, k + from) = More
    BY <1>0, <1>1, <2>1, LineIs
  <2> QED
    BY <1>3, <2>2
<1>4. CASE \E e \in from .. Len(b) - 1 :
              /\ EndsAt(b, e) /\ \A i \in from .. e - 1 : ~EndsAt(b, i)
              /\ ReadLine(b, from) = Line(Part(b, from, e - 1), e + 2)
  <2>1. PICK e \in from .. Len(b) - 1 :
              /\ EndsAt(b, e) /\ \A i \in from .. e - 1 : ~EndsAt(b, i)
              /\ ReadLine(b, from) = Line(Part(b, from, e - 1), e + 2)
    BY <1>4
  <2>2. k + e \in k + from .. Len(c) - 1 /\ EndsAt(c, k + e)
    BY <1>0, <1>2, <2>1
  <2>3. ASSUME NEW i \in k + from .. (k + e) - 1 PROVE ~EndsAt(c, i)
    <3>1. i - k \in from .. e - 1 /\ i - k \in 1 .. Len(b) - 1 /\ k + (i - k) = i
      BY <1>0
    <3> QED
      BY <1>2, <2>1, <3>1
  <2>4. ReadLine(c, k + from) = Line(Part(c, k + from, (k + e) - 1), (k + e) + 2)
    BY <1>0, <1>1, <2>2, <2>3, LineAt
  <2>5. (k + e) - 1 = k + (e - 1) /\ (k + e) + 2 = k + (e + 2) /\ e - 1 \in from - 1 .. Len(b)
        /\ e + 2 \in from + 2 .. Len(b) + 1
    BY <1>0
  <2>6. Part(c, k + from, k + (e - 1)) = Part(b, from, e - 1) /\ Part(b, from, e - 1) \in Seq(Symbol)
    BY <2>5, PartInWindow
  <2> QED
    BY <2>1, <2>4, <2>5, <2>6
<1> QED
  BY <1>0, <1>3, <1>4, LineIs

-----------------------------------------------------------------------------
(* Numbers *)

\* The value of each digit.
LEMMA DigitIs ==
  /\ DOMAIN Digit = 1 .. 10 /\ DOMAIN DigitValue = ToSet(Digit)
  /\ \A i \in 1 .. 10 : /\ Digit[i] \in ToSet(Digit) /\ Digit[i] \in Symbol
                        /\ Digit[i] \notin {"cr", "lf", "-"} /\ DigitValue[Digit[i]] = i - 1
  /\ \A d \in ToSet(Digit) : DigitValue[d] \in 0 .. 9
<1>1. /\ DOMAIN Digit = 1 .. 10
      /\ \A i \in 1 .. 10 : Digit[i] \in Symbol /\ Digit[i] \notin {"cr", "lf", "-"}
  <2>1. DOMAIN Digit = 1 .. 10 /\ \A i \in 1 .. 10 : Digit[i] \in Symbol
    <3>1. DOMAIN Digit = 1 .. 10
      BY DEF Digit
    <3>2. \A i \in DOMAIN Digit : Digit[i] \in Symbol
      BY SymbolAssumption DEF ToSet
    <3> QED
      BY <3>1, <3>2
  <2>2. \A i \in 1 .. 10 : Digit[i] # "cr" /\ Digit[i] # "lf" /\ Digit[i] # "-"
    BY DEF Digit
  <2> HIDE DEF Digit
  <2> QED
    BY <2>1, <2>2
<1>2. \A i, j \in 1 .. 10 : Digit[i] = Digit[j] => i = j
  BY DEF Digit
<1>3. ToSet(Digit) = {Digit[i] : i \in 1 .. 10} /\ DOMAIN DigitValue = ToSet(Digit)
  BY <1>1 DEF ToSet, DigitValue
<1>4. ASSUME NEW i \in 1 .. 10 PROVE DigitValue[Digit[i]] = i - 1
  <2> DEFINE j == CHOOSE j \in DOMAIN Digit : Digit[j] = Digit[i]
  <2>1. j \in 1 .. 10 /\ Digit[j] = Digit[i]
    BY <1>1
  <2>2. DigitValue[Digit[i]] = j - 1
    BY <1>3 DEF DigitValue
  <2> HIDE DEF j
  <2> QED
    BY <1>2, <2>1, <2>2
<1> QED
  BY <1>1, <1>3, <1>4

\* The equation of the recursive function in Number.
NumberStep(f, text, n) == IF n = 0 THEN 0 ELSE 10 * f[n - 1] + DigitValue[text[n]]

AllDigits(text) == \A i \in DOMAIN text : text[i] \in DOMAIN DigitValue

\* The equation has a solution.
LEMMA NumberExists ==
  ASSUME NEW text, NEW len \in Nat PROVE \E f : f = [n \in 0 .. len |-> NumberStep(f, text, n)]
<1> DEFINE Upto(f, n) == \A m \in 0 .. n : f[m] = NumberStep(f, text, m)
           N == {n \in Nat : \E f : Upto(f, n)}
<1>1. 0 \in N
  <2>1. Upto([m \in 0 .. 0 |-> 0], 0)
    BY DEF NumberStep
  <2> QED
    BY <2>1
<1>2. ASSUME NEW n \in N PROVE n + 1 \in N
  <2>1. PICK f : Upto(f, n)
    OBVIOUS
  <2> DEFINE g == [m \in 0 .. n + 1 |-> IF m <= n THEN f[m] ELSE NumberStep(f, text, m)]
  <2>2. (\A m \in 0 .. n : g[m] = f[m]) /\ g[n + 1] = NumberStep(f, text, n + 1)
    OBVIOUS
  <2> HIDE DEF g
  <2>3. Upto(g, n + 1)
    BY <2>1, <2>2 DEF NumberStep
  <2> QED
    BY <2>3
<1>3. N = Nat
  <2> HIDE DEF N
  <2>1. N \in SUBSET Nat
    BY DEF N
  <2> QED
    BY <1>1, <1>2, <2>1, SetInduction
<1>4. PICK f : Upto(f, len)
  BY <1>3
<1> DEFINE g == [n \in 0 .. len |-> f[n]]
<1>5. \A m \in 0 .. len : f[m] = NumberStep(g, text, m)
  BY <1>4 DEF NumberStep
<1> QED
  BY <1>5

\* Number is the value of a solution at the text's length.
LEMMA NumberUnfolds ==
  ASSUME NEW text \in Seq(Symbol)
  PROVE  \E f : /\ \A n \in 0 .. Len(text) : f[n] = NumberStep(f, text, n)
                /\ Number(text) = IF text = <<"-", "1">> THEN -1
                                  ELSE IF AllDigits(text) THEN f[Len(text)] ELSE -2
<1> DEFINE f == CHOOSE f : f = [n \in 0 .. Len(text) |-> NumberStep(f, text, n)]
<1>1. Len(text) \in Nat
  OBVIOUS
<1>2. f = [n \in 0 .. Len(text) |-> NumberStep(f, text, n)]
  BY <1>1, NumberExists
<1>3. Number(text) = IF text = <<"-", "1">> THEN -1
                     ELSE IF AllDigits(text) THEN f[Len(text)] ELSE -2
  BY Zenon DEF Number, NumberStep, AllDigits
<1> HIDE DEF f
<1> QED
  BY <1>2, <1>3

\* A text of digits is a natural number.
LEMMA NumberOfDigits ==
  ASSUME NEW text \in Seq(Symbol), AllDigits(text), NEW f,
         \A n \in 0 .. Len(text) : f[n] = NumberStep(f, text, n)
  PROVE  \A n \in 0 .. Len(text) : f[n] \in Nat
<1> DEFINE N == {n \in Nat : n <= Len(text) => f[n] \in Nat}
<1>0. Len(text) \in Nat /\ DOMAIN text = 1 .. Len(text)
  OBVIOUS
<1>1. 0 \in N
  BY <1>0 DEF NumberStep
<1>2. ASSUME NEW n \in N PROVE n + 1 \in N
  <2> SUFFICES ASSUME n + 1 <= Len(text) PROVE f[n + 1] \in Nat
    OBVIOUS
  <2>1. DigitValue[text[n + 1]] \in 0 .. 9
    BY <1>0, DigitIs DEF AllDigits
  <2>2. f[n + 1] = 10 * f[n] + DigitValue[text[n + 1]] /\ f[n] \in Nat
    BY <1>0 DEF NumberStep
  <2> QED
    BY <2>1, <2>2
<1>3. N = Nat
  <2> HIDE DEF N
  <2>1. N \in SUBSET Nat
    BY DEF N
  <2> QED
    BY <1>1, <1>2, <2>1, SetInduction
<1> QED
  BY <1>0, <1>3

\* What Number returns.
LEMMA NumberType ==
  ASSUME NEW text \in Seq(Symbol) PROVE Number(text) \in Int /\ (Number(text) < 0 \/ Number(text) \in Nat)
<1>0. Len(text) \in 0 .. Len(text)
  OBVIOUS
<1>1. PICK f : /\ \A n \in 0 .. Len(text) : f[n] = NumberStep(f, text, n)
               /\ Number(text) = IF text = <<"-", "1">> THEN -1
                                 ELSE IF AllDigits(text) THEN f[Len(text)] ELSE -2
  BY NumberUnfolds
<1>2. AllDigits(text) => f[Len(text)] \in Nat
  BY <1>0, <1>1, NumberOfDigits
<1> QED
  BY <1>1, <1>2

\* One more digit.
LEMMA NumberAppend ==
  ASSUME NEW text \in Seq(Symbol), AllDigits(text), NEW d \in ToSet(Digit), d \in Symbol
  PROVE  /\ AllDigits(Append(text, d)) /\ Number(text) \in Nat
         /\ Number(Append(text, d)) = 10 * Number(text) + DigitValue[d]
<1> DEFINE t2 == Append(text, d)
<1>1. /\ t2 \in Seq(Symbol) /\ Len(t2) = Len(text) + 1 /\ Len(text) \in Nat
      /\ \A i \in 1 .. Len(text) : t2[i] = text[i]
      /\ t2[Len(text) + 1] = d
      /\ DOMAIN t2 = 1 .. Len(t2) /\ DOMAIN text = 1 .. Len(text)
  <2>1. Len(text) \in Nat
    OBVIOUS
  <2>2. /\ t2 \in Seq(Symbol) /\ Len(t2) = Len(text) + 1
        /\ \A i \in 1 .. Len(text) : t2[i] = text[i]
        /\ t2[Len(text) + 1] = d
    BY Appended
  <2> HIDE DEF t2
  <2> QED
    BY <2>1, <2>2
<1> HIDE DEF t2
<1>2. AllDigits(t2)
  <2>1. ASSUME NEW i \in DOMAIN t2 PROVE t2[i] \in DOMAIN DigitValue
    <3>1. i \in 1 .. Len(text) \/ i = Len(text) + 1
      BY <1>1
    <3> QED
      BY <1>1, <3>1, DigitIs DEF AllDigits
  <2> QED
    BY <2>1 DEF AllDigits
<1>3. PICK f : /\ \A n \in 0 .. Len(text) : f[n] = NumberStep(f, text, n)
               /\ Number(text) = IF text = <<"-", "1">> THEN -1
                                 ELSE IF AllDigits(text) THEN f[Len(text)] ELSE -2
  BY NumberUnfolds
<1>4. PICK g : /\ \A n \in 0 .. Len(t2) : g[n] = NumberStep(g, t2, n)
               /\ Number(t2) = IF t2 = <<"-", "1">> THEN -1
                               ELSE IF AllDigits(t2) THEN g[Len(t2)] ELSE -2
  BY <1>1, NumberUnfolds
<1>5. "-" \notin DOMAIN DigitValue
  BY DigitIs DEF ToSet
<1>6. ASSUME NEW t \in Seq(Symbol), AllDigits(t) PROVE t # <<"-", "1">>
  <2> SUFFICES ASSUME t = <<"-", "1">> PROVE FALSE
    OBVIOUS
  <2>1. 1 \in DOMAIN t /\ t[1] = "-"
    OBVIOUS
  <2> QED
    BY <1>5, <1>6, <2>1 DEF AllDigits
<1>7. Number(text) = f[Len(text)] /\ Number(t2) = g[Len(t2)]
  BY <1>1, <1>2, <1>3, <1>4, <1>6
<1> DEFINE N == {n \in Nat : n <= Len(text) => f[n] = g[n]}
<1>8. 0 \in N
  BY <1>1, <1>3, <1>4 DEF NumberStep
<1>9. ASSUME NEW n \in N PROVE n + 1 \in N
  BY <1>1, <1>3, <1>4 DEF NumberStep
<1>10. N = Nat
  <2> HIDE DEF N
  <2>1. N \in SUBSET Nat
    BY DEF N
  <2> QED
    BY <1>8, <1>9, <2>1, SetInduction
<1>11. f[Len(text)] = g[Len(text)]
  BY <1>1, <1>10
<1>12. g[Len(text) + 1] = 10 * g[Len(text)] + DigitValue[d]
  BY <1>1, <1>4 DEF NumberStep
<1>13. f[Len(text)] \in Nat
  BY <1>1, <1>3, NumberOfDigits
<1> QED
  BY <1>1, <1>2, <1>7, <1>11, <1>12, <1>13 DEF t2

-----------------------------------------------------------------------------
(* Decimals *)

\* Division by ten.
LEMMA ByTen ==
  ASSUME NEW m \in Nat
  PROVE  /\ m \div 10 \in Nat /\ m % 10 \in 0 .. 9 /\ m = 10 * (m \div 10) + (m % 10)
         /\ m >= 10 => m \div 10 <= m - 1
         /\ m < 10 => m \div 10 = 0
OBVIOUS

\* The equation of the recursive function in Digits.
DigitsStep(f, m) == (IF m < 10 THEN <<>> ELSE f[m \div 10]) \o <<Digit[(m % 10) + 1]>>

\* The equation has a solution.
LEMMA DigitsExist ==
  ASSUME NEW n \in Nat PROVE \E f : f = [m \in 0 .. n |-> DigitsStep(f, m)]
<1> DEFINE Upto(f, k) == \A m \in 0 .. k : f[m] = DigitsStep(f, m)
           N == {k \in Nat : \E f : Upto(f, k)}
<1>0. ASSUME NEW f, NEW g, NEW m \in Nat, \A j \in 0 .. m - 1 : f[j] = g[j]
      PROVE  DigitsStep(f, m) = DigitsStep(g, m)
  <2>1. CASE m < 10
    BY <2>1 DEF DigitsStep
  <2>2. CASE ~(m < 10)
    <3>1. m \div 10 \in 0 .. m - 1
      BY <2>2, ByTen
    <3>2. f[m \div 10] = g[m \div 10]
      BY <1>0, <3>1
    <3> QED
      BY <3>2 DEF DigitsStep
  <2> QED
    BY <2>1, <2>2
<1>1. 0 \in N
  <2>1. Upto([m \in 0 .. 0 |-> DigitsStep(<<>>, 0)], 0)
    <3> DEFINE g == [m \in 0 .. 0 |-> DigitsStep(<<>>, 0)]
    <3>1. g[0] = DigitsStep(<<>>, 0)
      OBVIOUS
    <3> HIDE DEF g
    <3>2. DigitsStep(<<>>, 0) = DigitsStep(g, 0)
      BY <1>0
    <3> QED
      BY <3>1, <3>2 DEF g
  <2> QED
    BY <2>1
<1>2. ASSUME NEW k \in N PROVE k + 1 \in N
  <2>1. PICK f : Upto(f, k)
    OBVIOUS
  <2> DEFINE g == [m \in 0 .. k + 1 |-> IF m <= k THEN f[m] ELSE DigitsStep(f, m)]
  <2>2. (\A m \in 0 .. k : g[m] = f[m]) /\ g[k + 1] = DigitsStep(f, k + 1)
    OBVIOUS
  <2> HIDE DEF g
  <2>3. ASSUME NEW m \in 0 .. k + 1 PROVE g[m] = DigitsStep(g, m)
    <3>1. DigitsStep(f, m) = DigitsStep(g, m)
      BY <1>0, <2>2
    <3> QED
      BY <2>1, <2>2, <3>1
  <2>4. Upto(g, k + 1)
    BY <2>3
  <2> QED
    BY <2>4
<1>3. N = Nat
  <2> HIDE DEF N
  <2>1. N \in SUBSET Nat
    BY DEF N
  <2> QED
    BY <1>1, <1>2, <2>1, SetInduction
<1>4. PICK f : Upto(f, n)
  BY <1>3
<1> DEFINE g == [m \in 0 .. n |-> f[m]]
<1>5. ASSUME NEW m \in 0 .. n PROVE f[m] = DigitsStep(g, m)
  <2>1. DigitsStep(f, m) = DigitsStep(g, m)
    BY <1>0
  <2> QED
    BY <1>4, <2>1
<1> QED
  BY <1>5

\* The number of no digits is zero.
LEMMA NumberOfNone ==
  ASSUME NEW t \in Seq(Symbol), Len(t) = 0 PROVE AllDigits(t) /\ Number(t) = 0
<1>1. t # <<"-", "1">>
  <2>1. Len(<<"-", "1">>) = 2
    OBVIOUS
  <2> QED
    BY <2>1
<1>2. AllDigits(t)
  BY DEF AllDigits
<1>3. PICK f : /\ \A n \in 0 .. Len(t) : f[n] = NumberStep(f, t, n)
               /\ Number(t) = IF t = <<"-", "1">> THEN -1 ELSE IF AllDigits(t) THEN f[Len(t)] ELSE -2
  BY NumberUnfolds
<1>4. f[0] = 0
  BY <1>3 DEF NumberStep
<1> QED
  BY <1>1, <1>2, <1>3, <1>4

\* Digits spells the number that Number reads.
LEMMA DigitsRead ==
  ASSUME NEW n \in Nat
  PROVE  /\ Digits(n) \in Seq(Symbol) /\ Number(Digits(n)) = n
         /\ \A i \in 1 .. Len(Digits(n)) : Digits(n)[i] # "cr"
<1> DEFINE f == CHOOSE f : f = [m \in 0 .. n |-> DigitsStep(f, m)]
           Good(t, m) == t \in Seq(Symbol) /\ AllDigits(t) /\ Number(t) = m
<1>1. Digits(n) = f[n]
  BY Zenon DEF Digits, DigitsStep
<1>2. f = [m \in 0 .. n |-> DigitsStep(f, m)]
  BY DigitsExist
<1> HIDE DEF f
<1>3. <<>> \in Seq(Symbol) /\ AllDigits(<<>>) /\ Number(<<>>) = 0
  BY EmptyIsSeq, NumberOfNone
<1> DEFINE N == {k \in Nat : \A m \in 0 .. n : m <= k => Good(f[m], m)}
<1>4. ASSUME NEW m \in 0 .. n, m >= 10 => Good(f[m \div 10], m \div 10) PROVE Good(f[m], m)
  <2> DEFINE q == m \div 10
             head == IF m < 10 THEN <<>> ELSE f[q]
             d == Digit[(m % 10) + 1]
  <2>1. m \in Nat /\ q \in Nat /\ m % 10 \in 0 .. 9 /\ m = 10 * q + (m % 10) /\ (m < 10 => q = 0)
    BY ByTen
  <2>2. Good(head, q)
    BY <1>3, <1>4, <2>1
  <2>3. d \in ToSet(Digit) /\ d \in Symbol /\ DigitValue[d] = m % 10
    BY <2>1, DigitIs
  <2>4. f[m] = head \o <<d>>
    BY <1>2 DEF DigitsStep
  <2> HIDE DEF head, d, q
  <2>5. f[m] = Append(head, d)
    BY <2>2, <2>3, <2>4
  <2>6. AllDigits(Append(head, d)) /\ Number(Append(head, d)) = 10 * Number(head) + DigitValue[d]
    BY <2>2, <2>3, NumberAppend
  <2>7. Append(head, d) \in Seq(Symbol)
    BY <2>2, <2>3
  <2> QED
    BY <2>1, <2>2, <2>3, <2>5, <2>6, <2>7
<1> HIDE DEF Good
<1>5. 0 \in N
  BY <1>4
<1>6. ASSUME NEW k \in N PROVE k + 1 \in N
  <2>1. ASSUME NEW m \in 0 .. n, m <= k + 1 PROVE Good(f[m], m)
    <3>1. m >= 10 => m \div 10 \in 0 .. n /\ m \div 10 <= k
      BY <2>1, ByTen
    <3> QED
      BY <1>4, <3>1
  <2> QED
    BY <2>1
<1>7. N = Nat
  <2> HIDE DEF N
  <2>1. N \in SUBSET Nat
    BY DEF N
  <2> QED
    BY <1>5, <1>6, <2>1, SetInduction
<1>8. Good(f[n], n)
  BY <1>7
<1>9. \A t \in Seq(Symbol) : AllDigits(t) => \A i \in 1 .. Len(t) : t[i] # "cr"
  <2> SUFFICES ASSUME NEW t \in Seq(Symbol), AllDigits(t), NEW i \in 1 .. Len(t) PROVE t[i] # "cr"
    OBVIOUS
  <2>1. i \in DOMAIN t
    OBVIOUS
  <2>2. t[i] \in ToSet(Digit)
    BY <2>1, DigitIs DEF AllDigits
  <2> QED
    BY <2>2, DigitIs DEF ToSet
<1> QED
  BY <1>1, <1>8, <1>9 DEF Good

-----------------------------------------------------------------------------
(* What is parsed in a window *)

\* The results of the parser: a value ends at or behind the offset `from`, in a
\* buffer of length len.
Result(r, from, len) ==
  \/ r = More \/ r = Throws
  \/ r = Got(r.value, r.next) /\ r.next \in from .. len + 1

\* What the parser finds in a window, r, it finds around it, s; whether more is
\* needed says only a window up to the end.
Agrees(r, s, k, toTheEnd) ==
  \/ r = More /\ (toTheEnd => s = More)
  \/ r = Throws /\ s = Throws
  \/ r = Got(r.value, r.next) /\ s = Got(r.value, k + r.next)

ToTheEnd(b, c, k) == Len(c) = k + Len(b)

\* The three results differ, and a value is a record of its parts.
LEMMA ResultsDiffer ==
  /\ More # Throws
  /\ \A v, n : Got(v, n) # More /\ Got(v, n) # Throws
  /\ \A v, n : Got(v, n).value = v /\ Got(v, n).next = n /\ Got(v, n).got = "value"
  /\ More.got = "more" /\ Throws.got = "error"
BY DEF More, Throws, Got

\* What ParseBulkString returns.
LEMMA BulkIs ==
  ASSUME NEW b, NEW text \in Seq(Symbol), NEW next
  PROVE  LET r == ParseBulkString(b, Line(text, next))
             end == next + Number(text)
         IN  /\ Number(text) = -1 => r = Got(<<"null">>, next)
             /\ Number(text) < -1 \/ Number(text) > MaxBulk => r = Throws
             /\ Number(text) \in 0 .. MaxBulk =>
                  r = IF Len(b) < end + 1 THEN More
                      ELSE IF Part(b, end, end + 1) # Crlf THEN Throws
                      ELSE Got(<<"str", ToText(Part(b, next, end - 1))>>, end + 2)
<1> DEFINE length == Number(text)
           end == next + length
           r == ParseBulkString(b, Line(text, next))
           otherwise == IF Len(b) < end + 1 THEN More
                        ELSE IF Part(b, end, end + 1) # Crlf THEN Throws
                        ELSE Got(<<"str", ToText(Part(b, next, end - 1))>>, end + 2)
<1>1. length \in Int /\ MaxBulk \in Nat
  BY NumberType, ParserAssumption
<1>2. Line(text, next).text = text /\ Line(text, next).next = next
  BY DEF Line
<1>3. r = CASE length = -1 -> Got(<<"null">>, next)
            [] length < -1 \/ length > MaxBulk -> Throws
            [] OTHER -> otherwise
  BY <1>2, Zenon DEF ParseBulkString, Part
<1> HIDE DEF length, r, otherwise
<1>4. /\ length = -1 => r = Got(<<"null">>, next)
      /\ length < -1 \/ length > MaxBulk => r = Throws
      /\ length \in 0 .. MaxBulk => r = otherwise
  BY <1>1, <1>3
<1> QED
  BY <1>4 DEF length, r, otherwise

\* A bulk string in a window.
LEMMA BulkInWindow ==
  ASSUME NEW b, NEW c, NEW k, Window(b, c, k), NEW text \in Seq(Symbol),
         NEW next \in 1 .. Len(b) + 1
  PROVE  LET r == ParseBulkString(b, Line(text, next))
             s == ParseBulkString(c, Line(text, k + next))
         IN  Result(r, next, Len(b)) /\ Agrees(r, s, k, ToTheEnd(b, c, k))
<1> DEFINE length == Number(text)
           end == next + length
           r == ParseBulkString(b, Line(text, next))
           s == ParseBulkString(c, Line(text, k + next))
           value(d, n, e) == <<"str", ToText(Part(d, n, e - 1))>>
           Fits(x, y) == Result(x, next, Len(b)) /\ Agrees(x, y, k, ToTheEnd(b, c, k))
<1> SUFFICES Fits(r, s)
  OBVIOUS
<1>0. /\ Len(b) \in Nat /\ Len(c) \in Nat /\ k \in Nat /\ k + Len(b) <= Len(c)
      /\ b \in Seq(Symbol) /\ c \in Seq(Symbol)
  BY DEF Window
<1>1. length \in Int /\ (k + next) + length = k + end /\ MaxBulk \in Nat /\ end \in Int
  BY <1>0, NumberType, ParserAssumption
<1>3. /\ length = -1 => r = Got(<<"null">>, next)
      /\ length < -1 \/ length > MaxBulk => r = Throws
      /\ length \in 0 .. MaxBulk =>
           r = IF Len(b) < end + 1 THEN More
               ELSE IF Part(b, end, end + 1) # Crlf THEN Throws
               ELSE Got(value(b, next, end), end + 2)
  BY BulkIs
<1>4. /\ length = -1 => s = Got(<<"null">>, k + next)
      /\ length < -1 \/ length > MaxBulk => s = Throws
      /\ length \in 0 .. MaxBulk =>
           s = IF Len(c) < (k + end) + 1 THEN More
               ELSE IF Part(c, k + end, (k + end) + 1) # Crlf THEN Throws
               ELSE Got(value(c, k + next, k + end), (k + end) + 2)
  <2> DEFINE e2 == (k + next) + length
  <2>1. /\ length = -1 => s = Got(<<"null">>, k + next)
        /\ length < -1 \/ length > MaxBulk => s = Throws
        /\ length \in 0 .. MaxBulk =>
             s = IF Len(c) < e2 + 1 THEN More
                 ELSE IF Part(c, e2, e2 + 1) # Crlf THEN Throws
                 ELSE Got(value(c, k + next, e2), e2 + 2)
    BY BulkIs
  <2>2. e2 = k + end
    BY <1>1
  <2> HIDE DEF e2, value, s
  <2> QED
    BY <2>1, <2>2
<1> HIDE DEF length, end, r, s, value, Fits
<1>5. CASE length = -1
  <2>1. r = Got(<<"null">>, next) /\ s = Got(<<"null">>, k + next)
    BY <1>3, <1>4, <1>5
  <2> QED
    BY <1>0, <2>1, ResultsDiffer DEF Result, Agrees, Fits
<1>6. CASE length < -1 \/ length > MaxBulk
  <2>1. r = Throws /\ s = Throws
    BY <1>3, <1>4, <1>6
  <2> QED
    BY <2>1 DEF Result, Agrees, Fits
<1>7. CASE length \in 0 .. MaxBulk /\ Len(b) < end + 1
  <2>1. r = More
    BY <1>3, <1>7
  <2>2. ToTheEnd(b, c, k) => s = More
    BY <1>0, <1>1, <1>4, <1>7 DEF ToTheEnd
  <2> QED
    BY <2>1, <2>2 DEF Result, Agrees, Fits
<1>8. CASE length \in 0 .. MaxBulk /\ ~(Len(b) < end + 1)
  <2>1. /\ end \in 1 .. Len(b) + 1 /\ end + 1 \in end - 1 .. Len(b)
        /\ end - 1 \in next - 1 .. Len(b) /\ end + 2 \in next .. Len(b) + 1
        /\ ~(Len(c) < (k + end) + 1)
        /\ (k + end) + 1 = k + (end + 1) /\ (k + end) - 1 = k + (end - 1) /\ (k + end) + 2 = k + (end + 2)
    BY <1>0, <1>1, <1>8 DEF end
  <2>2. Part(c, k + end, k + (end + 1)) = Part(b, end, end + 1)
    <3> DEFINE q == end + 1
    <3>1. end \in 1 .. Len(b) + 1 /\ q \in end - 1 .. Len(b)
      BY <2>1
    <3> HIDE DEF q
    <3>2. Part(c, k + end, k + q) = Part(b, end, q)
      BY <3>1, PartInWindow
    <3> QED
      BY <3>2 DEF q
  <2>3. Part(c, k + next, k + (end - 1)) = Part(b, next, end - 1)
    <3> DEFINE q == end - 1
    <3>1. next \in 1 .. Len(b) + 1 /\ q \in next - 1 .. Len(b)
      BY <2>1
    <3> HIDE DEF q
    <3>2. Part(c, k + next, k + q) = Part(b, next, q)
      BY <3>1, PartInWindow
    <3> QED
      BY <3>2 DEF q
  <2>4. value(c, k + next, k + end) = value(b, next, end)
    BY <2>1, <2>3 DEF value
  <2>5. r = IF Part(b, end, end + 1) # Crlf THEN Throws ELSE Got(value(b, next, end), end + 2)
    BY <1>3, <1>8
  <2>6. s = IF Part(b, end, end + 1) # Crlf THEN Throws ELSE Got(value(b, next, end), k + (end + 2))
    BY <1>4, <1>8, <2>1, <2>2, <2>4
  <2> QED
    BY <2>1, <2>5, <2>6, ResultsDiffer DEF Result, Agrees, Fits
<1> QED
  BY <1>1, <1>5, <1>6, <1>7, <1>8

-----------------------------------------------------------------------------
(* Arrays *)

\* The equation of the recursive function in ParseArray.
ArrayStep(f, element, next, n) ==
  IF n = 0 THEN Got(<<"arr", <<>> >>, next)
  ELSE LET before == f[n - 1]
           elem == element[before.next]
       IN  IF before.got # "value" THEN before
           ELSE IF elem.got # "value" THEN elem
           ELSE Got(<<"arr", Append(before.value[2], elem.value)>>, elem.next)

\* The equation has a solution.
LEMMA ArrayExists ==
  ASSUME NEW element, NEW next, NEW len \in Nat
  PROVE  \E f : f = [n \in 0 .. len |-> ArrayStep(f, element, next, n)]
<1> DEFINE Upto(f, n) == \A m \in 0 .. n : f[m] = ArrayStep(f, element, next, m)
           N == {n \in Nat : \E f : Upto(f, n)}
<1>0. ASSUME NEW f, NEW g, NEW m \in Nat, m # 0 => f[m - 1] = g[m - 1]
      PROVE  ArrayStep(f, element, next, m) = ArrayStep(g, element, next, m)
  BY Zenon, <1>0 DEF ArrayStep
<1>1. 0 \in N
  <2>1. Upto([m \in 0 .. 0 |-> Got(<<"arr", <<>> >>, next)], 0)
    BY DEF ArrayStep
  <2> QED
    BY <2>1
<1>2. ASSUME NEW n \in N PROVE n + 1 \in N
  <2>1. PICK f : Upto(f, n)
    OBVIOUS
  <2> DEFINE g == [m \in 0 .. n + 1 |-> IF m <= n THEN f[m] ELSE ArrayStep(f, element, next, m)]
  <2>2. (\A m \in 0 .. n : g[m] = f[m]) /\ g[n + 1] = ArrayStep(f, element, next, n + 1)
    OBVIOUS
  <2> HIDE DEF g
  <2>3. ASSUME NEW m \in 0 .. n + 1 PROVE g[m] = ArrayStep(g, element, next, m)
    <3>1. ArrayStep(f, element, next, m) = ArrayStep(g, element, next, m)
      BY <1>0, <2>2
    <3> QED
      BY <2>1, <2>2, <3>1
  <2> QED
    BY <2>3
<1>3. N = Nat
  <2> HIDE DEF N
  <2>1. N \in SUBSET Nat
    BY DEF N
  <2> QED
    BY <1>1, <1>2, <2>1, SetInduction
<1>4. PICK f : Upto(f, len)
  BY <1>3
<1> DEFINE g == [n \in 0 .. len |-> f[n]]
<1>5. ASSUME NEW m \in 0 .. len PROVE f[m] = ArrayStep(g, element, next, m)
  <2>1. ArrayStep(f, element, next, m) = ArrayStep(g, element, next, m)
    BY <1>0
  <2> QED
    BY <1>4, <2>1
<1> QED
  BY <1>5

\* ParseArray is the value of a solution at the array's length.
LEMMA ArrayUnfolds ==
  ASSUME NEW element, NEW text \in Seq(Symbol), NEW next
  PROVE  /\ Number(text) = -1 => ParseArray(element, Line(text, next)) = Got(<<"null">>, next)
         /\ Number(text) < -1 => ParseArray(element, Line(text, next)) = Throws
         /\ Number(text) \in Nat =>
              \E f : /\ \A n \in 0 .. Number(text) : f[n] = ArrayStep(f, element, next, n)
                     /\ ParseArray(element, Line(text, next)) = f[Number(text)]
<1> DEFINE line == Line(text, next)
           length == Number(line.text)
           f == CHOOSE f : f = [n \in 0 .. length |-> ArrayStep(f, element, line.next, n)]
<1>1. line.text = text /\ line.next = next
  BY DEF Line
<1> HIDE DEF line
<1>2. ParseArray(element, line) =
        IF length = -1 THEN Got(<<"null">>, line.next)
        ELSE IF length < -1 THEN Throws ELSE f[length]
  BY Zenon DEF ParseArray, ArrayStep
<1>3. length \in Nat => f = [n \in 0 .. length |-> ArrayStep(f, element, line.next, n)]
  <2> HIDE DEF length
  <2>1. length \in Nat => \E g : g = [n \in 0 .. length |-> ArrayStep(g, element, line.next, n)]
    BY ArrayExists
  <2> QED
    BY <2>1
<1>4. length \in Int /\ length = Number(text)
  BY <1>1, NumberType
<1> HIDE DEF f, length
<1>5. length \in Nat => \A n \in 0 .. length : f[n] = ArrayStep(f, element, next, n)
  BY <1>1, <1>3
<1> QED
  BY <1>1, <1>2, <1>4, <1>5 DEF line

\* An array in a window, when its elements in the window are those around it.
LEMMA ArrayInWindow ==
  ASSUME NEW b, NEW c, NEW k, Window(b, c, k), NEW text \in Seq(Symbol),
         NEW next \in 1 .. Len(b) + 1, NEW el, NEW el2,
         \A pos \in 1 .. Len(b) + 1 : /\ Result(el[pos], pos + 1, Len(b))
                                     /\ Agrees(el[pos], el2[k + pos], k, ToTheEnd(b, c, k))
  PROVE  LET r == ParseArray(el, Line(text, next))
             s == ParseArray(el2, Line(text, k + next))
         IN  Result(r, next, Len(b)) /\ Agrees(r, s, k, ToTheEnd(b, c, k))
<1> DEFINE length == Number(text)
           r == ParseArray(el, Line(text, next))
           s == ParseArray(el2, Line(text, k + next))
           end == ToTheEnd(b, c, k)
           Fits(x, y) == Result(x, next, Len(b)) /\ Agrees(x, y, k, end)
<1> SUFFICES Fits(r, s)
  OBVIOUS
<1>0. Len(b) \in Nat /\ k \in Nat
  BY DEF Window
<1>1. length \in Int /\ (length < 0 \/ length \in Nat)
  BY NumberType
<1>2. CASE length = -1
  <2>1. r = Got(<<"null">>, next) /\ s = Got(<<"null">>, k + next)
    BY <1>2, ArrayUnfolds
  <2> HIDE DEF r, s, end
  <2> QED
    BY <1>0, <2>1, ResultsDiffer DEF Result, Agrees
<1>3. CASE length < -1
  <2>1. r = Throws /\ s = Throws
    BY <1>3, ArrayUnfolds
  <2> HIDE DEF r, s, end
  <2> QED
    BY <2>1 DEF Result, Agrees
<1>4. CASE length \in Nat
  <2>1. PICK f : /\ \A n \in 0 .. length : f[n] = ArrayStep(f, el, next, n)
                 /\ r = f[length]
    BY <1>4, ArrayUnfolds
  <2>2. PICK g : /\ \A n \in 0 .. length : g[n] = ArrayStep(g, el2, k + next, n)
                 /\ s = g[length]
    BY <1>4, ArrayUnfolds
  <2> HIDE DEF r, s, length, end
  <2>3. Fits(f[0], g[0])
    <3>0. 0 \in 0 .. length
      BY <1>4
    <3>1. f[0] = Got(<<"arr", <<>> >>, next) /\ g[0] = Got(<<"arr", <<>> >>, k + next)
      BY Zenon, <2>1, <2>2, <3>0 DEF ArrayStep
    <3> QED
      BY <1>0, <3>1, ResultsDiffer DEF Result, Agrees
  <2>4. ASSUME NEW n \in Nat, n + 1 <= length, Fits(f[n], g[n]) PROVE Fits(f[n + 1], g[n + 1])
    <3> DEFINE x == f[n]
               y == g[n]
    <3>0. /\ f[n + 1] = ArrayStep(f, el, next, n + 1) /\ g[n + 1] = ArrayStep(g, el2, k + next, n + 1)
          /\ n + 1 # 0 /\ (n + 1) - 1 = n
      BY <1>4, <2>1, <2>2, <2>4
    <3>1. f[n + 1] = IF x.got # "value" THEN x
                     ELSE IF el[x.next].got # "value" THEN el[x.next]
                     ELSE Got(<<"arr", Append(x.value[2], el[x.next].value)>>, el[x.next].next)
      BY <3>0 DEF ArrayStep
    <3>2. g[n + 1] = IF y.got # "value" THEN y
                     ELSE IF el2[y.next].got # "value" THEN el2[y.next]
                     ELSE Got(<<"arr", Append(y.value[2], el2[y.next].value)>>, el2[y.next].next)
      BY <3>0 DEF ArrayStep
    <3>3. Fits(x, y)
      BY <2>4
    <3> HIDE DEF x, y
    <3>4. CASE x = More
      BY <3>1, <3>2, <3>3, <3>4, ResultsDiffer DEF Result, Agrees
    <3>5. CASE x = Throws
      BY <3>1, <3>2, <3>3, <3>5, ResultsDiffer DEF Result, Agrees
    <3>6. CASE x = Got(x.value, x.next) /\ x.next \in next .. Len(b) + 1
      <4> DEFINE e == el[x.next]
                 e2 == el2[k + x.next]
      <4>1. y = Got(x.value, k + x.next) /\ x.got = "value" /\ y.got = "value"
            /\ y.next = k + x.next /\ y.value = x.value
        BY <3>3, <3>6, ResultsDiffer DEF Agrees
      <4>2. x.next \in 1 .. Len(b) + 1 /\ x.next \in Nat
        BY <1>0, <3>6
      <4>3. Result(e, x.next + 1, Len(b)) /\ Agrees(e, e2, k, end)
        BY <4>2 DEF end
      <4>4. /\ f[n + 1] = IF e.got # "value" THEN e
                          ELSE Got(<<"arr", Append(x.value[2], e.value)>>, e.next)
            /\ g[n + 1] = IF e2.got # "value" THEN e2
                          ELSE Got(<<"arr", Append(x.value[2], e2.value)>>, e2.next)
        BY <3>1, <3>2, <4>1
      <4> HIDE DEF e, e2
      <4>5. CASE e = More
        <5>1. f[n + 1] = More /\ (end => g[n + 1] = More)
          BY <4>3, <4>4, <4>5, ResultsDiffer DEF Agrees
        <5> QED
          BY <5>1 DEF Result, Agrees
      <4>6. CASE e = Throws
        <5>1. f[n + 1] = Throws /\ g[n + 1] = Throws
          BY <4>3, <4>4, <4>6, ResultsDiffer DEF Agrees
        <5> QED
          BY <5>1 DEF Result, Agrees
      <4>7. CASE e = Got(e.value, e.next) /\ e.next \in x.next + 1 .. Len(b) + 1
        <5> DEFINE v == <<"arr", Append(x.value[2], e.value)>>
        <5>1. e.got = "value" /\ e2.got = "value" /\ e2.value = e.value /\ e2.next = k + e.next
          BY <4>3, <4>7, ResultsDiffer DEF Agrees
        <5>2. f[n + 1] = Got(v, e.next) /\ g[n + 1] = Got(v, k + e.next)
          BY <4>4, <5>1
        <5>3. e.next \in next .. Len(b) + 1
          BY <1>0, <3>6, <4>2, <4>7
        <5> HIDE DEF v
        <5> QED
          BY <5>2, <5>3, ResultsDiffer DEF Result, Agrees
      <4> QED
        BY <4>3, <4>5, <4>6, <4>7 DEF Result
    <3> QED
      BY <3>3, <3>4, <3>5, <3>6 DEF Result
  <2> HIDE DEF Fits
  <2> DEFINE N == {n \in Nat : n <= length => Fits(f[n], g[n])}
  <2>5. 0 \in N
    BY <2>3
  <2>6. ASSUME NEW n \in N PROVE n + 1 \in N
    BY <1>4, <2>4
  <2>7. N = Nat
    <3> HIDE DEF N
    <3>1. N \in SUBSET Nat
      BY DEF N
    <3> QED
      BY <2>5, <2>6, <3>1, SetInduction
  <2>8. Fits(f[length], g[length])
    BY <1>4, <2>7
  <2> QED
    BY <2>1, <2>2, <2>8
<1> QED
  BY <1>1, <1>2, <1>3, <1>4

-----------------------------------------------------------------------------
(* Values *)

\* What ParseValue makes of a prefix and the line behind it.
OfPrefix(prefix, b, element, line) ==
  CASE prefix = "+" -> Got(<<"str", ToText(line.text)>>, line.next)
    [] prefix = "-" -> Got(<<"err", ToText(line.text)>>, line.next)
    [] prefix \in {":", ","} -> Got(<<"num", line.text>>, line.next)
    [] prefix = "#" -> Got(<<"bool", line.text>>, line.next)
    [] prefix = "_" -> Got(<<"null">>, line.next)
    [] prefix = "$" -> ParseBulkString(b, line)
    [] prefix = "*" -> ParseArray(element, line)
    [] OTHER -> Throws

\* ParseValue needs the line, and then goes by the prefix.
LEMMA ValueIs ==
  ASSUME NEW b, NEW pos, NEW element
  PROVE  /\ ReadLine(b, pos + 1) = More => ParseValue(b, pos, element) = More
         /\ \A text, next : ReadLine(b, pos + 1) = Line(text, next) =>
              ParseValue(b, pos, element) = OfPrefix(b[pos], b, element, Line(text, next))
<1> DEFINE line == ReadLine(b, pos + 1)
<1>1. ParseValue(b, pos, element) = IF line.got = "more" THEN More ELSE OfPrefix(b[pos], b, element, line)
  BY Zenon DEF ParseValue, OfPrefix
<1> HIDE DEF line
<1>2. line = More => line.got = "more"
  BY DEF More
<1>3. \A text, next : line = Line(text, next) => line.got = "line"
  BY DEF Line
<1> QED
  BY <1>1, <1>2, <1>3 DEF line

\* A value in a window, when the elements of an array there are those around it.
LEMMA ValueInWindow ==
  ASSUME NEW b, NEW c, NEW k, Window(b, c, k), NEW pos \in 1 .. Len(b), NEW el, NEW el2,
         \A i \in 1 .. Len(b) + 1 : /\ Result(el[i], i + 1, Len(b))
                                    /\ Agrees(el[i], el2[k + i], k, ToTheEnd(b, c, k))
  PROVE  /\ Result(ParseValue(b, pos, el), pos + 1, Len(b))
         /\ Agrees(ParseValue(b, pos, el), ParseValue(c, k + pos, el2), k, ToTheEnd(b, c, k))
<1> DEFINE from == pos + 1
           r == ParseValue(b, pos, el)
           s == ParseValue(c, k + pos, el2)
           end == ToTheEnd(b, c, k)
           Fits(x, y) == Result(x, pos + 1, Len(b)) /\ Agrees(x, y, k, end)
<1> SUFFICES Fits(r, s)
  OBVIOUS
<1>0. /\ Len(b) \in Nat /\ k \in Nat /\ from \in 1 .. Len(b) + 1 /\ (k + pos) + 1 = k + from
      /\ c[k + pos] = b[pos]
  BY DEF Window
<1>1. /\ ReadLine(b, from) = More => r = More
      /\ \A text, next : ReadLine(b, from) = Line(text, next) =>
           r = OfPrefix(b[pos], b, el, Line(text, next))
  BY ValueIs
<1>2. /\ ReadLine(c, k + from) = More => s = More
      /\ \A text, next : ReadLine(c, k + from) = Line(text, next) =>
           s = OfPrefix(b[pos], c, el2, Line(text, next))
  <2> DEFINE a2 == k + pos
  <2>1. /\ ReadLine(c, a2 + 1) = More => s = More
        /\ \A text, next : ReadLine(c, a2 + 1) = Line(text, next) =>
             s = OfPrefix(c[a2], c, el2, Line(text, next))
    BY ValueIs
  <2> HIDE DEF from, s
  <2> QED
    BY <1>0, <2>1
<1> HIDE DEF from, r, s
<1>3. CASE ReadLine(b, from) = More /\ (Len(c) = k + Len(b) => ReadLine(c, k + from) = More)
  <2>1. r = More /\ (end => s = More)
    BY <1>1, <1>2, <1>3 DEF ToTheEnd
  <2> HIDE DEF end
  <2> QED
    BY <2>1 DEF Result, Agrees
<1>4. CASE \E text \in Seq(Symbol), next \in from + 2 .. Len(b) + 1 :
             /\ ReadLine(b, from) = Line(text, next)
             /\ ReadLine(c, k + from) = Line(text, k + next)
  <2>1. PICK text \in Seq(Symbol), next \in from + 2 .. Len(b) + 1 :
             /\ ReadLine(b, from) = Line(text, next)
             /\ ReadLine(c, k + from) = Line(text, k + next)
    BY <1>4
  <2> DEFINE p == b[pos]
             line == Line(text, next)
             line2 == Line(text, k + next)
  <2>2. r = OfPrefix(p, b, el, line) /\ s = OfPrefix(p, c, el2, line2)
    BY <1>1, <1>2, <2>1
  <2>3. /\ line.text = text /\ line.next = next /\ line2.text = text /\ line2.next = k + next
        /\ next \in Nat /\ next \in pos + 1 .. Len(b) + 1 /\ next \in 1 .. Len(b) + 1
    BY <1>0, <2>1 DEF Line, from
  <2> HIDE DEF p, end
  <2>4. ASSUME NEW v, r = Got(v, next), s = Got(v, k + next) PROVE Fits(r, s)
    BY <2>3, <2>4, ResultsDiffer DEF Result, Agrees
  <2>5. ASSUME r = Throws, s = Throws PROVE Fits(r, s)
    BY <2>5 DEF Result, Agrees
  <2>6. ASSUME NEW n \in pos + 1 .. Len(b) + 1, Result(r, n, Len(b)), Agrees(r, s, k, end) PROVE Fits(r, s)
    BY <1>0, <2>6 DEF Result
  <2>7. CASE p = "+"
    BY <2>2, <2>3, <2>4, <2>7 DEF OfPrefix
  <2>8. CASE p = "-"
    BY <2>2, <2>3, <2>4, <2>8 DEF OfPrefix
  <2>9. CASE p \in {":", ","}
    BY <2>2, <2>3, <2>4, <2>9 DEF OfPrefix
  <2>10. CASE p = "#"
    BY <2>2, <2>3, <2>4, <2>10 DEF OfPrefix
  <2>11. CASE p = "_"
    BY <2>2, <2>3, <2>4, <2>11 DEF OfPrefix
  <2>12. CASE p = "$"
    <3>1. r = ParseBulkString(b, line) /\ s = ParseBulkString(c, line2)
      BY <2>2, <2>12 DEF OfPrefix
    <3>2. Result(r, next, Len(b)) /\ Agrees(r, s, k, end)
      BY <2>1, <2>3, <3>1, BulkInWindow DEF end
    <3> QED
      BY <2>3, <2>6, <3>2
  <2>13. CASE p = "*"
    <3>1. r = ParseArray(el, line) /\ s = ParseArray(el2, line2)
      BY <2>2, <2>13 DEF OfPrefix
    <3>2. Result(r, next, Len(b)) /\ Agrees(r, s, k, end)
      BY <2>1, <2>3, <3>1, ArrayInWindow DEF end
    <3> QED
      BY <2>3, <2>6, <3>2
  <2>14. CASE p \notin {"+", "-", ":", ",", "#", "_", "$", "*"}
    BY <2>2, <2>5, <2>14 DEF OfPrefix
  <2> QED
    BY <2>7, <2>8, <2>9, <2>10, <2>11, <2>12, <2>13, <2>14
<1> QED
  BY <1>0, <1>3, <1>4, LineInWindow

-----------------------------------------------------------------------------
(* All offsets *)

\* The equation of the recursive function in Results.
ResultsStep(f, b, left) ==
  [pos \in 1 .. Len(b) + 1 |->
     IF pos > Len(b) THEN More
     ELSE IF left = 0 THEN Throws
     ELSE ParseValue(b, pos, f[left - 1])]

\* The equation has a solution.
LEMMA ResultsExist ==
  ASSUME NEW b, NEW len \in Nat PROVE \E f : f = [left \in 0 .. len |-> ResultsStep(f, b, left)]
<1> DEFINE Upto(f, n) == \A m \in 0 .. n : f[m] = ResultsStep(f, b, m)
           N == {n \in Nat : \E f : Upto(f, n)}
<1>0. ASSUME NEW f, NEW g, NEW m \in Nat, m # 0 => f[m - 1] = g[m - 1]
      PROVE  ResultsStep(f, b, m) = ResultsStep(g, b, m)
  <2>1. CASE m = 0
    BY <2>1 DEF ResultsStep
  <2>2. CASE m # 0
    BY <1>0, <2>2 DEF ResultsStep
  <2> QED
    BY <2>1, <2>2
<1>1. 0 \in N
  <2> DEFINE g == [m \in 0 .. 0 |-> ResultsStep(<<>>, b, 0)]
  <2>1. g[0] = ResultsStep(<<>>, b, 0)
    OBVIOUS
  <2>2. ResultsStep(<<>>, b, 0) = ResultsStep(g, b, 0)
    BY <1>0
  <2> HIDE DEF g
  <2>3. Upto(g, 0)
    BY <2>1, <2>2
  <2> QED
    BY <2>3
<1>2. ASSUME NEW n \in N PROVE n + 1 \in N
  <2>1. PICK f : Upto(f, n)
    OBVIOUS
  <2> DEFINE g == [m \in 0 .. n + 1 |-> IF m <= n THEN f[m] ELSE ResultsStep(f, b, m)]
  <2>2. (\A m \in 0 .. n : g[m] = f[m]) /\ g[n + 1] = ResultsStep(f, b, n + 1)
    OBVIOUS
  <2> HIDE DEF g
  <2>3. ASSUME NEW m \in 0 .. n + 1 PROVE g[m] = ResultsStep(g, b, m)
    <3>1. ResultsStep(f, b, m) = ResultsStep(g, b, m)
      BY <1>0, <2>2
    <3> QED
      BY <2>1, <2>2, <3>1
  <2>4. Upto(g, n + 1)
    BY <2>3
  <2> QED
    BY <2>4
<1>3. N = Nat
  <2> HIDE DEF N
  <2>1. N \in SUBSET Nat
    BY DEF N
  <2> QED
    BY <1>1, <1>2, <2>1, SetInduction
<1>4. PICK f : Upto(f, len)
  BY <1>3
<1> DEFINE g == [n \in 0 .. len |-> f[n]]
<1>5. ASSUME NEW m \in 0 .. len PROVE f[m] = ResultsStep(g, b, m)
  <2>1. ResultsStep(f, b, m) = ResultsStep(g, b, m)
    BY <1>0
  <2> QED
    BY <1>4, <2>1
<1> QED
  BY <1>5

\* The result at an offset.
LEMMA ResultAt ==
  ASSUME NEW b \in Seq(Symbol), NEW left \in 0 .. MaxDepth + 1, NEW pos \in 1 .. Len(b) + 1
  PROVE  Results(b)[left][pos] = IF pos > Len(b) THEN More
                                ELSE IF left = 0 THEN Throws
                                ELSE ParseValue(b, pos, Results(b)[left - 1])
<1> DEFINE f == CHOOSE f : f = [n \in 0 .. MaxDepth + 1 |-> ResultsStep(f, b, n)]
<1>1. MaxDepth + 1 \in Nat
  BY ParserAssumption
<1>2. f = [n \in 0 .. MaxDepth + 1 |-> ResultsStep(f, b, n)]
  <2> DEFINE len == MaxDepth + 1
  <2> HIDE DEF len
  <2>1. \E g : g = [n \in 0 .. len |-> ResultsStep(g, b, n)]
    BY <1>1, ResultsExist DEF len
  <2> QED
    BY <2>1 DEF len
<1>3. Results(b) = f
  BY Zenon DEF Results, ResultsStep
<1> HIDE DEF f
<1>4. f[left] = ResultsStep(f, b, left)
  BY <1>2
<1> QED
  BY <1>3, <1>4 DEF ResultsStep

\* What the parser finds at an offset of a window: a result behind the offset,
\* and the same that it finds around the window.
LEMMA ParsedInWindow ==
  ASSUME NEW b, NEW c, NEW k, Window(b, c, k)
  PROVE  \A left \in 0 .. MaxDepth + 1 : \A pos \in 1 .. Len(b) + 1 :
           /\ Result(Results(b)[left][pos], pos + 1, Len(b))
           /\ Agrees(Results(b)[left][pos], Results(c)[left][k + pos], k, ToTheEnd(b, c, k))
<1> DEFINE end == ToTheEnd(b, c, k)
           Fits(x, y, pos) == Result(x, pos + 1, Len(b)) /\ Agrees(x, y, k, end)
           AllFit(left) == \A pos \in 1 .. Len(b) + 1 : Fits(Results(b)[left][pos], Results(c)[left][k + pos], pos)
           N == {n \in Nat : n <= MaxDepth + 1 => AllFit(n)}
<1>0. /\ Len(b) \in Nat /\ Len(c) \in Nat /\ k \in Nat /\ k + Len(b) <= Len(c)
      /\ b \in Seq(Symbol) /\ c \in Seq(Symbol) /\ MaxDepth \in Nat
  BY ParserAssumption DEF Window
<1>1. ASSUME NEW left \in 0 .. MaxDepth + 1, NEW pos \in 1 .. Len(b) + 1,
             left = 0 \/ AllFit(left - 1)
      PROVE  Fits(Results(b)[left][pos], Results(c)[left][k + pos], pos)
  <2> DEFINE a2 == k + pos
             r == Results(b)[left][pos]
             s == Results(c)[left][a2]
  <2>1. a2 \in 1 .. Len(c) + 1 /\ a2 = k + pos
    BY <1>0
  <2>2. r = IF pos > Len(b) THEN More ELSE IF left = 0 THEN Throws
            ELSE ParseValue(b, pos, Results(b)[left - 1])
    BY <1>0, ResultAt
  <2>3. s = IF a2 > Len(c) THEN More ELSE IF left = 0 THEN Throws
            ELSE ParseValue(c, a2, Results(c)[left - 1])
    <3> HIDE DEF a2
    <3> QED
      BY <1>0, <2>1, ResultAt
  <2> SUFFICES Fits(r, s, pos)
    OBVIOUS
  <2> HIDE DEF r, s, a2, end
  <2>4. CASE pos > Len(b)
    <3>1. r = More
      BY <2>2, <2>4
    <3>2. end => s = More
      BY <1>0, <2>1, <2>3, <2>4 DEF ToTheEnd, end
    <3> QED
      BY <3>1, <3>2 DEF Result, Agrees
  <2>5. CASE pos \in 1 .. Len(b) /\ left = 0
    <3>1. r = Throws /\ s = Throws
      BY <1>0, <2>1, <2>2, <2>3, <2>5
    <3> QED
      BY <3>1 DEF Result, Agrees
  <2>6. CASE pos \in 1 .. Len(b) /\ left # 0
    <3> DEFINE el == Results(b)[left - 1]
               el2 == Results(c)[left - 1]
    <3>1. r = ParseValue(b, pos, el) /\ s = ParseValue(c, k + pos, el2)
      BY <1>0, <2>1, <2>2, <2>3, <2>6
    <3>2. \A i \in 1 .. Len(b) + 1 : Result(el[i], i + 1, Len(b)) /\ Agrees(el[i], el2[k + i], k, end)
      BY <1>1, <2>6
    <3> HIDE DEF el, el2
    <3>3. /\ Result(ParseValue(b, pos, el), pos + 1, Len(b))
          /\ Agrees(ParseValue(b, pos, el), ParseValue(c, k + pos, el2), k, end)
      BY <2>6, <3>2, ValueInWindow DEF end
    <3> QED
      BY <3>1, <3>3
  <2> QED
    BY <1>0, <2>4, <2>5, <2>6
<1> HIDE DEF Fits
<1>2. 0 \in N
  BY <1>0, <1>1
<1>3. ASSUME NEW n \in N PROVE n + 1 \in N
  <2> SUFFICES ASSUME n + 1 <= MaxDepth + 1, NEW pos \in 1 .. Len(b) + 1
               PROVE  Fits(Results(b)[n + 1][pos], Results(c)[n + 1][k + pos], pos)
    OBVIOUS
  <2> DEFINE left == n + 1
  <2>1. left \in 0 .. MaxDepth + 1 /\ left - 1 = n /\ AllFit(n)
    BY <1>0
  <2> HIDE DEF left, AllFit
  <2>2. AllFit(left - 1)
    BY <2>1
  <2>3. Fits(Results(b)[left][pos], Results(c)[left][k + pos], pos)
    BY <1>1, <2>1, <2>2
  <2> QED
    BY <2>3 DEF left
<1>4. N = Nat
  <2> HIDE DEF N
  <2>1. N \in SUBSET Nat
    BY DEF N
  <2> QED
    BY <1>2, <1>3, <2>1, SetInduction
<1>5. \A left \in 0 .. MaxDepth + 1 : AllFit(left)
  <2> TAKE left \in 0 .. MaxDepth + 1
  <2>1. left \in N /\ left <= MaxDepth + 1
    BY <1>0, <1>4
  <2> HIDE DEF AllFit
  <2> QED
    BY <2>1
<1> QED
  BY <1>5 DEF Fits

-----------------------------------------------------------------------------
(* Texts *)

\* The bytes of a character.
BytesOf(c) == IF c = "eacute" THEN <<"hi", "lo">> ELSE <<c>>

\* The symbols a proof meets by name.
LEMMA Symbols ==
  /\ {"cr", "lf", "hi", "lo", "eacute", "$", "*", ":", "-"} \subseteq Symbol
  /\ Crlf \in Seq(Symbol) /\ Len(Crlf) = 2 /\ Crlf[1] = "cr" /\ Crlf[2] = "lf"
  /\ \A c \in Symbol : BytesOf(c) \in Seq(Symbol) /\ <<c>> \in Seq(Symbol)
<1>1. {"cr", "lf", "hi", "lo", "eacute", "$", "*", ":", "-"} \subseteq Symbol
  BY SymbolAssumption
<1>2. Crlf \in Seq(Symbol) /\ Len(Crlf) = 2 /\ Crlf[1] = "cr" /\ Crlf[2] = "lf"
  BY <1>1 DEF Crlf
<1>3. ASSUME NEW c \in Symbol PROVE BytesOf(c) \in Seq(Symbol) /\ <<c>> \in Seq(Symbol)
  BY <1>1 DEF BytesOf
<1> QED
  BY <1>1, <1>2, <1>3

\* One more character to encode.
LEMMA Utf8Append ==
  ASSUME NEW text \in Seq(Symbol), NEW c \in Symbol
  PROVE  Utf8(Append(text, c)) = Utf8(text) \o BytesOf(c)
<1> DEFINE t2 == Append(text, c)
           s == [i \in DOMAIN text |-> BytesOf(text[i])]
           s2 == [i \in DOMAIN t2 |-> BytesOf(t2[i])]
<1>1. /\ t2 \in Seq(Symbol) /\ Len(t2) = Len(text) + 1
      /\ \A i \in 1 .. Len(text) : t2[i] = text[i]
      /\ t2[Len(text) + 1] = c
  BY Appended
<1>2. DOMAIN t2 = 1 .. Len(t2) /\ DOMAIN text = 1 .. Len(text) /\ Len(text) \in Nat
      /\ \A i \in 1 .. Len(text) : text[i] \in Symbol
  OBVIOUS
<1> HIDE DEF t2
<1>3. s \in Seq(Seq(Symbol)) /\ Len(s) = Len(text) /\ \A i \in 1 .. Len(text) : s[i] = BytesOf(text[i])
  <2>1. \A i \in 1 .. Len(text) : BytesOf(text[i]) \in Seq(Symbol)
    BY <1>2, Symbols
  <2> QED
    BY <1>2, <2>1
<1>4. \A i \in 1 .. Len(t2) : s2[i] = BytesOf(t2[i])
  BY <1>1, <1>2
<1>5. s2 \in Seq(Seq(Symbol)) /\ Len(s2) = Len(text) + 1
  <2>1. \A i \in 1 .. Len(t2) : BytesOf(t2[i]) \in Seq(Symbol)
    BY <1>1, Symbols
  <2> QED
    BY <1>1, <1>2, <2>1
<1> HIDE DEF s, s2
<1>6. BytesOf(c) \in Seq(Symbol)
  BY Symbols
<1>7. s2 = Append(s, BytesOf(c))
  <2> DEFINE s3 == Append(s, BytesOf(c))
  <2>1. /\ s3 \in Seq(Seq(Symbol)) /\ Len(s3) = Len(s) + 1
        /\ \A i \in 1 .. Len(s) : s3[i] = s[i]
        /\ s3[Len(s) + 1] = BytesOf(c)
    BY <1>3, <1>6, Appended
  <2> HIDE DEF s3
  <2>2. ASSUME NEW i \in 1 .. Len(s2) PROVE s2[i] = s3[i]
    <3>1. i \in 1 .. Len(text) \/ i = Len(text) + 1
      BY <1>2, <1>5
    <3> QED
      BY <1>1, <1>2, <1>3, <1>4, <1>5, <2>1, <3>1
  <2>3. s2 = s3
    BY <1>3, <1>5, <2>1, <2>2, SameSeq
  <2> QED
    BY <2>3 DEF s3
<1>8. FlattenSeq(s2) = FlattenSeq(s) \o BytesOf(c)
  BY <1>3, <1>6, <1>7, FlatAppend
<1>9. Utf8(text) = FlattenSeq(s) /\ Utf8(t2) = FlattenSeq(s2)
  BY Zenon DEF Utf8, BytesOf, s, s2
<1> QED
  BY <1>8, <1>9 DEF t2

\* hi and lo are at i.
PairAt(bytes, i) == bytes[i] = "hi" /\ bytes[i + 1] = "lo"

\* What the byte at i contributes to the text.
Piece(bytes, i) ==
  IF i < Len(bytes) /\ PairAt(bytes, i) THEN <<>>
  ELSE IF i > 1 /\ PairAt(bytes, i - 1) THEN <<"eacute">> ELSE <<bytes[i]>>

\* The text is what the bytes contribute.
LEMMA TextPieces ==
  ASSUME NEW bytes \in Seq(Symbol)
  PROVE  \E s \in Seq(Seq(Symbol)) :
           /\ Len(s) = Len(bytes) /\ ToText(bytes) = FlattenSeq(s)
           /\ \A i \in 1 .. Len(bytes) : s[i] = Piece(bytes, i)
<1> DEFINE pair(i) == <<bytes[i], bytes[i + 1]>> = <<"hi", "lo">>
           p(i) == IF i < Len(bytes) /\ pair(i) THEN <<>>
                   ELSE IF i > 1 /\ pair(i - 1) THEN <<"eacute">> ELSE <<bytes[i]>>
           s == [i \in DOMAIN bytes |-> p(i)]
<1>1. ToText(bytes) = FlattenSeq(s)
  BY Zenon DEF ToText
<1>2. DOMAIN bytes = 1 .. Len(bytes) /\ Len(bytes) \in Nat /\ \A i \in 1 .. Len(bytes) : bytes[i] \in Symbol
  OBVIOUS
<1>3. ASSUME NEW i \in 1 .. Len(bytes) PROVE s[i] = Piece(bytes, i) /\ s[i] \in Seq(Symbol)
  <2>1. p(i) \in {<<>>, <<"eacute">>, <<bytes[i]>>}
    OBVIOUS
  <2>2. <<>> \in Seq(Symbol) /\ <<"eacute">> \in Seq(Symbol) /\ <<bytes[i]>> \in Seq(Symbol)
    BY <1>2, Symbols
  <2>3. /\ pair(i) <=> PairAt(bytes, i)
        /\ i > 1 => (pair(i - 1) <=> PairAt(bytes, i - 1))
    BY <1>2 DEF PairAt
  <2> HIDE DEF pair
  <2>4. p(i) = Piece(bytes, i)
    BY <2>3 DEF Piece
  <2> QED
    BY <1>2, <2>1, <2>2, <2>4
<1>4. s \in Seq(Seq(Symbol)) /\ Len(s) = Len(bytes)
  <2>1. s = [i \in 1 .. Len(bytes) |-> s[i]]
    BY <1>2
  <2> HIDE DEF s
  <2> QED
    BY <1>2, <1>3, <2>1
<1> QED
  BY <1>1, <1>3, <1>4

\* One more byte, not the second of a pair, is one more character.
LEMMA TextAppend ==
  ASSUME NEW bytes \in Seq(Symbol), NEW x \in Symbol \ {"lo"}
  PROVE  ToText(Append(bytes, x)) = Append(ToText(bytes), x) /\ ToText(bytes) \in Seq(Symbol)
<1> DEFINE b2 == Append(bytes, x)
<1>1. /\ b2 \in Seq(Symbol) /\ Len(b2) = Len(bytes) + 1
      /\ \A i \in 1 .. Len(bytes) : b2[i] = bytes[i]
      /\ b2[Len(bytes) + 1] = x
  <2>1. x \in Symbol
    OBVIOUS
  <2> QED
    BY <2>1, Appended
<1>2. Len(bytes) \in Nat
  OBVIOUS
<1> HIDE DEF b2
<1>3. PICK s \in Seq(Seq(Symbol)) :
        /\ Len(s) = Len(bytes) /\ ToText(bytes) = FlattenSeq(s)
        /\ \A i \in 1 .. Len(bytes) : s[i] = Piece(bytes, i)
  BY TextPieces
<1>4. PICK s2 \in Seq(Seq(Symbol)) :
        /\ Len(s2) = Len(b2) /\ ToText(b2) = FlattenSeq(s2)
        /\ \A i \in 1 .. Len(b2) : s2[i] = Piece(b2, i)
  BY <1>1, TextPieces
<1>5. <<x>> \in Seq(Symbol)
  BY Symbols
<1> DEFINE s3 == Append(s, <<x>>)
<1>6. /\ s3 \in Seq(Seq(Symbol)) /\ Len(s3) = Len(s) + 1
      /\ \A i \in 1 .. Len(s) : s3[i] = s[i]
      /\ s3[Len(s) + 1] = <<x>>
  BY <1>5, Appended
<1> HIDE DEF s3
<1>7. ASSUME NEW i \in 1 .. Len(s2) PROVE s2[i] = s3[i]
  <2>1. CASE i \in 1 .. Len(bytes)
    <3>1. /\ i > 1 => (PairAt(b2, i - 1) <=> PairAt(bytes, i - 1))
          /\ i < Len(bytes) => (PairAt(b2, i) <=> PairAt(bytes, i))
          /\ i = Len(bytes) => ~PairAt(b2, i)
          /\ b2[i] = bytes[i]
      <4>1. i > 1 => i - 1 \in 1 .. Len(bytes) /\ (i - 1) + 1 = i
        BY <1>2, <2>1
      <4>2. i < Len(bytes) => i + 1 \in 1 .. Len(bytes)
        BY <1>2, <2>1
      <4>3. i = Len(bytes) => b2[i + 1] # "lo"
        BY <1>1
      <4> QED
        BY <1>1, <2>1, <4>1, <4>2, <4>3 DEF PairAt
    <3>2. Piece(b2, i) = Piece(bytes, i)
      BY <1>1, <1>2, <2>1, <3>1 DEF Piece
    <3> QED
      BY <1>1, <1>3, <1>4, <1>6, <2>1, <3>2
  <2>2. CASE i = Len(bytes) + 1
    <3>1. i > 1 => ~PairAt(b2, i - 1)
      BY <1>1, <1>2, <2>2 DEF PairAt
    <3>2. Piece(b2, i) = <<x>>
      BY <1>1, <1>2, <2>2, <3>1 DEF Piece
    <3> QED
      BY <1>1, <1>3, <1>4, <1>6, <2>2, <3>2
  <2> QED
    BY <1>1, <1>2, <1>4, <2>1, <2>2
<1>8. s2 = s3
  BY <1>1, <1>3, <1>4, <1>6, <1>7, SameSeq
<1>9. FlattenSeq(s3) = FlattenSeq(s) \o <<x>>
  BY <1>5, FlatAppend DEF s3
<1>10. FlattenSeq(s) \in Seq(Symbol)
  BY Flattened
<1>11. FlattenSeq(s) \o <<x>> = Append(FlattenSeq(s), x)
  BY <1>10
<1> QED
  BY <1>3, <1>4, <1>8, <1>9, <1>10, <1>11 DEF b2

\* A pair of bytes is one more character.
LEMMA TextAppendPair ==
  ASSUME NEW bytes \in Seq(Symbol)
  PROVE  ToText(Append(Append(bytes, "hi"), "lo")) = Append(ToText(bytes), "eacute")
<1> DEFINE b1 == Append(bytes, "hi")
           b2 == Append(b1, "lo")
           n == Len(bytes)
<1>0. "hi" \in Symbol /\ "lo" \in Symbol /\ "eacute" \in Symbol
  BY Symbols
<1>1. /\ b1 \in Seq(Symbol) /\ Len(b1) = n + 1
      /\ \A i \in 1 .. n : b1[i] = bytes[i]
      /\ b1[n + 1] = "hi"
  BY <1>0, Appended
<1>2. n \in Nat
  OBVIOUS
<1> HIDE DEF b1
<1>3. /\ b2 \in Seq(Symbol) /\ Len(b2) = Len(b1) + 1
      /\ \A i \in 1 .. Len(b1) : b2[i] = b1[i]
      /\ b2[Len(b1) + 1] = "lo"
  BY <1>0, <1>1, Appended
<1> HIDE DEF b2, n
<1>4. /\ Len(b2) = n + 2 /\ b2[n + 1] = "hi" /\ b2[n + 2] = "lo"
      /\ \A i \in 1 .. n : b2[i] = bytes[i]
  BY <1>1, <1>2, <1>3
<1>5. PICK s \in Seq(Seq(Symbol)) :
        /\ Len(s) = n /\ ToText(bytes) = FlattenSeq(s)
        /\ \A i \in 1 .. n : s[i] = Piece(bytes, i)
  BY TextPieces DEF n
<1>6. PICK s2 \in Seq(Seq(Symbol)) :
        /\ Len(s2) = Len(b2) /\ ToText(b2) = FlattenSeq(s2)
        /\ \A i \in 1 .. Len(b2) : s2[i] = Piece(b2, i)
  BY <1>3, TextPieces
<1>7. <<>> \in Seq(Symbol) /\ <<"eacute">> \in Seq(Symbol)
  BY <1>0
<1> DEFINE s3 == Append(s, <<>>)
           s4 == Append(s3, <<"eacute">>)
<1>8. /\ s3 \in Seq(Seq(Symbol)) /\ Len(s3) = n + 1
      /\ \A i \in 1 .. n : s3[i] = s[i]
      /\ s3[n + 1] = <<>>
  BY <1>5, <1>7, Appended
<1> HIDE DEF s3
<1>9. /\ s4 \in Seq(Seq(Symbol)) /\ Len(s4) = Len(s3) + 1
      /\ \A i \in 1 .. Len(s3) : s4[i] = s3[i]
      /\ s4[Len(s3) + 1] = <<"eacute">>
  BY <1>7, <1>8, Appended
<1> HIDE DEF s4
<1>10. /\ Len(s4) = n + 2 /\ s4[n + 1] = <<>> /\ s4[n + 2] = <<"eacute">>
       /\ \A i \in 1 .. n : s4[i] = s[i]
  BY <1>2, <1>8, <1>9
<1>11. ASSUME NEW i \in 1 .. Len(s2) PROVE s2[i] = s4[i]
  <2>0. Len(bytes) = n
    BY DEF n
  <2>1. CASE i \in 1 .. n
    <3>1. /\ i > 1 => (PairAt(b2, i - 1) <=> PairAt(bytes, i - 1))
          /\ i < n => (PairAt(b2, i) <=> PairAt(bytes, i))
          /\ i = n => ~PairAt(b2, i)
          /\ b2[i] = bytes[i]
      BY <1>2, <1>4, <2>1 DEF PairAt
    <3>2. Piece(b2, i) = Piece(bytes, i)
      BY <1>2, <1>4, <2>0, <2>1, <3>1 DEF Piece
    <3> QED
      BY <1>2, <1>4, <1>5, <1>6, <1>10, <2>1, <3>2
  <2>2. CASE i = n + 1
    <3>1. PairAt(b2, n + 1)
      BY <1>2, <1>4 DEF PairAt
    <3>2. Piece(b2, i) = <<>>
      BY <1>2, <1>4, <2>2, <3>1 DEF Piece
    <3> QED
      BY <1>2, <1>4, <1>6, <1>10, <2>2, <3>2
  <2>3. CASE i = n + 2
    <3>1. PairAt(b2, n + 1) /\ (n + 2) - 1 = n + 1
      BY <1>2, <1>4 DEF PairAt
    <3>2. Piece(b2, i) = <<"eacute">>
      BY <1>2, <1>4, <2>3, <3>1 DEF Piece
    <3> QED
      BY <1>2, <1>4, <1>6, <1>10, <2>3, <3>2
  <2> QED
    BY <1>2, <1>4, <1>6, <2>1, <2>2, <2>3
<1>12. s2 = s4
  <2>1. Len(s2) = Len(s4)
    BY <1>4, <1>6, <1>10
  <2>2. s2 \in Seq(Seq(Symbol)) /\ s4 \in Seq(Seq(Symbol))
    BY <1>9
  <2> HIDE DEF s4
  <2> QED
    BY <1>11, <2>1, <2>2, SameSeq
<1>13. FlattenSeq(s3) = FlattenSeq(s) \o <<>>
  BY <1>7, FlatAppend DEF s3
<1>14. FlattenSeq(s4) = FlattenSeq(s3) \o <<"eacute">>
  BY <1>7, <1>8, FlatAppend DEF s4
<1>15. FlattenSeq(s) \in Seq(Symbol)
  BY Flattened
<1> DEFINE t == FlattenSeq(s)
<1> HIDE DEF t
<1>16. (t \o <<>>) \o <<"eacute">> = Append(t, "eacute")
  BY <1>0, <1>15 DEF t
<1> QED
  BY <1>5, <1>6, <1>12, <1>13, <1>14, <1>16 DEF b2, b1, t

\* The bytes of a text are read as the text.
LEMMA Utf8Read ==
  ASSUME NEW text \in Seq(Symbol \ {"lo"})
  PROVE  /\ Utf8(text) \in Seq(Symbol) /\ ToText(Utf8(text)) = text
         /\ text \in Seq(Symbol \ {"lo", "cr"}) =>
              \A i \in 1 .. Len(Utf8(text)) : Utf8(text)[i] # "cr"
<1> DEFINE T == Symbol \ {"lo"}
           Free(t) == \A i \in 1 .. Len(t) : t[i] # "cr"
           P == {t \in Seq(T) : /\ Utf8(t) \in Seq(Symbol) /\ ToText(Utf8(t)) = t
                                /\ Free(t) => Free(Utf8(t))}
<1>1. <<>> \in P
  <2>1. <<>> \in Seq(T) /\ <<>> \in Seq(Symbol) /\ <<>> \in Seq(Seq(Symbol)) /\ Len(<<>>) = 0
    OBVIOUS
  <2>2. Utf8(<<>>) = <<>>
    <3>1. [i \in DOMAIN <<>> |-> IF <<>>[i] = "eacute" THEN <<"hi", "lo">> ELSE << <<>>[i] >>] = <<>>
      OBVIOUS
    <3> QED
      BY <3>1, FlatEmpty DEF Utf8
  <2>3. ToText(<<>>) = <<>>
    <3>1. PICK s \in Seq(Seq(Symbol)) : Len(s) = Len(<<>>) /\ ToText(<<>>) = FlattenSeq(s)
      BY <2>1, TextPieces
    <3>2. s = <<>>
      BY <2>1, <3>1
    <3> QED
      BY <3>1, <3>2, FlatEmpty
  <2>4. Free(<<>>)
    BY <2>1
  <2> QED
    BY <2>1, <2>2, <2>3, <2>4
<1>2. ASSUME NEW t \in P, NEW c \in T PROVE Append(t, c) \in P
  <2> DEFINE u == Utf8(t)
             t2 == Append(t, c)
  <2>1. t \in Seq(T) /\ t \in Seq(Symbol) /\ c \in Symbol /\ c # "lo" /\ t2 \in Seq(T)
    BY SeqMonotonic
  <2>2. Utf8(t2) = u \o BytesOf(c)
    BY <2>1, Utf8Append
  <2>3. u \in Seq(Symbol) /\ ToText(u) = t /\ (Free(t) => Free(u))
    OBVIOUS
  <2>4. BytesOf(c) \in Seq(Symbol)
    BY <2>1, Symbols
  <2>5. Utf8(t2) \in Seq(Symbol)
    BY <2>2, <2>3, <2>4, Joined
  <2>6. Free(t2) => Free(t) /\ c # "cr"
    <3>1. /\ Len(t2) = Len(t) + 1 /\ Len(t) \in Nat
          /\ \A i \in 1 .. Len(t) : t2[i] = t[i]
          /\ t2[Len(t) + 1] = c
      BY <2>1, Appended
    <3> HIDE DEF t2
    <3>2. Len(t) + 1 \in 1 .. Len(t2) /\ \A i \in 1 .. Len(t) : i \in 1 .. Len(t2)
      BY <3>1
    <3> QED
      BY <3>1, <3>2
  <2> HIDE DEF u, t2, P, T
  <2>7. CASE c = "eacute"
    <3>1. BytesOf(c) = <<"hi", "lo">> /\ "hi" \in Symbol /\ "lo" \in Symbol
      BY <2>7, Symbols DEF BytesOf
    <3>2. u \o <<"hi", "lo">> = Append(Append(u, "hi"), "lo")
      BY <2>3, <3>1
    <3>3. ToText(Utf8(t2)) = t2
      BY <2>2, <2>3, <2>7, <3>1, <3>2, TextAppendPair DEF t2
    <3>4. Free(u) => Free(u \o <<"hi", "lo">>)
      <4> DEFINE w == <<"hi", "lo">>
      <4>1. w \in Seq(Symbol) /\ w[1] = "hi" /\ w[2] = "lo" /\ Len(w) = 2
        BY <3>1
      <4> HIDE DEF w
      <4>2. \A i \in 1 .. Len(u \o w) :
              \/ i \in 1 .. Len(u) /\ (u \o w)[i] = u[i]
              \/ i - Len(u) \in 1 .. Len(w) /\ (u \o w)[i] = w[i - Len(u)]
        BY <2>3, <4>1, Joined
      <4>3. \A j \in 1 .. Len(w) : w[j] # "cr"
        BY <4>1
      <4>4. Free(u) => Free(u \o w)
        BY <4>2, <4>3
      <4> QED
        BY <4>4 DEF w
    <3>8. Free(t2) => Free(Utf8(t2))
      BY <2>2, <2>3, <2>6, <3>1, <3>3, <3>4
    <3>9. t2 \in P
      BY <2>1, <2>5, <3>3, <3>8 DEF P
    <3> QED
      BY <3>9 DEF t2
  <2>8. CASE c # "eacute"
    <3>1. BytesOf(c) = <<c>>
      BY <2>8 DEF BytesOf
    <3>2. u \o <<c>> = Append(u, c)
      BY <2>1, <2>3
    <3>3. c \in Symbol \ {"lo"}
      BY <2>1
    <3>4. ToText(Append(u, c)) = Append(ToText(u), c)
      BY <2>3, <3>3, TextAppend
    <3>5. ToText(Utf8(t2)) = t2
      BY <2>2, <2>3, <3>1, <3>2, <3>4 DEF t2
    <3>6. Free(u) /\ c # "cr" => Free(Append(u, c))
      <4> DEFINE w == Append(u, c)
      <4>1. /\ Len(w) = Len(u) + 1 /\ Len(u) \in Nat
            /\ \A i \in 1 .. Len(u) : w[i] = u[i]
            /\ w[Len(u) + 1] = c
        BY <2>1, <2>3, Appended
      <4> HIDE DEF w
      <4>2. \A i \in 1 .. Len(w) : i \in 1 .. Len(u) \/ i = Len(u) + 1
        BY <4>1
      <4>3. Free(u) /\ c # "cr" => Free(w)
        BY <4>1, <4>2
      <4> QED
        BY <4>3 DEF w
    <3>8. Free(t2) => Free(Utf8(t2))
      BY <2>2, <2>3, <2>6, <3>1, <3>2, <3>5, <3>6
    <3>9. t2 \in P
      BY <2>1, <2>5, <3>5, <3>8 DEF P
    <3> QED
      BY <3>9 DEF t2
  <2> QED
    BY <2>7, <2>8
<1>3. P = Seq(T)
  <2> HIDE DEF P
  <2>1. P \in SUBSET Seq(T)
    BY DEF P
  <2> QED
    BY <1>1, <1>2, <2>1, SeqInduction
<1>4. text \in P
  BY <1>3
<1>5. text \in Seq(Symbol \ {"lo", "cr"}) => Free(text)
  OBVIOUS
<1> QED
  BY <1>4, <1>5

-----------------------------------------------------------------------------
(* What Redis sends is parsed *)

\* The first line of an encoding.
Header(p, t) == <<p>> \o t \o Crlf

\* A sequence that is part of another one.
LEMMA PartIs ==
  ASSUME NEW b, NEW t, NEW k, Window(t, b, k), NEW p, p = k + 1, NEW q, q = k + Len(t)
  PROVE  Part(b, p, q) = t
<1>1. t \in Seq(Symbol) /\ k \in Nat /\ Len(t) \in Nat
  BY DEF Window
<1>2. 1 \in 1 .. Len(t) + 1 /\ Len(t) \in 1 - 1 .. Len(t)
  BY <1>1
<1>3. Part(b, p, q) = Part(t, 1, Len(t))
  BY <1>1, <1>2, PartInWindow
<1>4. Part(t, 1, Len(t)) = t
  BY <1>1 DEF Part
<1> QED
  BY <1>3, <1>4

\* The elements of a header.
LEMMA HeaderIs ==
  ASSUME NEW p \in Symbol, NEW t \in Seq(Symbol)
  PROVE  /\ Header(p, t) \in Seq(Symbol) /\ Len(t) \in Nat /\ Len(Header(p, t)) = Len(t) + 3
         /\ Header(p, t)[1] = p /\ \A i \in 1 .. Len(t) : Header(p, t)[1 + i] = t[i]
         /\ Header(p, t)[Len(t) + 2] = "cr" /\ Header(p, t)[Len(t) + 3] = "lf"
<1> DEFINE s == <<p>>
           u == s \o t
           h == u \o Crlf
<1>1. s \in Seq(Symbol) /\ Len(s) = 1 /\ s[1] = p
  OBVIOUS
<1> HIDE DEF s
<1>2. /\ u \in Seq(Symbol) /\ Len(t) \in Nat /\ Len(u) = Len(t) + 1
      /\ u[1] = p /\ \A i \in 1 .. Len(t) : u[1 + i] = t[i]
  <2>1. /\ u \in Seq(Symbol) /\ Len(t) \in Nat /\ Len(u) = Len(s) + Len(t)
        /\ \A i \in 1 .. Len(s) : u[i] = s[i]
        /\ \A i \in 1 .. Len(t) : u[Len(s) + i] = t[i]
    BY <1>1, Joined
  <2> HIDE DEF u
  <2> QED
    BY <1>1, <2>1
<1> HIDE DEF u
<1>3. /\ h \in Seq(Symbol) /\ Len(h) = Len(u) + 2
      /\ \A i \in 1 .. Len(u) : h[i] = u[i]
      /\ \A i \in 1 .. 2 : h[Len(u) + i] = Crlf[i]
  <2>1. Crlf \in Seq(Symbol) /\ Len(Crlf) = 2
    BY Symbols
  <2> DEFINE tail == Crlf
  <2> HIDE DEF tail
  <2>2. /\ u \o tail \in Seq(Symbol) /\ Len(u \o tail) = Len(u) + Len(tail)
        /\ \A i \in 1 .. Len(u) : (u \o tail)[i] = u[i]
        /\ \A i \in 1 .. Len(tail) : (u \o tail)[Len(u) + i] = tail[i]
    <3>1. tail \in Seq(Symbol)
      BY <2>1 DEF tail
    <3>2. u \in Seq(Symbol)
      BY <1>2
    <3> QED
      BY <3>1, <3>2, Joined
  <2>3. h = u \o tail
    BY DEF tail
  <2>4. tail = Crlf
    BY DEF tail
  <2> HIDE DEF h
  <2> QED
    BY <2>1, <2>2, <2>3, <2>4
<1> HIDE DEF h
<1>4. Crlf[1] = "cr" /\ Crlf[2] = "lf"
  BY Symbols
<1>5. /\ 1 \in 1 .. Len(u) /\ \A i \in 1 .. Len(t) : 1 + i \in 1 .. Len(u)
      /\ Len(u) + 1 = Len(t) + 2 /\ Len(u) + 2 = Len(t) + 3
  BY <1>2
<1>6. /\ h[1] = p /\ \A i \in 1 .. Len(t) : h[1 + i] = t[i]
      /\ h[Len(t) + 2] = "cr" /\ h[Len(t) + 3] = "lf"
  <2>1. h[1] = p /\ \A i \in 1 .. Len(t) : h[1 + i] = t[i]
    BY <1>2, <1>3, <1>5
  <2>2. h[Len(u) + 1] = "cr" /\ h[Len(u) + 2] = "lf"
    <3>1. 1 \in 1 .. 2 /\ 2 \in 1 .. 2
      OBVIOUS
    <3> QED
      BY <1>3, <1>4, <3>1
  <2> QED
    BY <1>5, <2>1, <2>2
<1>7. Header(p, t) = h
  BY DEF Header, h, u, s
<1> QED
  BY <1>2, <1>3, <1>5, <1>6, <1>7

\* The line of a buffer that begins with a header.
LEMMA HeaderRead ==
  ASSUME NEW b, NEW p \in Symbol, NEW t \in Seq(Symbol), Window(Header(p, t), b, 0),
         \A i \in 1 .. Len(t) : t[i] # "cr"
  PROVE  b[1] = p /\ ReadLine(b, 2) = Line(t, Len(t) + 4)
<1> DEFINE h == Header(p, t)
           n == Len(t)
<1>1. /\ h \in Seq(Symbol) /\ n \in Nat /\ Len(h) = n + 3
      /\ h[1] = p /\ \A i \in 1 .. n : h[1 + i] = t[i]
      /\ h[n + 2] = "cr" /\ h[n + 3] = "lf"
  BY HeaderIs
<1>2. /\ b \in Seq(Symbol) /\ Len(b) \in Nat /\ Len(h) <= Len(b)
      /\ \A i \in 1 .. Len(h) : b[i] = h[i]
  <2>1. /\ b \in Seq(Symbol) /\ 0 + Len(h) <= Len(b)
        /\ \A i \in 1 .. Len(h) : b[0 + i] = h[i]
    BY DEF Window
  <2>2. \A i \in 1 .. Len(h) : 0 + i = i
    OBVIOUS
  <2> HIDE DEF h
  <2> QED
    BY <1>1, <2>1, <2>2
<1> HIDE DEF h, n
<1>3. /\ 1 \in 1 .. Len(h) /\ n + 2 \in 1 .. Len(h) /\ n + 3 \in 1 .. Len(h)
      /\ \A i \in 1 .. n : 1 + i \in 1 .. Len(h)
  BY <1>1
<1>4. /\ b[1] = p /\ b[n + 2] = "cr" /\ b[n + 3] = "lf"
      /\ \A i \in 1 .. n : b[1 + i] = t[i]
  BY <1>1, <1>2, <1>3
<1> DEFINE e == n + 2
<1>5. EndsAt(b, e)
  <2>1. e + 1 = n + 3
    BY <1>1
  <2> QED
    BY <1>4, <2>1 DEF EndsAt
<1>6. ASSUME NEW i \in 2 .. e - 1 PROVE ~EndsAt(b, i)
  <2>1. i - 1 \in 1 .. n /\ 1 + (i - 1) = i
    BY <1>1
  <2>2. t[i - 1] # "cr"
    BY <2>1 DEF n
  <2> QED
    BY <1>4, <2>1, <2>2 DEF EndsAt
<1>7. 2 \in 1 .. Len(b) + 1 /\ e \in 2 .. Len(b) - 1
  BY <1>1, <1>2
<1>8. e - 1 = n + 1 /\ e + 2 = n + 4
  BY <1>1
<1> HIDE DEF e
<1>9. ReadLine(b, 2) = Line(Part(b, 2, e - 1), e + 2)
  BY <1>2, <1>5, <1>6, <1>7, LineAt
<1>10. Window(t, b, 1)
  BY <1>1, <1>2, <1>4 DEF Window, n
<1>11. Part(b, 2, e - 1) = t
  <2>1. 2 = 1 + 1 /\ e - 1 = 1 + Len(t)
    BY <1>1, <1>8 DEF n
  <2> QED
    BY <1>10, <2>1, PartIs
<1> QED
  BY <1>4, <1>8, <1>9, <1>11 DEF n

\* A buffer that begins with a header is parsed by its prefix and line.
LEMMA HeaderParsed ==
  ASSUME NEW b, NEW p \in Symbol, NEW t \in Seq(Symbol), Window(Header(p, t), b, 0),
         \A i \in 1 .. Len(t) : t[i] # "cr", NEW left \in 1 .. MaxDepth + 1
  PROVE  Results(b)[left][1] = OfPrefix(p, b, Results(b)[left - 1], Line(t, Len(t) + 4))
<1>1. b[1] = p /\ ReadLine(b, 2) = Line(t, Len(t) + 4)
  BY HeaderRead
<1>2. b \in Seq(Symbol) /\ Len(b) \in Nat /\ Len(b) >= 1
  BY HeaderIs DEF Window
<1>3. MaxDepth \in Nat /\ left \in 0 .. MaxDepth + 1 /\ left # 0 /\ 1 \in 1 .. Len(b) + 1 /\ ~(1 > Len(b))
  BY <1>2, ParserAssumption
<1>4. Results(b)[left][1] = ParseValue(b, 1, Results(b)[left - 1])
  BY <1>2, <1>3, ResultAt
<1> DEFINE element == Results(b)[left - 1]
<1> HIDE DEF element
<1>5. ReadLine(b, 1 + 1) = Line(t, Len(t) + 4)
  BY <1>1
<1>6. ParseValue(b, 1, element) = OfPrefix(b[1], b, element, Line(t, Len(t) + 4))
  BY <1>5, ValueIs
<1> QED
  BY <1>1, <1>4, <1>6 DEF element

\* A buffer is a window onto itself.
LEMMA WindowSelf == ASSUME NEW b \in Seq(Symbol) PROVE Window(b, b, 0)
<1>1. Len(b) \in Nat /\ \A i \in 1 .. Len(b) : 0 + i = i
  OBVIOUS
<1> QED
  BY <1>1 DEF Window

\* The first part of a sequence is a window at its beginning, what follows one
\* behind it.
LEMMA WindowJoined ==
  ASSUME NEW b \in Seq(Symbol), NEW c \in Seq(Symbol)
  PROVE  /\ b \o c \in Seq(Symbol) /\ Len(b) \in Nat /\ Len(b \o c) = Len(b) + Len(c)
         /\ Window(b, b \o c, 0) /\ Window(c, b \o c, Len(b))
         /\ \A d, k : Window(d, b, k) => Window(d, b \o c, k)
<1> DEFINE j == b \o c
<1>1. /\ j \in Seq(Symbol) /\ Len(b) \in Nat /\ Len(c) \in Nat /\ Len(j) = Len(b) + Len(c)
      /\ \A i \in 1 .. Len(b) : j[i] = b[i]
      /\ \A i \in 1 .. Len(c) : j[Len(b) + i] = c[i]
  BY Joined
<1> HIDE DEF j
<1>2. \A i \in 1 .. Len(b) : 0 + i = i
  BY <1>1
<1>3. Window(b, j, 0) /\ Window(c, j, Len(b))
  BY <1>1, <1>2 DEF Window
<1>4. ASSUME NEW d, NEW k, Window(d, b, k) PROVE Window(d, j, k)
  <2>1. /\ d \in Seq(Symbol) /\ k \in Nat /\ k + Len(d) <= Len(b) /\ Len(d) \in Nat
        /\ \A i \in 1 .. Len(d) : b[k + i] = d[i]
    BY <1>4 DEF Window
  <2>2. \A i \in 1 .. Len(d) : k + i \in 1 .. Len(b)
    BY <1>1, <2>1
  <2>3. k + Len(d) <= Len(j)
    BY <1>1, <2>1
  <2> QED
    BY <1>1, <2>1, <2>2, <2>3 DEF Window
<1> QED
  BY <1>1, <1>3, <1>4 DEF j

\* A simple value that Redis sends is parsed as what it is.
LEMMA SimpleParsed ==
  ASSUME NEW v, IsSimple(v), NEW left \in 1 .. MaxDepth + 1
  PROVE  /\ EncodeSimple(v) \in Seq(Symbol) /\ Len(EncodeSimple(v)) >= 1
         /\ Results(EncodeSimple(v))[left][1] = Got(v, Len(EncodeSimple(v)) + 1)
<1> DEFINE e == EncodeSimple(v)
<1>1. CASE v \in {"str"} \X Seq(Symbol \ {"lo"}) /\ Len(Utf8(v[2])) <= MaxBulk
  <2> DEFINE u == Utf8(v[2])
             n == Len(u)
             d == Digits(n)
             h == Header("$", d)
             hu == h \o u
             c == hu \o Crlf
             element == Results(c)[left - 1]
             next == Len(d) + 4
             end == next + n
  <2>1. /\ v = <<"str", v[2]>> /\ v[1] = "str" /\ v[2] \in Seq(Symbol \ {"lo"})
        /\ v[2] \in Seq(Symbol)
    <3>1. v[2] \in Seq(Symbol \ {"lo"})
      BY <1>1
    <3> QED
      BY <1>1, <3>1, SeqMonotonic
  <2>2. u \in Seq(Symbol) /\ ToText(u) = v[2] /\ n \in Nat /\ n <= MaxBulk
    BY <1>1, <2>1, Utf8Read
  <2>3. e = c
    BY <2>1 DEF EncodeSimple, Header
  <2> HIDE DEF u, n
  <2>4. d \in Seq(Symbol) /\ Number(d) = n /\ \A i \in 1 .. Len(d) : d[i] # "cr"
    BY <2>2, DigitsRead
  <2> HIDE DEF d
  <2>5. "$" \in Symbol /\ Crlf \in Seq(Symbol) /\ Len(Crlf) = 2
    BY Symbols
  <2>6. h \in Seq(Symbol) /\ Len(d) \in Nat /\ Len(h) = Len(d) + 3
    BY <2>4, <2>5, HeaderIs
  <2> HIDE DEF h
  <2>7. /\ hu \in Seq(Symbol) /\ Len(hu) = Len(h) + n
        /\ Window(h, hu, 0) /\ Window(u, hu, Len(h))
    BY <2>2, <2>6, WindowJoined DEF n
  <2> HIDE DEF hu
  <2>8. /\ c \in Seq(Symbol) /\ Len(c) = Len(hu) + 2 /\ Len(hu) \in Nat
        /\ Window(h, c, 0) /\ Window(u, c, Len(h)) /\ Window(Crlf, c, Len(hu))
    BY <2>5, <2>7, WindowJoined
  <2> HIDE DEF c
  <2>9. /\ Len(c) = Len(d) + n + 5 /\ Len(h) = Len(d) + 3 /\ Len(hu) = Len(d) + n + 3
        /\ Len(d) \in Nat /\ n \in Nat
    BY <2>2, <2>6, <2>7, <2>8
  <2>10. Results(c)[left][1] = OfPrefix("$", c, element, Line(d, next))
    BY <2>4, <2>5, <2>8, HeaderParsed DEF h
  <2> HIDE DEF element
  <2>11. OfPrefix("$", c, element, Line(d, next)) = ParseBulkString(c, Line(d, next))
    BY DEF OfPrefix
  <2>12. n \in 0 .. MaxBulk /\ MaxBulk \in Nat
    BY <2>2, ParserAssumption
  <2>13. ParseBulkString(c, Line(d, next)) =
           IF Len(c) < end + 1 THEN More
           ELSE IF Part(c, end, end + 1) # Crlf THEN Throws
           ELSE Got(<<"str", ToText(Part(c, next, end - 1))>>, end + 2)
    <3>1. Number(d) \in 0 .. MaxBulk
      BY <2>4, <2>12
    <3> HIDE DEF next
    <3> QED
      BY <2>4, <3>1, BulkIs
  <2>14. Part(c, end, end + 1) = Crlf
    <3>1. end = Len(hu) + 1 /\ end + 1 = Len(hu) + Len(Crlf)
      BY <2>5, <2>9
    <3> HIDE DEF end, next
    <3> QED
      BY <2>8, <3>1, PartIs
  <2>15. Part(c, next, end - 1) = u
    <3>1. next = Len(h) + 1 /\ end - 1 = Len(h) + Len(u)
      BY <2>9 DEF n
    <3> HIDE DEF end, next
    <3> QED
      BY <2>8, <3>1, PartIs
  <2>16. ~(Len(c) < end + 1) /\ end + 2 = Len(c) + 1 /\ Len(c) >= 1
    BY <2>9
  <2> HIDE DEF end, next
  <2>17. Results(c)[left][1] = Got(<<"str", ToText(u)>>, Len(c) + 1)
    BY <2>10, <2>11, <2>13, <2>14, <2>15, <2>16
  <2>18. Results(c)[left][1] = Got(v, Len(c) + 1)
    BY <2>1, <2>2, <2>17
  <2> QED
    BY <2>3, <2>8, <2>16, <2>18
<1>2. CASE v \in {"err"} \X Seq(Symbol \ {"lo", "cr"})
  <2> DEFINE u == Utf8(v[2])
             c == Header("-", u)
             element == Results(c)[left - 1]
  <2>1. /\ v = <<"err", v[2]>> /\ v[1] = "err" /\ v[2] \in Seq(Symbol \ {"lo", "cr"})
        /\ v[2] \in Seq(Symbol \ {"lo"})
    <3>1. v[2] \in Seq(Symbol \ {"lo", "cr"})
      BY <1>2
    <3> QED
      BY <1>2, <3>1, SeqMonotonic
  <2>2. u \in Seq(Symbol) /\ ToText(u) = v[2] /\ \A i \in 1 .. Len(u) : u[i] # "cr"
    BY <2>1, Utf8Read
  <2>3. e = c
    BY <2>1 DEF EncodeSimple, Header
  <2> HIDE DEF u
  <2>4. "-" \in Symbol
    BY Symbols
  <2>5. c \in Seq(Symbol) /\ Len(u) \in Nat /\ Len(c) = Len(u) + 3
    BY <2>2, <2>4, HeaderIs
  <2>6. Window(c, c, 0)
    BY <2>5, WindowSelf
  <2>7. Results(c)[left][1] = OfPrefix("-", c, element, Line(u, Len(u) + 4))
    BY <2>2, <2>4, <2>6, HeaderParsed
  <2> HIDE DEF element, c
  <2>8. OfPrefix("-", c, element, Line(u, Len(u) + 4)) = Got(<<"err", ToText(u)>>, Len(u) + 4)
    BY DEF OfPrefix, Line
  <2>9. Len(u) + 4 = Len(c) + 1 /\ Len(c) >= 1
    BY <2>5
  <2>10. Results(c)[left][1] = Got(v, Len(c) + 1)
    BY <2>1, <2>2, <2>7, <2>8, <2>9
  <2> QED
    BY <2>3, <2>5, <2>9, <2>10
<1>3. CASE v \in {"num"} \X Seq(Symbol \ {"cr"})
  <2> DEFINE u == v[2]
             c == Header(":", u)
             element == Results(c)[left - 1]
  <2>1. /\ v = <<"num", v[2]>> /\ v[1] = "num" /\ v[2] \in Seq(Symbol \ {"cr"})
        /\ v[2] \in Seq(Symbol)
    <3>1. v[2] \in Seq(Symbol \ {"cr"})
      BY <1>3
    <3> QED
      BY <1>3, <3>1, SeqMonotonic
  <2>2. u \in Seq(Symbol) /\ \A i \in 1 .. Len(u) : u[i] # "cr"
    BY <2>1
  <2>3. e = c
    BY <2>1 DEF EncodeSimple, Header
  <2> HIDE DEF u
  <2>4. ":" \in Symbol
    BY Symbols
  <2>5. c \in Seq(Symbol) /\ Len(u) \in Nat /\ Len(c) = Len(u) + 3
    BY <2>2, <2>4, HeaderIs
  <2>6. Window(c, c, 0)
    BY <2>5, WindowSelf
  <2>7. Results(c)[left][1] = OfPrefix(":", c, element, Line(u, Len(u) + 4))
    BY <2>2, <2>4, <2>6, HeaderParsed
  <2> HIDE DEF element, c
  <2>8. OfPrefix(":", c, element, Line(u, Len(u) + 4)) = Got(<<"num", u>>, Len(u) + 4)
    BY DEF OfPrefix, Line
  <2>9. Len(u) + 4 = Len(c) + 1 /\ Len(c) >= 1
    BY <2>5
  <2>10. Results(c)[left][1] = Got(v, Len(c) + 1)
    BY <2>1, <2>7, <2>8, <2>9 DEF u
  <2> QED
    BY <2>3, <2>5, <2>9, <2>10
<1>4. CASE v = <<"null">>
  <2> DEFINE d == <<"-", "1">>
             c == Header("$", d)
             element == Results(c)[left - 1]
  <2>1. v[1] = "null" /\ v = <<"null">>
    BY <1>4
  <2>2. e = c
    BY <2>1 DEF EncodeSimple, Header
  <2>3. "$" \in Symbol /\ "-" \in Symbol /\ "1" \in Symbol
    <3>1. "1" \in Symbol
      BY DigitIs DEF Digit
    <3> QED
      BY <3>1, Symbols
  <2>4. d \in Seq(Symbol) /\ Len(d) = 2 /\ \A i \in 1 .. Len(d) : d[i] # "cr"
    BY <2>3
  <2>5. Number(d) = -1
    BY Zenon DEF Number
  <2> HIDE DEF d
  <2>6. c \in Seq(Symbol) /\ Len(c) = 5 /\ Len(d) + 4 = 6
    <3>1. c \in Seq(Symbol) /\ Len(c) = Len(d) + 3
      <4>1. d \in Seq(Symbol) /\ "$" \in Symbol
        BY <2>3, <2>4
      <4> QED
        BY <4>1, HeaderIs
    <3> HIDE DEF c
    <3> QED
      BY <2>4, <3>1
  <2>7. Window(c, c, 0)
    BY <2>6, WindowSelf
  <2>8. Results(c)[left][1] = OfPrefix("$", c, element, Line(d, Len(d) + 4))
    BY <2>3, <2>4, <2>7, HeaderParsed
  <2> HIDE DEF element, c
  <2>9. OfPrefix("$", c, element, Line(d, Len(d) + 4)) = ParseBulkString(c, Line(d, Len(d) + 4))
    BY DEF OfPrefix
  <2>10. ParseBulkString(c, Line(d, 6)) = Got(<<"null">>, 6)
    BY <2>4, <2>5, BulkIs
  <2>11. Results(c)[left][1] = Got(v, Len(c) + 1) /\ Len(c) >= 1
    BY <2>1, <2>6, <2>8, <2>9, <2>10
  <2> QED
    BY <2>2, <2>6, <2>11
<1> QED
  BY <1>1, <1>2, <1>3, <1>4 DEF IsSimple

\* What is parsed in a buffer is parsed wherever the buffer is part of another.
LEMMA ParsedInside ==
  ASSUME NEW b, NEW c, NEW k, Window(b, c, k), NEW left \in 0 .. MaxDepth + 1,
         NEW pos \in 1 .. Len(b) + 1, NEW pos2, pos2 = k + pos
  PROVE  /\ \A v, n : Results(b)[left][pos] = Got(v, n) => Results(c)[left][pos2] = Got(v, k + n)
         /\ Results(b)[left][pos] = Throws => Results(c)[left][pos2] = Throws
         /\ Results(b)[left][pos] = More /\ Len(c) = k + Len(b) => Results(c)[left][pos2] = More
<1> DEFINE r == Results(b)[left][pos]
           s == Results(c)[left][pos2]
<1>1. Result(r, pos + 1, Len(b)) /\ Agrees(r, s, k, ToTheEnd(b, c, k))
  BY ParsedInWindow
<1>2. Len(b) \in Nat /\ k \in Nat
  BY DEF Window
<1> HIDE DEF r, s
<1>3. \A v, n : r = Got(v, n) => s = Got(v, k + n)
  BY <1>1, ResultsDiffer DEF Agrees
<1>4. r = Throws => s = Throws
  BY <1>1, ResultsDiffer DEF Agrees
<1>5. r = More /\ Len(c) = k + Len(b) => s = More
  BY <1>1, ResultsDiffer DEF Agrees, ToTheEnd
<1> QED
  BY <1>3, <1>4, <1>5 DEF r, s

\* An array of simple values is parsed as what it is.
LEMMA ArrayParsed ==
  ASSUME NEW V, NEW vs \in Seq(V), \A i \in 1 .. Len(vs) : IsSimple(vs[i]),
         NEW v, v = <<"arr", vs>>
  PROVE  /\ Encode(v) \in Seq(Symbol) /\ Len(Encode(v)) >= 1
         /\ Results(Encode(v))[MaxDepth + 1][1] = Got(v, Len(Encode(v)) + 1)
<1> DEFINE m == Len(vs)
           d == Digits(m)
           h == Header("*", d)
           encs == [i \in DOMAIN vs |-> EncodeSimple(vs[i])]
           flat == FlattenSeq(encs)
           c == h \o flat
           left == MaxDepth + 1
           element == Results(c)[left - 1]
           next == Len(d) + 4
<1>1. Encode(v) = c
  <2>1. v[1] = "arr" /\ v[2] = vs
    OBVIOUS
  <2> QED
    BY <2>1 DEF Encode, Header
<1>2. m \in Nat /\ MaxDepth \in Nat /\ MaxDepth >= 1 /\ DOMAIN vs = 1 .. m
  BY ParserAssumption
<1>3. /\ encs \in Seq(Seq(Symbol)) /\ Len(encs) = m
      /\ \A i \in 1 .. m : encs[i] = EncodeSimple(vs[i])
  <2>1. \A i \in 1 .. m : EncodeSimple(vs[i]) \in Seq(Symbol)
    <3>1. MaxDepth \in 1 .. MaxDepth + 1
      BY <1>2
    <3> QED
      BY <3>1, SimpleParsed
  <2> HIDE DEF m
  <2> QED
    BY <1>2, <2>1
<1>4. /\ d \in Seq(Symbol) /\ Number(d) = m /\ \A i \in 1 .. Len(d) : d[i] # "cr"
  BY <1>2, DigitsRead
<1> HIDE DEF m, d, encs
<1>5. flat \in Seq(Symbol) /\ Len(flat) \in Nat
  BY <1>3, Flattened
<1>6. /\ Cut(encs, 0) = 0 /\ Cut(encs, m) = Len(flat)
      /\ \A n \in 0 .. m : Cut(encs, n) \in 0 .. Len(flat)
      /\ \A n \in 0 .. m - 1 :
           /\ Cut(encs, n + 1) = Cut(encs, n) + Len(encs[n + 1])
           /\ \A i \in 1 .. Len(encs[n + 1]) : flat[Cut(encs, n) + i] = encs[n + 1][i]
  BY <1>3, FlatCuts
<1> HIDE DEF flat
<1>7. "*" \in Symbol
  BY Symbols
<1>8. h \in Seq(Symbol) /\ Len(d) \in Nat /\ Len(h) = Len(d) + 3
  BY <1>4, <1>7, HeaderIs
<1> HIDE DEF h
<1>9. /\ c \in Seq(Symbol) /\ Len(h) \in Nat /\ Len(c) = Len(h) + Len(flat)
      /\ Window(h, c, 0) /\ Window(flat, c, Len(h))
  BY <1>5, <1>8, WindowJoined
<1> HIDE DEF c
<1>10. left \in 1 .. MaxDepth + 1 /\ left - 1 = MaxDepth
  BY <1>2
<1>11. Results(c)[left][1] = OfPrefix("*", c, element, Line(d, next))
  <2> HIDE DEF left
  <2> QED
    BY <1>4, <1>7, <1>9, <1>10, HeaderParsed DEF h
<1>12. element = Results(c)[MaxDepth]
  BY <1>10
<1> HIDE DEF element, left
<1>13. OfPrefix("*", c, element, Line(d, next)) = ParseArray(element, Line(d, next))
  BY DEF OfPrefix
<1> DEFINE ends(n) == next + Cut(encs, n)
<1>14. ASSUME NEW n \in 0 .. m - 1 PROVE element[ends(n)] = Got(vs[n + 1], ends(n + 1))
  <2> DEFINE k == Len(h) + Cut(encs, n)
             e == encs[n + 1]
  <2>1. n + 1 \in 1 .. m /\ n \in 0 .. m /\ n + 1 \in 0 .. m
    BY <1>2
  <2>2. /\ e \in Seq(Symbol) /\ Len(e) >= 1 /\ Len(e) \in Nat
        /\ Results(e)[MaxDepth][1] = Got(vs[n + 1], Len(e) + 1)
    <3>1. IsSimple(vs[n + 1]) /\ e = EncodeSimple(vs[n + 1])
      BY <1>3, <2>1 DEF m
    <3>2. MaxDepth \in 1 .. MaxDepth + 1
      BY <1>2
    <3> HIDE DEF e
    <3>3. e \in Seq(Symbol) /\ Len(e) >= 1 /\ Results(e)[MaxDepth][1] = Got(vs[n + 1], Len(e) + 1)
      BY <3>1, <3>2, SimpleParsed
    <3> QED
      BY <3>3
  <2>3. /\ Cut(encs, n) \in 0 .. Len(flat) /\ Cut(encs, n + 1) \in 0 .. Len(flat)
        /\ Cut(encs, n + 1) = Cut(encs, n) + Len(e)
        /\ \A i \in 1 .. Len(e) : flat[Cut(encs, n) + i] = e[i]
    BY <1>6, <2>1
  <2> HIDE DEF e
  <2>4. Window(e, c, k)
    <3>1. /\ \A i \in 1 .. Len(flat) : c[Len(h) + i] = flat[i]
      BY <1>9 DEF Window
    <3>2. k \in Nat /\ k + Len(e) <= Len(c)
      BY <1>5, <1>9, <2>2, <2>3
    <3>3. ASSUME NEW i \in 1 .. Len(e) PROVE c[k + i] = e[i]
      <4>1. Cut(encs, n) + i \in 1 .. Len(flat) /\ Len(h) + (Cut(encs, n) + i) = k + i
        BY <1>5, <1>9, <2>2, <2>3
      <4> QED
        BY <2>3, <3>1, <4>1
    <3> QED
      BY <1>9, <2>2, <3>2, <3>3 DEF Window
  <2>5. ends(n) = k + 1 /\ ends(n + 1) = k + (Len(e) + 1)
    <3> DEFINE from == Cut(encs, n)
               to == Cut(encs, n + 1)
    <3>1. from \in Nat /\ to = from + Len(e) /\ Len(e) \in Nat /\ Len(d) \in Nat /\ Len(h) = Len(d) + 3
      BY <1>5, <1>8, <2>2, <2>3
    <3> HIDE DEF from, to
    <3>2. next + from = (Len(h) + from) + 1 /\ next + to = (Len(h) + from) + (Len(e) + 1)
      BY <3>1
    <3> QED
      BY <3>2 DEF from, to
  <2> HIDE DEF k, ends
  <2>6. MaxDepth \in 0 .. MaxDepth + 1 /\ 1 \in 1 .. Len(e) + 1
    BY <1>2, <2>2
  <2>7. Results(c)[MaxDepth][ends(n)] = Got(vs[n + 1], k + (Len(e) + 1))
    BY <2>2, <2>4, <2>5, <2>6, ParsedInside
  <2> QED
    BY <1>12, <2>5, <2>7
<1>15. PICK f : /\ \A n \in 0 .. m : f[n] = ArrayStep(f, element, next, n)
                /\ ParseArray(element, Line(d, next)) = f[m]
  <2>1. Number(d) \in Nat
    BY <1>2, <1>4
  <2> HIDE DEF next
  <2>2. \E f : /\ \A n \in 0 .. Number(d) : f[n] = ArrayStep(f, element, next, n)
              /\ ParseArray(element, Line(d, next)) = f[Number(d)]
    BY <1>4, <2>1, ArrayUnfolds
  <2> QED
    BY <1>4, <2>2
<1> HIDE DEF next
<1> DEFINE upTo(n) == SubSeq(vs, 1, n)
           N == {n \in Nat : n <= m => f[n] = Got(<<"arr", upTo(n)>>, ends(n))}
<1>16. 0 \in N
  <2>1. 0 \in 0 .. m
    BY <1>2
  <2>2. f[0] = Got(<<"arr", <<>> >>, next)
    BY Zenon, <1>15, <2>1 DEF ArrayStep
  <2>3. upTo(0) = <<>>
    OBVIOUS
  <2>4. ends(0) = next
    <3>1. next \in Nat
      BY <1>8 DEF next
    <3> QED
      BY <1>6, <3>1
  <2> QED
    BY <2>2, <2>3, <2>4
<1>17. ASSUME NEW n \in N PROVE n + 1 \in N
  <2> SUFFICES ASSUME n + 1 <= m PROVE f[n + 1] = Got(<<"arr", upTo(n + 1)>>, ends(n + 1))
    OBVIOUS
  <2>1. n \in Nat /\ n + 1 \in 0 .. m /\ n \in 0 .. m - 1 /\ n + 1 # 0 /\ (n + 1) - 1 = n /\ n <= m
    BY <1>2
  <2>2. f[n] = Got(<<"arr", upTo(n)>>, ends(n))
    BY <2>1
  <2>3. element[ends(n)] = Got(vs[n + 1], ends(n + 1))
    BY <1>14, <2>1
  <2>4. upTo(n + 1) = Append(upTo(n), vs[n + 1])
    BY <2>1, FirstMore DEF m
  <2> HIDE DEF upTo, ends, N
  <2>5. f[n + 1] = ArrayStep(f, element, next, n + 1)
    BY <1>15, <2>1
  <2>6. ArrayStep(f, element, next, n + 1) =
          IF f[n].got # "value" THEN f[n]
          ELSE IF element[f[n].next].got # "value" THEN element[f[n].next]
          ELSE Got(<<"arr", Append(f[n].value[2], element[f[n].next].value)>>, element[f[n].next].next)
    BY <2>1 DEF ArrayStep
  <2>7. f[n].got = "value" /\ f[n].next = ends(n) /\ f[n].value[2] = upTo(n)
    <3>1. f[n].got = "value" /\ f[n].next = ends(n) /\ f[n].value = <<"arr", upTo(n)>>
      BY <2>2, ResultsDiffer
    <3> QED
      BY <3>1
  <2>8. element[ends(n)].got = "value" /\ element[ends(n)].value = vs[n + 1] /\ element[ends(n)].next = ends(n + 1)
    BY <2>3, ResultsDiffer
  <2>9. f[n + 1] = Got(<<"arr", Append(upTo(n), vs[n + 1])>>, ends(n + 1))
    BY <2>5, <2>6, <2>7, <2>8, Zenon
  <2> QED
    BY <2>4, <2>9
<1>18. N = Nat
  <2> HIDE DEF N
  <2>1. N \in SUBSET Nat
    BY DEF N
  <2> QED
    BY <1>16, <1>17, <2>1, SetInduction
<1>19. f[m] = Got(<<"arr", upTo(m)>>, ends(m))
  BY <1>2, <1>18
<1>20. upTo(m) = vs /\ ends(m) = Len(c) + 1 /\ Len(c) >= 1
  <2>1. upTo(m) = vs
    BY DEF m
  <2>2. ends(m) = Len(c) + 1 /\ Len(c) >= 1
    BY <1>5, <1>6, <1>8, <1>9 DEF next
  <2> QED
    BY <2>1, <2>2
<1>21. Results(c)[left][1] = Got(v, Len(c) + 1)
  BY <1>11, <1>13, <1>15, <1>19, <1>20
<1> QED
  BY <1>1, <1>9, <1>20, <1>21 DEF left

\* A value that Redis sends is parsed as what it is.
LEMMA ValueParsed ==
  ASSUME NEW v, IsValue(v)
  PROVE  /\ Encode(v) \in Seq(Symbol) /\ Len(Encode(v)) >= 1
         /\ Results(Encode(v))[MaxDepth + 1][1] = Got(v, Len(Encode(v)) + 1)
<1>1. CASE IsSimple(v)
  <2>1. v[1] # "arr"
    BY <1>1 DEF IsSimple
  <2>2. Encode(v) = EncodeSimple(v)
    BY <2>1 DEF Encode
  <2>3. MaxDepth + 1 \in 1 .. MaxDepth + 1
    BY ParserAssumption
  <2> QED
    BY <1>1, <2>2, <2>3, SimpleParsed
<1>2. CASE v = <<"arr", v[2]>> /\ v[2] \in Seq(ToSet(v[2])) /\ \A w \in ToSet(v[2]) : IsSimple(w)
  <2> DEFINE vs == v[2]
             V == ToSet(vs)
  <2>1. v = <<"arr", vs>> /\ vs \in Seq(V) /\ \A w \in V : IsSimple(w)
    BY <1>2
  <2> HIDE DEF vs, V
  <2>2. \A i \in 1 .. Len(vs) : vs[i] \in V
    BY <2>1
  <2>3. \A i \in 1 .. Len(vs) : IsSimple(vs[i])
    BY <2>1, <2>2
  <2> QED
    BY <2>1, <2>3, ArrayParsed
<1> QED
  BY <1>1, <1>2 DEF IsValue

\* A buffer that is parsed to its end is not parsed any shorter.
LEMMA PrefixParsed ==
  ASSUME NEW e \in Seq(Symbol), NEW v, Results(e)[MaxDepth + 1][1] = Got(v, Len(e) + 1),
         NEW b, Window(b, e, 0), Len(b) < Len(e)
  PROVE  Results(b)[MaxDepth + 1][1] = More
<1> DEFINE r == Results(b)[MaxDepth + 1][1]
           s == Results(e)[MaxDepth + 1][0 + 1]
<1>1. Len(b) \in Nat /\ Len(e) \in Nat
  BY DEF Window
<1>2. MaxDepth + 1 \in 0 .. MaxDepth + 1 /\ 1 \in 1 .. Len(b) + 1
  BY <1>1, ParserAssumption
<1>3. Result(r, 1 + 1, Len(b)) /\ Agrees(r, s, 0, ToTheEnd(b, e, 0))
  BY <1>2, ParsedInWindow
<1>4. s = Got(v, Len(e) + 1)
  OBVIOUS
<1> HIDE DEF r, s
<1>5. r # Throws
  BY <1>3, <1>4, ResultsDiffer DEF Agrees
<1>6. ASSUME r # More PROVE FALSE
  <2>1. r = Got(r.value, r.next) /\ r.next \in 1 + 1 .. Len(b) + 1 /\ s = Got(r.value, 0 + r.next)
    BY <1>3, <1>5, <1>6, ResultsDiffer DEF Result, Agrees
  <2>2. 0 + r.next = Len(e) + 1
    BY <1>4, <2>1, ResultsDiffer
  <2> QED
    BY <1>1, <2>1, <2>2
<1> QED
  BY <1>6 DEF r

\* The first elements of a buffer are a window at its beginning.
LEMMA WindowFirst ==
  ASSUME NEW e \in Seq(Symbol), NEW n \in 0 .. Len(e)
  PROVE  Window(Part(e, 1, n), e, 0) /\ Len(Part(e, 1, n)) = n
<1> DEFINE b == SubSeq(e, 1, n)
<1>1. /\ b \in Seq(Symbol) /\ Len(b) = n /\ \A i \in 1 .. n : b[i] = e[i]
  BY DEF Part
<1> HIDE DEF b
<1>2. \A i \in 1 .. n : 0 + i = i
  OBVIOUS
<1>3. Window(b, e, 0)
  BY <1>1, <1>2 DEF Window
<1> QED
  BY <1>1, <1>3 DEF b, Part

\* Nothing is in an empty buffer.
LEMMA NothingParsed ==
  ASSUME NEW b \in Seq(Symbol) PROVE Results(b)[MaxDepth + 1][Len(b) + 1] = More
<1>1. Len(b) \in Nat /\ MaxDepth \in Nat
  BY ParserAssumption
<1>2. MaxDepth + 1 \in 0 .. MaxDepth + 1 /\ Len(b) + 1 \in 1 .. Len(b) + 1 /\ Len(b) + 1 > Len(b)
  BY <1>1
<1> DEFINE at0 == Len(b) + 1
           left == MaxDepth + 1
<1> HIDE DEF at0, left
<1>3. at0 \in 1 .. Len(b) + 1 /\ left \in 0 .. MaxDepth + 1 /\ at0 > Len(b)
  BY <1>2 DEF at0, left
<1>4. Results(b)[left][at0] = More
  BY <1>3, ResultAt
<1> QED
  BY <1>4 DEF at0, left

\* The bytes of an item are parsed as what it is, or rejected, and nothing is
\* said before the last of them.
LEMMA ItemParsed ==
  ASSUME NEW item \in Items
  PROVE  LET e == Bytes(item) IN
         /\ e \in Seq(Symbol) /\ Len(e) \in Nat \ {0}
         /\ Results(e)[MaxDepth + 1][1] = IF item[1] = "raw" THEN Throws ELSE Got(item, Len(e) + 1)
         /\ \A n \in 0 .. Len(e) - 1 : Results(Part(e, 1, n))[MaxDepth + 1][1] = More
<1>1. CASE item[1] = "raw"
  <2> DEFINE e == item[2]
  <2>1. Bytes(item) = e
    BY <1>1 DEF Bytes
  <2>2. /\ e \in Seq(Symbol) \ {<<>>} /\ ParseAt(e, 1, 0) = Throws
        /\ \A n \in 1 .. Len(e) - 1 : ParseAt(SubSeq(e, 1, n), 1, 0) = More
    BY <1>1, RawAssumption
  <2>3. \A b : ParseAt(b, 1, 0) = Results(b)[MaxDepth + 1][1]
    <3>1. (MaxDepth + 1) - 0 = MaxDepth + 1
      BY ParserAssumption
    <3> QED
      BY <3>1 DEF ParseAt
  <2> HIDE DEF e
  <2>4. e \in Seq(Symbol) /\ Len(e) \in Nat \ {0}
    BY <2>2
  <2>5. Results(e)[MaxDepth + 1][1] = Throws
    BY <2>2, <2>3
  <2>6. ASSUME NEW n \in 0 .. Len(e) - 1 PROVE Results(Part(e, 1, n))[MaxDepth + 1][1] = More
    <3>1. CASE n = 0
      <4> DEFINE b == Part(e, 1, n)
      <4>0. n \in 0 .. Len(e)
        BY <2>4
      <4>1. b \in Seq(Symbol) /\ Len(b) = 0
        BY <2>4, <3>1, <4>0, WindowFirst DEF Window
      <4> HIDE DEF b
      <4>2. Results(b)[MaxDepth + 1][0 + 1] = More
        BY <4>1, NothingParsed
      <4> QED
        BY <4>2 DEF b
    <3>2. CASE n \in 1 .. Len(e) - 1
      BY <2>2, <2>3, <3>2 DEF Part
    <3> QED
      BY <2>4, <3>1, <3>2
  <2> QED
    BY <1>1, <2>1, <2>4, <2>5, <2>6
<1>2. CASE item[1] # "raw"
  <2> DEFINE e == Encode(item)
  <2>1. Bytes(item) = e
    BY <1>2 DEF Bytes
  <2>2. e \in Seq(Symbol) /\ Len(e) >= 1 /\ Results(e)[MaxDepth + 1][1] = Got(item, Len(e) + 1)
    BY <1>2, ValuesAssumption, ValueParsed
  <2> HIDE DEF e
  <2>3. Len(e) \in Nat \ {0}
    BY <2>2
  <2>4. ASSUME NEW n \in 0 .. Len(e) - 1 PROVE Results(Part(e, 1, n))[MaxDepth + 1][1] = More
    <3>1. n \in 0 .. Len(e) /\ n < Len(e)
      BY <2>3
    <3>2. Window(Part(e, 1, n), e, 0) /\ Len(Part(e, 1, n)) = n
      BY <2>2, <3>1, WindowFirst
    <3> DEFINE b == Part(e, 1, n)
    <3> HIDE DEF b
    <3>3. Window(b, e, 0) /\ Len(b) < Len(e)
      BY <3>1, <3>2 DEF b
    <3>4. Results(b)[MaxDepth + 1][1] = More
      BY <2>2, <3>3, PrefixParsed
    <3> QED
      BY <3>4 DEF b
  <2> QED
    BY <1>2, <2>1, <2>2, <2>3, <2>4
<1> QED
  BY <1>1, <1>2

-----------------------------------------------------------------------------
(* The loop over the values of a buffer *)

\* The equation of the recursive function in Parse.
ParseStep(f, b, i) ==
  LET r == ParseAt(b, i, 0)
      later == f[r.next]
  IN  CASE r.got = "value" -> IF later.failed THEN later ELSE Parsed(FALSE, <<r.value>> \o later.values, later.rest)
        [] r.got = "more" -> Parsed(FALSE, <<>>, SubSeq(b, i, Len(b)))
        [] r.got = "error" -> Parsed(TRUE, <<>>, b)

\* One more value in front.
Longer(later, v) == IF later.failed THEN later ELSE Parsed(FALSE, <<v>> \o later.values, later.rest)

Ended(b, i) == Parsed(FALSE, <<>>, SubSeq(b, i, Len(b)))
Failed(b) == Parsed(TRUE, <<>>, b)

\* A step by the result at its offset.
LEMMA ParseStepIs ==
  ASSUME NEW b, NEW f, NEW i
  PROVE  /\ Results(b)[MaxDepth + 1][i] = More => ParseStep(f, b, i) = Ended(b, i)
         /\ Results(b)[MaxDepth + 1][i] = Throws => ParseStep(f, b, i) = Failed(b)
         /\ \A v, n : Results(b)[MaxDepth + 1][i] = Got(v, n) => ParseStep(f, b, i) = Longer(f[n], v)
<1> DEFINE r == ParseAt(b, i, 0)
           end == Ended(b, i)
           failure == Failed(b)
           s == ParseStep(f, b, i)
<1>1. Results(b)[MaxDepth + 1][i] = r
  <2>1. (MaxDepth + 1) - 0 = MaxDepth + 1
    BY ParserAssumption
  <2> QED
    BY <2>1 DEF ParseAt
<1>2. s = CASE r.got = "value" -> Longer(f[r.next], r.value)
            [] r.got = "more" -> end
            [] r.got = "error" -> failure
  BY Zenon DEF ParseStep, Longer, Ended, Failed
<1> HIDE DEF r, end, failure, s
<1>3. r = More => s = end
  BY <1>2, ResultsDiffer
<1>4. r = Throws => s = failure
  BY <1>2, ResultsDiffer
<1>5. ASSUME NEW v, NEW n, r = Got(v, n) PROVE s = Longer(f[n], v)
  <2>1. r.got = "value" /\ r.value = v /\ r.next = n
    BY <1>5, ResultsDiffer
  <2> QED
    BY <1>2, <2>1
<1> QED
  BY <1>1, <1>3, <1>4, <1>5 DEF end, failure, s

\* Values in front of those that are parsed.
LEMMA LongerIs ==
  ASSUME NEW v, NEW w, NEW x
  PROVE  Longer(Parsed(FALSE, w, x), v) = Parsed(FALSE, <<v>> \o w, x)
<1> DEFINE p == Parsed(FALSE, w, x)
<1>1. p.failed = FALSE /\ p.values = w /\ p.rest = x
  BY DEF Parsed
<1> HIDE DEF p
<1>2. Longer(p, v) = Parsed(FALSE, <<v>> \o w, x)
  BY <1>1, Zenon DEF Longer
<1> QED
  BY <1>2 DEF p

\* A rejection takes the values before it along.
LEMMA FailureStays == ASSUME NEW v, NEW b PROVE Longer(Failed(b), v) = Failed(b)
<1> DEFINE p == Failed(b)
<1>1. p.failed = TRUE
  BY DEF Parsed, Failed
<1> HIDE DEF p
<1>2. Longer(p, v) = p
  BY <1>1, Zenon DEF Longer
<1> QED
  BY <1>2 DEF p

\* A step uses only what lies ahead of it.
LEMMA ParseStepAhead ==
  ASSUME NEW b \in Seq(Symbol), NEW f, NEW g, NEW i \in 1 .. Len(b) + 1,
         \A j \in 1 .. Len(b) + 1 : j > i => f[j] = g[j]
  PROVE  ParseStep(f, b, i) = ParseStep(g, b, i)
<1> DEFINE r == Results(b)[MaxDepth + 1][i]
<1>1. Window(b, b, 0) /\ Len(b) \in Nat
  BY WindowSelf
<1>2. MaxDepth + 1 \in 0 .. MaxDepth + 1
  BY ParserAssumption
<1>3. Result(r, i + 1, Len(b))
  BY <1>1, <1>2, ParsedInWindow
<1>4. CASE r = More \/ r = Throws
  BY <1>4, ParseStepIs
<1>5. CASE r = Got(r.value, r.next) /\ r.next \in i + 1 .. Len(b) + 1
  <2> DEFINE v == r.value
             n == r.next
  <2>1. r = Got(v, n) /\ f[n] = g[n]
    BY <1>1, <1>5
  <2> HIDE DEF v, n
  <2>2. ParseStep(f, b, i) = Longer(f[n], v) /\ ParseStep(g, b, i) = Longer(g[n], v)
    BY <2>1, ParseStepIs DEF v, n
  <2> QED
    BY <2>1, <2>2
<1> QED
  BY <1>3, <1>4, <1>5 DEF Result

\* The equation has a solution.
LEMMA ParseExists ==
  ASSUME NEW b \in Seq(Symbol)
  PROVE  \E f : f = [i \in 1 .. Len(b) + 1 |-> ParseStep(f, b, i)]
<1> DEFINE n == Len(b) + 1
           From(g, k) == \A i \in 1 .. n : i + k > n => g[i] = ParseStep(g, b, i)
           K == {k \in Nat : \E g : From(g, k)}
<1>0. n \in Nat
  OBVIOUS
<1>1. 0 \in K
  OBVIOUS
<1>2. ASSUME NEW k \in K PROVE k + 1 \in K
  <2>1. PICK g : From(g, k)
    OBVIOUS
  <2> DEFINE h == [i \in 1 .. n |-> IF i + k > n THEN g[i] ELSE ParseStep(g, b, i)]
  <2>2. ASSUME NEW i \in 1 .. n PROVE h[i] = ParseStep(g, b, i)
    BY <2>1
  <2>3. \A i \in 1 .. n : i + k > n => h[i] = g[i]
    OBVIOUS
  <2> HIDE DEF h
  <2>4. ASSUME NEW i \in 1 .. n, i + (k + 1) > n PROVE h[i] = ParseStep(h, b, i)
    <3>1. \A j \in 1 .. n : j > i => h[j] = g[j]
      BY <1>0, <2>3, <2>4
    <3>2. ParseStep(h, b, i) = ParseStep(g, b, i)
      BY <3>1, ParseStepAhead
    <3> QED
      BY <2>2, <3>2
  <2>5. From(h, k + 1)
    BY <2>4
  <2> QED
    BY <2>5
<1>3. n \in K
  <2>1. K \in SUBSET Nat
    OBVIOUS
  <2> HIDE DEF K
  <2>2. K = Nat
    BY <1>1, <1>2, <2>1, SetInduction
  <2> QED
    BY <1>0, <2>2
<1>4. PICK g : From(g, n)
  BY <1>3
<1>5. \A i \in 1 .. n : g[i] = ParseStep(g, b, i)
  BY <1>0, <1>4
<1> DEFINE f == [i \in 1 .. n |-> g[i]]
<1>6. ASSUME NEW i \in 1 .. n PROVE ParseStep(f, b, i) = g[i]
  <2>1. ParseStep(f, b, i) = ParseStep(g, b, i)
    BY ParseStepAhead
  <2> QED
    BY <1>5, <2>1
<1>7. f = [i \in 1 .. n |-> ParseStep(f, b, i)]
  BY <1>6
<1> QED
  BY <1>7

\* Parse is what its recursion says.
LEMMA ParseUnfolds ==
  ASSUME NEW b \in Seq(Symbol)
  PROVE  \E f : /\ Parse(b) = f[1]
                /\ \A i \in 1 .. Len(b) + 1 : f[i] = ParseStep(f, b, i)
<1> DEFINE f == CHOOSE f : f = [i \in 1 .. Len(b) + 1 |-> ParseStep(f, b, i)]
<1>1. f = [i \in 1 .. Len(b) + 1 |-> ParseStep(f, b, i)]
  BY ParseExists
<1>2. Parse(b) = f[1]
  BY Zenon DEF Parse, ParseStep
<1> HIDE DEF f
<1>3. \A i \in 1 .. Len(b) + 1 : f[i] = ParseStep(f, b, i)
  BY <1>1
<1> QED
  BY <1>2, <1>3

\* Values one behind the other, and then the end of the buffer or a rejection.
LEMMA ParseChain ==
  ASSUME NEW b \in Seq(Symbol), NEW V, NEW values \in Seq(V),
         NEW pos \in [0 .. Len(values) -> 1 .. Len(b) + 1], pos[0] = 1,
         \A i \in 0 .. Len(values) - 1 :
           Results(b)[MaxDepth + 1][pos[i]] = Got(values[i + 1], pos[i + 1])
  PROVE  LET last == Results(b)[MaxDepth + 1][pos[Len(values)]] IN
         /\ last = More => Parse(b) = Parsed(FALSE, values, SubSeq(b, pos[Len(values)], Len(b)))
         /\ last = Throws => Parse(b) = Failed(b)
<1> DEFINE m == Len(values)
           res == Results(b)[MaxDepth + 1]
           rest == SubSeq(b, pos[m], Len(b))
           from(k) == SubSeq(values, k + 1, m)
           Good(f, k) == /\ res[pos[m]] = More => f[pos[k]] = Parsed(FALSE, from(k), rest)
                         /\ res[pos[m]] = Throws => f[pos[k]] = Failed(b)
<1>0. m \in Nat
  OBVIOUS
<1>1. PICK f : Parse(b) = f[1] /\ \A i \in 1 .. Len(b) + 1 : f[i] = ParseStep(f, b, i)
  BY ParseUnfolds
<1>2. \A k \in 0 .. m : pos[k] \in 1 .. Len(b) + 1 /\ f[pos[k]] = ParseStep(f, b, pos[k])
  BY <1>1
<1>3. from(m) = <<>> /\ from(0) = values
  BY <1>0
<1>4. \A k \in 0 .. m - 1 : from(k) = <<values[k + 1]>> \o from(k + 1)
  <2> TAKE k \in 0 .. m - 1
  <2>1. k \in Nat /\ k < Len(values) /\ (k + 1) + 1 = k + 2
    BY <1>0
  <2>2. SubSeq(values, k + 1, Len(values)) = <<values[k + 1]>> \o SubSeq(values, k + 2, Len(values))
    BY <2>1, CutOne
  <2> QED
    BY <2>1, <2>2
<1> DEFINE N == {j \in Nat : j <= m => Good(f, m - j)}
<1> HIDE DEF res, rest, from
<1>5. 0 \in N
  <2> DEFINE p == pos[m]
  <2>1. m \in 0 .. m
    BY <1>0
  <2>2. f[p] = ParseStep(f, b, p)
    BY <1>2, <2>1
  <2>3. rest = SubSeq(b, p, Len(b))
    BY DEF rest
  <2> HIDE DEF p
  <2>4. res[p] = More => f[p] = Parsed(FALSE, <<>>, rest)
    BY <2>2, <2>3, ParseStepIs DEF res, Ended
  <2>5. res[p] = Throws => f[p] = Failed(b)
    BY <2>2, ParseStepIs DEF res
  <2>6. Good(f, m)
    BY <1>3, <2>4, <2>5 DEF p
  <2>7. m - 0 = m
    BY <1>0
  <2> QED
    BY <2>6, <2>7
<1>6. ASSUME NEW j \in N PROVE j + 1 \in N
  <2>0. j \in Nat /\ (j <= m => Good(f, m - j))
    OBVIOUS
  <2> SUFFICES ASSUME j + 1 <= m PROVE Good(f, m - (j + 1))
    <3> HIDE DEF Good, m
    <3> QED
      BY <2>0
  <2> DEFINE k == m - (j + 1)
             p == pos[k]
             q == pos[k + 1]
  <2>1. k \in 0 .. m - 1 /\ k \in 0 .. m /\ k + 1 = m - j /\ j <= m /\ j \in Nat
    <3> HIDE DEF m, N
    <3> QED
      BY <1>0, <2>0
  <2>2. Good(f, m - j)
    BY <2>0, <2>1
  <2>3. f[p] = ParseStep(f, b, p) /\ res[p] = Got(values[k + 1], q)
    BY <1>2, <2>1 DEF res
  <2>4. from(k) = <<values[k + 1]>> \o from(k + 1)
    BY <1>4, <2>1
  <2>5. Good(f, k + 1)
    BY <2>1, <2>2
  <2> HIDE DEF k, N
  <2>6. ParseStep(f, b, p) = Longer(f[q], values[k + 1])
    <3> HIDE DEF p, q
    <3> QED
      BY <2>3, ParseStepIs DEF res
  <2>7. ASSUME res[pos[m]] = More PROVE f[p] = Parsed(FALSE, from(k), rest)
    <3>1. f[q] = Parsed(FALSE, from(k + 1), rest)
      BY <2>5, <2>7
    <3> DEFINE y == values[k + 1]
               l == from(k + 1)
    <3>2. f[p] = Longer(f[q], y) /\ f[q] = Parsed(FALSE, l, rest) /\ from(k) = <<y>> \o l
      BY <2>3, <2>4, <2>6, <3>1
    <3> HIDE DEF p, q, y, l
    <3>3. f[p] = Longer(Parsed(FALSE, l, rest), y)
      BY <3>2, Zenon
    <3>4. Longer(Parsed(FALSE, l, rest), y) = Parsed(FALSE, <<y>> \o l, rest)
      BY LongerIs
    <3> QED
      BY <3>2, <3>3, <3>4, Zenon
  <2>8. ASSUME res[pos[m]] = Throws PROVE f[p] = Failed(b)
    <3>1. f[q] = Failed(b)
      BY <2>5, <2>8
    <3> QED
      BY <2>3, <2>6, <3>1, FailureStays
  <2> QED
    BY <2>7, <2>8 DEF k
<1>7. N = Nat
  <2> HIDE DEF N
  <2>1. N \in SUBSET Nat
    BY DEF N
  <2> QED
    BY <1>5, <1>6, <2>1, SetInduction
<1>8. Good(f, 0)
  <2> HIDE DEF Good, m
  <2>1. \A j \in N : j <= m => Good(f, m - j)
    OBVIOUS
  <2> HIDE DEF N
  <2>2. m \in N /\ m <= m /\ m - m = 0
    BY <1>0, <1>7
  <2> QED
    BY <2>1, <2>2
<1> QED
  BY <1>1, <1>3, <1>8 DEF res, rest

-----------------------------------------------------------------------------
(* The bytes of a script *)

StreamOf(s) == FlattenSeq([i \in DOMAIN s |-> Bytes(s[i])])
EndOf(s, n) == Len(FlattenSeq([i \in 1 .. n |-> Bytes(s[i])]))
CountOf(s, a) ==
  CHOOSE n \in 0 .. Len(s) : EndOf(s, n) <= a /\ (n < Len(s) => a < EndOf(s, n + 1))

\* Where the bytes of each item are.
LEMMA StreamIs ==
  ASSUME NEW s \in Scripts
  PROVE  /\ s \in Seq(Items) /\ Len(s) \in Nat /\ StreamOf(s) \in Seq(Symbol)
         /\ EndOf(s, 0) = 0 /\ EndOf(s, Len(s)) = Len(StreamOf(s))
         /\ \A n \in 0 .. Len(s) : EndOf(s, n) \in 0 .. Len(StreamOf(s))
         /\ \A n \in 0 .. Len(s) - 1 :
              /\ s[n + 1] \in Items /\ Len(Bytes(s[n + 1])) \in Nat \ {0}
              /\ EndOf(s, n + 1) = EndOf(s, n) + Len(Bytes(s[n + 1]))
              /\ Window(Bytes(s[n + 1]), StreamOf(s), EndOf(s, n))
<1> DEFINE encs == [i \in DOMAIN s |-> Bytes(s[i])]
           m == Len(s)
           st == FlattenSeq(encs)
<1>1. s \in Seq(Items) /\ m \in Nat /\ DOMAIN s = 1 .. m /\ \A i \in 1 .. m : s[i] \in Items
  <2>1. s \in Seq(ToSet(s))
    BY ScriptsAssumption
  <2>2. ToSet(s) \subseteq Items
    BY DEF Items
  <2>3. s \in Seq(Items)
    BY <2>1, <2>2, SeqMonotonic
  <2> QED
    BY <2>3
<1>2. \A i \in 1 .. m : Bytes(s[i]) \in Seq(Symbol) /\ Len(Bytes(s[i])) \in Nat \ {0}
  BY <1>1, ItemParsed
<1>3. /\ encs \in Seq(Seq(Symbol)) /\ Len(encs) = m
      /\ \A i \in 1 .. m : encs[i] = Bytes(s[i])
  <2> HIDE DEF m
  <2> QED
    BY <1>1, <1>2
<1>4. ASSUME NEW n \in 0 .. m PROVE EndOf(s, n) = Cut(encs, n)
  <2>1. SubSeq(encs, 1, n) = [i \in 1 .. n |-> Bytes(s[i])]
    <3>1. n \in Nat /\ n <= Len(encs) /\ n <= m
      BY <1>1, <1>3
    <3>2. [i \in 1 .. n |-> Bytes(s[i])] \in Seq(Seq(Symbol)) /\ Len([i \in 1 .. n |-> Bytes(s[i])]) = n
      <4>1. \A i \in 1 .. n : Bytes(s[i]) \in Seq(Symbol)
        BY <1>1, <1>2, <3>1
      <4> QED
        BY <3>1, <4>1
    <3> DEFINE some == SubSeq(encs, 1, n)
    <3>3. some \in Seq(Seq(Symbol)) /\ Len(some) = n /\ \A i \in 1 .. n : some[i] = encs[i]
      <4> HIDE DEF encs
      <4> QED
        BY <1>3, <3>1
    <3> HIDE DEF some, encs
    <3> DEFINE same == [i \in 1 .. n |-> Bytes(s[i])]
    <3>4. \A i \in 1 .. n : same[i] = Bytes(s[i]) /\ encs[i] = Bytes(s[i])
      BY <1>1, <1>3, <3>1
    <3> HIDE DEF same
    <3>5. same \in Seq(Seq(Symbol)) /\ Len(same) = n
      BY <3>2 DEF same
    <3>6. Len(some) = Len(same) /\ \A i \in 1 .. Len(some) : some[i] = same[i]
      BY <3>3, <3>4, <3>5
    <3>7. some = same
      BY <3>3, <3>5, <3>6, SameSeq
    <3> QED
      BY <3>7 DEF some, same
  <2> QED
    BY <2>1 DEF EndOf, Cut
<1>5. StreamOf(s) = st
  BY DEF StreamOf
<1>6. /\ st \in Seq(Symbol) /\ Len(st) \in Nat
      /\ Cut(encs, 0) = 0 /\ Cut(encs, m) = Len(st)
      /\ \A n \in 0 .. m : Cut(encs, n) \in 0 .. Len(st)
      /\ \A n \in 0 .. m - 1 :
           /\ Cut(encs, n + 1) = Cut(encs, n) + Len(encs[n + 1])
           /\ \A i \in 1 .. Len(encs[n + 1]) : st[Cut(encs, n) + i] = encs[n + 1][i]
  <2> HIDE DEF encs
  <2>1. st \in Seq(Symbol) /\ Len(st) \in Nat
    BY <1>3, Flattened
  <2> QED
    BY <1>3, <2>1, FlatCuts
<1> HIDE DEF encs, m, st
<1>7. /\ EndOf(s, 0) = 0 /\ EndOf(s, m) = Len(st)
      /\ \A n \in 0 .. m : EndOf(s, n) \in 0 .. Len(st)
  <2>1. 0 \in 0 .. m /\ m \in 0 .. m
    BY <1>1
  <2> QED
    BY <1>4, <1>6, <2>1
<1>8. ASSUME NEW n \in 0 .. m - 1
      PROVE  /\ s[n + 1] \in Items /\ Len(Bytes(s[n + 1])) \in Nat \ {0}
             /\ EndOf(s, n + 1) = EndOf(s, n) + Len(Bytes(s[n + 1]))
             /\ Window(Bytes(s[n + 1]), st, EndOf(s, n))
  <2> DEFINE e == Bytes(s[n + 1])
  <2>1. n \in 0 .. m /\ n + 1 \in 0 .. m /\ n + 1 \in 1 .. m
    BY <1>1
  <2>2. /\ s[n + 1] \in Items /\ e \in Seq(Symbol) /\ Len(e) \in Nat \ {0} /\ encs[n + 1] = e
        /\ EndOf(s, n) = Cut(encs, n) /\ EndOf(s, n + 1) = Cut(encs, n + 1)
        /\ EndOf(s, n) \in 0 .. Len(st) /\ EndOf(s, n + 1) \in 0 .. Len(st)
    BY <1>1, <1>2, <1>3, <1>4, <1>7, <2>1
  <2> HIDE DEF e
  <2>3. /\ EndOf(s, n + 1) = EndOf(s, n) + Len(e)
        /\ \A i \in 1 .. Len(e) : st[EndOf(s, n) + i] = e[i]
    BY <1>6, <2>2
  <2>4. Window(e, st, EndOf(s, n))
    BY <1>6, <2>2, <2>3 DEF Window
  <2> QED
    BY <2>2, <2>3, <2>4 DEF e
<1> QED
  BY <1>1, <1>5, <1>6, <1>7, <1>8 DEF m

\* Every item has bytes, so more items end later.
LEMMA EndsGrow ==
  ASSUME NEW s \in Scripts
  PROVE  \A i, j \in 0 .. Len(s) : i < j => EndOf(s, i) < EndOf(s, j)
<1> DEFINE m == Len(s)
           end(n) == EndOf(s, n)
<1>1. /\ m \in Nat /\ \A n \in 0 .. m : end(n) \in Int
      /\ \A n \in 0 .. m - 1 : end(n) < end(n + 1)
  <2>1. \A n \in 0 .. m : end(n) \in Int
    BY StreamIs
  <2>2. ASSUME NEW n \in 0 .. m - 1 PROVE end(n) < end(n + 1)
    <3>1. Len(Bytes(s[n + 1])) \in Nat \ {0} /\ end(n + 1) = end(n) + Len(Bytes(s[n + 1]))
      BY StreamIs
    <3>2. n \in 0 .. m
      BY StreamIs
    <3> DEFINE x == end(n)
               y == end(n + 1)
               l == Len(Bytes(s[n + 1]))
    <3>3. x \in Int /\ l \in Nat \ {0} /\ y = x + l
      BY <2>1, <3>1, <3>2
    <3> HIDE DEF x, y, l
    <3>4. x < y
      BY <3>3
    <3> QED
      BY <3>4 DEF x, y
  <2> QED
    BY <2>1, <2>2, StreamIs
<1> HIDE DEF m, end
<1> DEFINE N == {d \in Nat : \A i, j \in 0 .. m : j <= i + 1 + d => (i < j => end(i) < end(j))}
<1>2. 0 \in N
  <2>1. \A i, j \in 0 .. m : j <= i + 1 + 0 /\ i < j => j = i + 1 /\ i \in 0 .. m - 1
    BY <1>1
  <2>2. \A i, j \in 0 .. m : j <= i + 1 + 0 => (i < j => end(i) < end(j))
    BY <1>1, <2>1
  <2> QED
    BY <2>2
<1>3. ASSUME NEW d \in N PROVE d + 1 \in N
  <2>1. d \in Nat /\ \A i, j \in 0 .. m : j <= i + 1 + d => (i < j => end(i) < end(j))
    OBVIOUS
  <2> HIDE DEF N
  <2>2. ASSUME NEW i \in 0 .. m, NEW j \in 0 .. m, j <= i + 1 + (d + 1), i < j
        PROVE  end(i) < end(j)
    <3>1. CASE j <= i + 1 + d
      BY <2>1, <2>2, <3>1
    <3>2. CASE j = i + 1 + (d + 1)
      <4> DEFINE k == j - 1
      <4>1. k \in 0 .. m /\ k <= i + 1 + d /\ i < k /\ k \in 0 .. m - 1 /\ k + 1 = j
        BY <1>1, <2>1, <3>2
      <4> HIDE DEF k
      <4>2. end(i) < end(k) /\ end(k) < end(j)
        BY <1>1, <2>1, <4>1
      <4>3. end(i) \in Int /\ end(j) \in Int /\ end(k) \in Int
        BY <1>1, <4>1
      <4> QED
        BY <4>2, <4>3
    <3> QED
      BY <2>1, <2>2, <3>1, <3>2
  <2> QED
    BY <2>1, <2>2 DEF N
<1>4. N = Nat
  <2> HIDE DEF N
  <2>1. N \in SUBSET Nat
    BY DEF N
  <2> QED
    BY <1>2, <1>3, <2>1, SetInduction
<1>5. ASSUME NEW i \in 0 .. m, NEW j \in 0 .. m, i < j PROVE end(i) < end(j)
  <2>1. m \in N
    BY <1>1, <1>4
  <2>2. \A x, y \in 0 .. m : y <= x + 1 + m => (x < y => end(x) < end(y))
    BY <2>1
  <2>3. j <= i + 1 + m
    BY <1>1
  <2> QED
    BY <1>5, <2>2, <2>3
<1> QED
  BY <1>5 DEF m, end

\* How many items have arrived is determined, and grows.
LEMMA CountIs ==
  ASSUME NEW s \in Scripts, NEW a \in 0 .. Len(StreamOf(s))
  PROVE  LET n == CountOf(s, a) IN
         /\ n \in 0 .. Len(s) /\ EndOf(s, n) <= a /\ (n < Len(s) => a < EndOf(s, n + 1))
         /\ \A j \in 0 .. Len(s) : EndOf(s, j) <= a => j <= n
<1> DEFINE m == Len(s)
           end(n) == EndOf(s, n)
           Here(n) == end(n) <= a /\ (n < m => a < end(n + 1))
           G == {n \in 0 .. m : n = m \/ a < end(n + 1)}
<1>1. /\ m \in Nat /\ a \in Nat /\ end(0) = 0 /\ \A n \in 0 .. m : end(n) \in Nat
  BY StreamIs
<1>2. \A i, j \in 0 .. m : i < j => end(i) < end(j)
  BY EndsGrow
<1>3. CountOf(s, a) = CHOOSE n \in 0 .. m : Here(n)
  BY Zenon DEF CountOf
<1> HIDE DEF m, end
<1>4. G \in SUBSET Nat /\ G # {}
  <2>1. m \in G
    BY <1>1
  <2>2. G \subseteq 0 .. m /\ 0 .. m \subseteq Nat
    BY <1>1
  <2> HIDE DEF G
  <2> QED
    BY <2>1, <2>2
<1>5. PICK l \in G : \A j \in G : l <= j
  BY <1>4, LeastElement
<1>6. end(l) <= a
  <2>1. CASE l = 0
    BY <1>1, <2>1
  <2>2. CASE l # 0
    <3>1. l - 1 \in 0 .. m /\ l - 1 # m /\ (l - 1) + 1 = l /\ ~(l <= l - 1) /\ l \in 0 .. m
      BY <1>1, <1>4, <2>2
    <3>2. l - 1 \notin G
      BY <1>5, <3>1
    <3>3. ~(a < end(l))
      BY <3>1, <3>2
    <3> QED
      BY <1>1, <3>1, <3>3
  <2> QED
    BY <2>1, <2>2
<1>7. l \in 0 .. m /\ Here(l)
  BY <1>1, <1>6
<1> DEFINE n == CHOOSE n \in 0 .. m : Here(n)
<1>8. n \in 0 .. m /\ Here(n)
  <2> HIDE DEF Here
  <2> QED
    BY <1>7
<1> HIDE DEF n
<1>9. ASSUME NEW j \in 0 .. m, end(j) <= a PROVE j <= n
  <2> SUFFICES ASSUME j > n PROVE FALSE
    BY <1>1, <1>8
  <2>1. n < m /\ n + 1 \in 0 .. m /\ n + 1 <= j
    BY <1>1, <1>8
  <2>2. a < end(n + 1) /\ end(n + 1) <= end(j)
    <3>1. n + 1 = j \/ n + 1 < j
      BY <1>1, <2>1
    <3> DEFINE k == n + 1
    <3>2. k \in 0 .. m /\ (k = j \/ k < j) /\ a < end(k)
      BY <1>8, <2>1, <3>1
    <3> HIDE DEF k
    <3>3. end(k) \in Nat /\ end(j) \in Nat /\ (k < j => end(k) < end(j))
      BY <1>1, <1>2, <3>2
    <3>4. a < end(k) /\ end(k) <= end(j)
      BY <3>2, <3>3
    <3> QED
      BY <3>4 DEF k
  <2>3. end(j) \in Nat /\ end(n + 1) \in Nat
    BY <1>1, <2>1
  <2> DEFINE x == end(n + 1)
             y == end(j)
  <2>4. a < x /\ x <= y /\ y <= a /\ x \in Nat /\ y \in Nat
    BY <1>9, <2>2, <2>3
  <2> HIDE DEF x, y
  <2> QED
    BY <1>1, <2>4
<1> QED
  BY <1>3, <1>8, <1>9 DEF n, m, end

\* A part of the stream is a window onto it.
LEMMA PartWindow ==
  ASSUME NEW st \in Seq(Symbol), NEW p \in 0 .. Len(st), NEW q \in p .. Len(st),
         NEW b, b = Part(st, p + 1, q)
  PROVE  b \in Seq(Symbol) /\ Len(b) = q - p /\ Window(b, st, p)
<1>0. Len(st) \in Nat /\ p \in Nat /\ q \in Nat /\ p <= q
  OBVIOUS
<1>1. b \in Seq(Symbol) /\ Len(b) = q - p /\ \A i \in 1 .. q - p : b[i] = st[p + i]
  <2> DEFINE c == SubSeq(st, p + 1, q)
  <2>1. c \in Seq(Symbol) /\ Len(c) = q - p /\ \A i \in 1 .. q - p : c[i] = st[p + i]
    BY <1>0
  <2>2. b = c
    BY DEF Part
  <2> HIDE DEF c
  <2> QED
    BY <2>1, <2>2
<1>2. Window(b, st, p)
  BY <1>0, <1>1 DEF Window
<1> QED
  BY <1>1, <1>2

\* A window within a window.
LEMMA WindowWithin ==
  ASSUME NEW st, NEW b, NEW p, Window(b, st, p), NEW e, NEW k, Window(e, st, k),
         NEW y \in Nat, k = p + y, y + Len(e) <= Len(b)
  PROVE  Window(e, b, y)
<1>1. /\ e \in Seq(Symbol) /\ Len(e) \in Nat
      /\ \A i \in 1 .. Len(e) : st[k + i] = e[i]
  BY DEF Window
<1>2. /\ b \in Seq(Symbol) /\ Len(b) \in Nat /\ p \in Nat
      /\ \A i \in 1 .. Len(b) : st[p + i] = b[i]
  BY DEF Window
<1>3. ASSUME NEW i \in 1 .. Len(e) PROVE b[y + i] = e[i]
  <2>1. y + i \in 1 .. Len(b) /\ p + (y + i) = k + i
    BY <1>1, <1>2
  <2> QED
    BY <1>1, <1>2, <2>1
<1> QED
  BY <1>1, <1>2, <1>3 DEF Window

\* The rest of a part.
LEMMA RestOfPart ==
  ASSUME NEW st, NEW b, NEW p, Window(b, st, p), NEW x \in 0 .. Len(b),
         NEW k, k = p + x, NEW q, q = p + Len(b)
  PROVE  Part(b, x + 1, Len(b)) = Part(st, k + 1, q)
<1> DEFINE from == x + 1
           to == Len(b)
           from2 == k + 1
<1>1. Len(b) \in Nat /\ p \in Nat
  BY DEF Window
<1>2. from \in 1 .. Len(b) + 1 /\ to \in from - 1 .. Len(b) /\ from2 = p + from /\ q = p + to
  BY <1>1
<1> HIDE DEF from, to, from2
<1>3. Part(st, from2, q) = Part(b, from, to)
  BY <1>2, PartInWindow
<1> QED
  BY <1>3 DEF from, to, from2

\* Two neighbouring parts are one.
LEMMA PartsJoined ==
  ASSUME NEW st \in Seq(Symbol), NEW p \in 0 .. Len(st), NEW a \in p .. Len(st), NEW q \in a .. Len(st)
  PROVE  Part(st, p + 1, a) \o Part(st, a + 1, q) = Part(st, p + 1, q)
<1> DEFINE b == Part(st, p + 1, a)
           c == Part(st, a + 1, q)
           d == Part(st, p + 1, q)
           j == b \o c
<1>0. Len(st) \in Nat /\ p \in Nat /\ q \in Nat /\ a \in Nat /\ p <= a /\ a <= q /\ a \in 0 .. Len(st) /\ q \in p .. Len(st)
  OBVIOUS
<1>1. b \in Seq(Symbol) /\ Len(b) = a - p /\ Window(b, st, p)
  BY PartWindow
<1>2. c \in Seq(Symbol) /\ Len(c) = q - a /\ Window(c, st, a)
  BY <1>0, PartWindow
<1>3. d \in Seq(Symbol) /\ Len(d) = q - p /\ Window(d, st, p)
  BY <1>0, PartWindow
<1> HIDE DEF b, c, d
<1>4. /\ j \in Seq(Symbol) /\ Len(j) = Len(b) + Len(c)
      /\ \A i \in 1 .. Len(j) :
           \/ i \in 1 .. Len(b) /\ j[i] = b[i]
           \/ i > Len(b) /\ i - Len(b) \in 1 .. Len(c) /\ j[i] = c[i - Len(b)]
  BY <1>1, <1>2, Joined
<1> HIDE DEF j
<1>5. ASSUME NEW i \in 1 .. Len(j) PROVE j[i] = d[i]
  <2>1. d[i] = st[p + i]
    BY <1>0, <1>1, <1>2, <1>3, <1>4 DEF Window
  <2>2. CASE i \in 1 .. Len(b) /\ j[i] = b[i]
    BY <1>1, <2>1, <2>2 DEF Window
  <2>3. CASE i > Len(b) /\ i - Len(b) \in 1 .. Len(c) /\ j[i] = c[i - Len(b)]
    <3>1. c[i - Len(b)] = st[a + (i - Len(b))] /\ a + (i - Len(b)) = p + i
      BY <1>0, <1>1, <1>2, <1>4, <2>3 DEF Window
    <3> QED
      BY <2>1, <2>3, <3>1
  <2> QED
    BY <1>4, <2>2, <2>3
<1>6. j = d
  <2>1. Len(j) = Len(d)
    BY <1>0, <1>1, <1>2, <1>3, <1>4
  <2> QED
    BY <1>3, <1>4, <1>5, <2>1, SameSeq
<1> QED
  BY <1>6 DEF j, b, c, d

\* The situation: the items n + 1 .. j are complete in the buffer b, which ends at
\* q in the stream; x is the offset behind them.
Behind(s, n, j, q, b, x) ==
  /\ s \in Scripts /\ n \in 0 .. Len(s) /\ j \in n .. Len(s)
  /\ q \in EndOf(s, j) .. Len(StreamOf(s))
  /\ b = Part(StreamOf(s), EndOf(s, n) + 1, q) /\ x = EndOf(s, j) - EndOf(s, n)

\* What the parser finds behind j items of which none is rejected: the next item,
\* or nothing yet.
LEMMA NextIs ==
  ASSUME NEW s, NEW n, NEW j, NEW q, NEW b, NEW x, Behind(s, n, j, q, b, x)
  PROVE  /\ b \in Seq(Symbol) /\ Len(b) = q - EndOf(s, n) /\ x + 1 \in 1 .. Len(b) + 1
         /\ Part(b, x + 1, Len(b)) = Part(StreamOf(s), EndOf(s, j) + 1, q)
         /\ j < Len(s) /\ EndOf(s, j + 1) <= q =>
              Results(b)[MaxDepth + 1][x + 1] =
                IF s[j + 1][1] = "raw" THEN Throws
                ELSE Got(s[j + 1], EndOf(s, j + 1) - EndOf(s, n) + 1)
         /\ (j < Len(s) => q < EndOf(s, j + 1)) => Results(b)[MaxDepth + 1][x + 1] = More
<1> DEFINE st == StreamOf(s)
           p == EndOf(s, n)
           k == EndOf(s, j)
           left == MaxDepth + 1
<1>a. /\ s \in Scripts /\ n \in 0 .. Len(s) /\ j \in n .. Len(s)
      /\ q \in k .. Len(st) /\ b = Part(st, p + 1, q) /\ x = k - p
  BY DEF Behind
<1>0. /\ Len(s) \in Nat /\ n \in Nat /\ j \in Nat /\ j \in 0 .. Len(s)
      /\ st \in Seq(Symbol) /\ Len(st) \in Nat
      /\ p \in 0 .. Len(st) /\ k \in 0 .. Len(st) /\ EndOf(s, Len(s)) = Len(st)
  BY <1>a, StreamIs
<1>1. p <= k
  <2>1. n = j \/ n < j
    BY <1>0, <1>a
  <2> QED
    BY <1>a, <1>0, <2>1, EndsGrow
<1>2. /\ q \in k .. Len(st) /\ b = Part(st, p + 1, q) /\ x = k - p
  BY <1>a
<1> HIDE DEF st, p, k
<1>3. p \in Nat /\ k \in Nat /\ q \in Nat /\ q \in p .. Len(st) /\ x \in 0 .. q - p /\ p + x = k
  BY <1>0, <1>1, <1>2
<1>4. /\ b \in Seq(Symbol) /\ Len(b) = q - p /\ Window(b, st, p)
      /\ Part(b, x + 1, Len(b)) = Part(st, k + 1, q)
  <2>1. b \in Seq(Symbol) /\ Len(b) = q - p /\ Window(b, st, p)
    BY <1>0, <1>2, <1>3, PartWindow
  <2>2. x \in 0 .. Len(b) /\ k = p + x /\ q = p + Len(b)
    BY <1>3, <2>1
  <2> QED
    BY <2>1, <2>2, RestOfPart
<1>5. x + 1 \in 1 .. Len(b) + 1 /\ x \in Nat
  BY <1>3, <1>4
<1>6. left \in 0 .. MaxDepth + 1
  BY ParserAssumption
<1>7. ASSUME j < Len(s)
      PROVE  LET e == Bytes(s[j + 1]) IN
             /\ s[j + 1] \in Items /\ e \in Seq(Symbol) /\ Len(e) \in Nat \ {0}
             /\ EndOf(s, j + 1) = k + Len(e) /\ Window(e, st, k)
  <2>1. j \in 0 .. Len(s) - 1
    BY <1>a, <1>0, <1>7
  <2>2. /\ s[j + 1] \in Items /\ Len(Bytes(s[j + 1])) \in Nat \ {0}
        /\ EndOf(s, j + 1) = k + Len(Bytes(s[j + 1])) /\ Window(Bytes(s[j + 1]), st, k)
    BY <1>a, <2>1, StreamIs DEF st, k
  <2> QED
    BY <2>2 DEF Window
<1>8. ASSUME j < Len(s), EndOf(s, j + 1) <= q
      PROVE  Results(b)[left][x + 1] = IF s[j + 1][1] = "raw" THEN Throws
                                       ELSE Got(s[j + 1], EndOf(s, j + 1) - p + 1)
  <2> DEFINE e == Bytes(s[j + 1])
             end == EndOf(s, j + 1)
  <2>1. /\ s[j + 1] \in Items /\ Len(e) \in Nat \ {0} /\ end = k + Len(e) /\ Window(e, st, k)
    BY <1>7, <1>8
  <2>2. Results(e)[left][1] = IF s[j + 1][1] = "raw" THEN Throws ELSE Got(s[j + 1], Len(e) + 1)
    BY <2>1, ItemParsed
  <2>3. end <= q
    BY <1>8
  <2> HIDE DEF e, end, left
  <2>4. x \in Nat /\ k = p + x /\ x + Len(e) <= Len(b)
    BY <1>3, <1>4, <2>1, <2>3
  <2>5. Window(e, b, x)
    BY <1>4, <2>1, <2>4, WindowWithin
  <2>6. 1 \in 1 .. Len(e) + 1 /\ end - p + 1 = x + (Len(e) + 1)
    <3> DEFINE l == Len(e)
    <3>1. l \in Nat \ {0} /\ end = k + l /\ p \in Nat /\ x \in 0 .. q - p /\ q \in Nat /\ p + x = k
      BY <1>3, <2>1
    <3> HIDE DEF l
    <3>2. 1 \in 1 .. l + 1 /\ end - p + 1 = x + (l + 1)
      BY <3>1
    <3> QED
      BY <3>2 DEF l
  <2>7. CASE s[j + 1][1] = "raw"
    <3>1. Results(b)[left][x + 1] = Throws
      BY <1>6, <2>2, <2>5, <2>6, <2>7, ParsedInside
    <3> QED
      BY <2>7, <3>1 DEF left
  <2>8. CASE s[j + 1][1] # "raw"
    <3>1. Results(b)[left][x + 1] = Got(s[j + 1], x + (Len(e) + 1))
      BY <1>6, <2>2, <2>5, <2>6, <2>8, ParsedInside
    <3> QED
      BY <2>6, <2>8, <3>1 DEF left, end
  <2> QED
    BY <2>7, <2>8 DEF end, left
<1>9. ASSUME j < Len(s) => q < EndOf(s, j + 1) PROVE Results(b)[left][x + 1] = More
  <2>1. CASE q = k
    <3>1. x = Len(b)
      BY <1>3, <1>4, <2>1
    <3> QED
      BY <1>4, <3>1, NothingParsed
  <2>2. CASE q # k
    <3>1. j < Len(s)
      <4>1. j = Len(s) => k = Len(st)
        BY <1>0 DEF k
      <4> QED
        BY <1>a, <1>0, <1>2, <2>2, <4>1
    <3> DEFINE e == Bytes(s[j + 1])
               l == q - k
               c == Part(e, 1, l)
    <3>2. /\ s[j + 1] \in Items /\ e \in Seq(Symbol) /\ Len(e) \in Nat \ {0} /\ Window(e, st, k)
          /\ q < k + Len(e)
      BY <1>7, <1>9, <3>1
    <3>3. l \in 0 .. Len(e) - 1 /\ l \in 0 .. Len(e) /\ l \in Nat /\ k + l = q
      BY <1>2, <1>3, <3>2
    <3> HIDE DEF l
    <3>4. Results(c)[left][1] = More
      BY <3>2, <3>3, ItemParsed
    <3> HIDE DEF e
    <3>5. Window(c, e, 0) /\ Len(c) = l
      BY <3>2, <3>3, WindowFirst
    <3> HIDE DEF c
    <3>6. Window(c, st, k)
      <4>1. /\ c \in Seq(Symbol) /\ \A i \in 1 .. l : e[i] = c[i]
        <5>1. /\ c \in Seq(Symbol) /\ \A i \in 1 .. Len(c) : e[0 + i] = c[i]
          BY <3>5 DEF Window
        <5>2. \A i \in 1 .. l : 0 + i = i
          BY <3>3
        <5> QED
          BY <3>5, <5>1, <5>2
      <4>2. \A i \in 1 .. Len(e) : st[k + i] = e[i]
        BY <3>2 DEF Window
      <4>3. \A i \in 1 .. l : i \in 1 .. Len(e)
        BY <3>2, <3>3
      <4>4. k + l <= Len(st)
        BY <1>2, <3>3
      <4> QED
        BY <1>0, <1>3, <3>5, <4>1, <4>2, <4>3, <4>4 DEF Window
    <3>7. x \in Nat /\ k = p + x /\ Len(b) = x + Len(c) /\ Len(b) \in Nat /\ 1 \in 1 .. Len(c) + 1
      BY <1>1, <1>3, <1>4, <3>3, <3>5
    <3>8. Window(c, b, x)
      <4>1. x + Len(c) <= Len(b)
        BY <3>7
      <4> QED
        BY <1>4, <3>6, <3>7, <4>1, WindowWithin
    <3> HIDE DEF left
    <3> QED
      BY <1>6, <3>4, <3>7, <3>8, ParsedInside
  <2> QED
    BY <2>1, <2>2
<1> QED
  BY <1>3, <1>4, <1>5, <1>8, <1>9 DEF st, p, k

\* No item in n + 1 .. j is one that the parser rejects.
Accepted(s, n, j) == \A i \in n + 1 .. j : s[i][1] # "raw"

\* Items none of which is rejected, and then what the parser finds behind them.
LEMMA ItemsParsed ==
  ASSUME NEW s, NEW n, NEW j, NEW q, NEW b, NEW x, Behind(s, n, j, q, b, x),
         Accepted(s, n, j)
  PROVE  /\ Results(b)[MaxDepth + 1][x + 1] = More =>
              Parse(b) = Parsed(FALSE, SubSeq(s, n + 1, j), Part(StreamOf(s), EndOf(s, j) + 1, q))
         /\ Results(b)[MaxDepth + 1][x + 1] = Throws => Parse(b) = Failed(b)
<1> DEFINE m == j - n
           values == SubSeq(s, n + 1, j)
           pos == [i \in 0 .. m |-> EndOf(s, n + i) - EndOf(s, n) + 1]
<1>a. /\ s \in Scripts /\ n \in 0 .. Len(s) /\ j \in n .. Len(s)
      /\ q \in EndOf(s, j) .. Len(StreamOf(s))
      /\ b = Part(StreamOf(s), EndOf(s, n) + 1, q) /\ x = EndOf(s, j) - EndOf(s, n)
  BY DEF Behind
<1>0. /\ s \in Seq(Items) /\ Len(s) \in Nat /\ n \in Nat /\ j \in Nat /\ n <= j /\ j \in 0 .. Len(s)
      /\ StreamOf(s) \in Seq(Symbol) /\ Len(StreamOf(s)) \in Nat
      /\ \A i \in 0 .. Len(s) : EndOf(s, i) \in 0 .. Len(StreamOf(s))
  BY <1>a, StreamIs
<1>1. m \in Nat /\ n + m = j
  BY <1>a, <1>0
<1>2. values \in Seq(Items) /\ Len(values) = m /\ \A i \in 1 .. m : values[i] = s[n + i]
  <2>1. n + 1 \in 1 .. Len(s) + 1 /\ j \in n .. Len(s)
    BY <1>a, <1>0
  <2> QED
    BY <1>0, <2>1
<1>3. ASSUME NEW i \in 0 .. m
      PROVE  /\ n + i \in 0 .. Len(s) /\ n + i \in n .. Len(s)
             /\ EndOf(s, n + i) <= EndOf(s, j)
             /\ i < m => n + (i + 1) \in 0 .. Len(s) /\ n + (i + 1) = (n + i) + 1 /\ n + i < Len(s)
                         /\ EndOf(s, n + (i + 1)) <= EndOf(s, j)
  <2>1. \A w \in 0 .. Len(s) : w <= j => EndOf(s, w) <= EndOf(s, j)
    <3> TAKE w \in 0 .. Len(s)
    <3>1. w < j => EndOf(s, w) < EndOf(s, j)
      BY <1>a, <1>0, EndsGrow
    <3>2. EndOf(s, w) \in Int /\ EndOf(s, j) \in Int
      BY <1>0
    <3> QED
      BY <1>0, <3>1, <3>2
  <2>2. /\ n + i \in 0 .. Len(s) /\ n + i \in n .. Len(s) /\ n + i <= j
        /\ i < m => n + (i + 1) \in 0 .. Len(s) /\ n + (i + 1) = (n + i) + 1 /\ n + i < Len(s) /\ n + (i + 1) <= j
    BY <1>0, <1>1
  <2> QED
    BY <2>1, <2>2
<1>4. b \in Seq(Symbol) /\ pos \in [0 .. Len(values) -> 1 .. Len(b) + 1]
  <2>1. ASSUME NEW i \in 0 .. m PROVE b \in Seq(Symbol) /\ EndOf(s, n + i) - EndOf(s, n) + 1 \in 1 .. Len(b) + 1
    <3> DEFINE i2 == n + i
               y == EndOf(s, i2) - EndOf(s, n)
    <3>1. i2 \in n .. Len(s) /\ EndOf(s, i2) <= EndOf(s, j) /\ i2 \in 0 .. Len(s)
      BY <1>3
    <3>2. q \in EndOf(s, i2) .. Len(StreamOf(s))
      BY <1>a, <1>0, <3>1
    <3> HIDE DEF i2
    <3>4. Behind(s, n, i2, q, b, y)
      BY <1>a, <3>1, <3>2 DEF Behind
    <3> HIDE DEF y
    <3>3. b \in Seq(Symbol) /\ y + 1 \in 1 .. Len(b) + 1
      BY <3>4, NextIs
    <3> QED
      BY <3>3 DEF i2, y
  <2>2. 0 \in 0 .. m
    BY <1>1
  <2> QED
    BY <1>2, <2>1, <2>2
<1>5. pos[0] = 1
  <2>1. 0 \in 0 .. m /\ n + 0 = n /\ EndOf(s, n) - EndOf(s, n) = 0
    BY <1>0, <1>1
  <2> QED
    BY <2>1
<1>6. ASSUME NEW i \in 0 .. m - 1
      PROVE  Results(b)[MaxDepth + 1][pos[i]] = Got(values[i + 1], pos[i + 1])
  <2> DEFINE i2 == n + i
             y == EndOf(s, i2) - EndOf(s, n)
  <2>1. /\ i \in 0 .. m /\ i + 1 \in 0 .. m /\ i < m /\ i + 1 \in 1 .. m
        /\ n + (i + 1) \in n + 1 .. j
    <3>1. n \in Nat /\ m \in Nat /\ n + m = j /\ i \in 0 .. m - 1
      BY <1>0, <1>1
    <3> HIDE DEF m
    <3> QED
      BY <3>1
  <2>2. /\ i2 \in n .. Len(s) /\ i2 < Len(s) /\ EndOf(s, i2) <= EndOf(s, j) /\ i2 \in 0 .. Len(s)
        /\ n + (i + 1) = i2 + 1 /\ EndOf(s, i2 + 1) <= EndOf(s, j) /\ i2 + 1 \in 0 .. Len(s)
    BY <1>3, <2>1
  <2>3. q \in EndOf(s, i2) .. Len(StreamOf(s)) /\ EndOf(s, i2 + 1) <= q
    <3> DEFINE i3 == i2 + 1
    <3> HIDE DEF i2, i3
    <3>1. EndOf(s, i2) \in Nat /\ EndOf(s, i3) \in Nat /\ EndOf(s, j) \in Nat /\ EndOf(s, j) <= q
      <4>1. i3 \in 0 .. Len(s)
        BY <2>2 DEF i3
      <4> QED
        BY <1>a, <1>0, <2>2, <4>1
    <3>2. EndOf(s, i3) <= q /\ EndOf(s, i2) <= q
      <4>1. EndOf(s, i3) <= EndOf(s, j)
        BY <2>2 DEF i3
      <4> QED
        BY <1>a, <1>0, <2>2, <3>1, <4>1
    <3> QED
      BY <1>a, <1>0, <3>1, <3>2 DEF i3
  <2>4. pos[i] = y + 1 /\ pos[i + 1] = EndOf(s, i2 + 1) - EndOf(s, n) + 1 /\ values[i + 1] = s[i2 + 1]
    BY <1>2, <2>1, <2>2
  <2>5. s[i2 + 1][1] # "raw"
    BY <2>1, <2>2 DEF Accepted
  <2>7. Behind(s, n, i2, q, b, y)
    <3> HIDE DEF i2
    <3> QED
      BY <1>a, <2>2, <2>3 DEF Behind
  <2> HIDE DEF i2, pos, values, y
  <2>6. Results(b)[MaxDepth + 1][y + 1] = Got(s[i2 + 1], EndOf(s, i2 + 1) - EndOf(s, n) + 1)
    BY <2>2, <2>3, <2>5, <2>7, NextIs
  <2> QED
    BY <2>4, <2>6
<1>7. pos[m] = x + 1
  <2>1. m \in 0 .. m
    BY <1>1
  <2> QED
    BY <1>a, <1>1, <2>1
<1>8. Part(b, pos[m], Len(b)) = Part(StreamOf(s), EndOf(s, j) + 1, q)
  <2>1. Part(b, x + 1, Len(b)) = Part(StreamOf(s), EndOf(s, j) + 1, q)
    BY NextIs
  <2> QED
    BY <1>7, <2>1
<1> HIDE DEF pos, values, m
<1>9. Len(values) = m
  BY <1>2
<1>10. /\ Results(b)[MaxDepth + 1][pos[m]] = More =>
            Parse(b) = Parsed(FALSE, values, SubSeq(b, pos[m], Len(b)))
       /\ Results(b)[MaxDepth + 1][pos[m]] = Throws => Parse(b) = Failed(b)
  <2>1. \A i \in 0 .. Len(values) - 1 :
          Results(b)[MaxDepth + 1][pos[i]] = Got(values[i + 1], pos[i + 1])
    BY <1>6, <1>9
  <2>2. values \in Seq(Items)
    BY <1>2
  <2> QED
    BY <1>4, <1>5, <1>9, <2>1, <2>2, ParseChain
<1>11. SubSeq(b, pos[m], Len(b)) = Part(StreamOf(s), EndOf(s, j) + 1, q)
  BY <1>8 DEF Part
<1> QED
  BY <1>7, <1>10, <1>11 DEF values

\* Of the script s, n items have arrived with a bytes, j with q, and the bytes b
\* lie between the end of the n items and q.
Arriving(s, a, q, n, j, b) ==
  /\ s \in Scripts /\ a \in 0 .. Len(StreamOf(s)) /\ q \in a .. Len(StreamOf(s))
  /\ n = CountOf(s, a) /\ j = CountOf(s, q)
  /\ b = Part(StreamOf(s), EndOf(s, n) + 1, q)

\* What Parse makes of the bytes behind the n items that have arrived before: the
\* items that are complete now, unless one is rejected.
LEMMA ParseArrived ==
  ASSUME NEW s, NEW a, NEW q, NEW n, NEW j, NEW b, Arriving(s, a, q, n, j, b)
  PROVE  /\ n \in 0 .. Len(s) /\ j \in n .. Len(s)
         /\ (\A i \in n + 1 .. j : s[i][1] # "raw") =>
              Parse(b) = Parsed(FALSE, SubSeq(s, n + 1, j), Part(StreamOf(s), EndOf(s, j) + 1, q))
         /\ (\E i \in n + 1 .. j : s[i][1] = "raw") => Parse(b) = Failed(b)
<1>a. /\ s \in Scripts /\ a \in 0 .. Len(StreamOf(s)) /\ q \in a .. Len(StreamOf(s))
      /\ n = CountOf(s, a) /\ j = CountOf(s, q) /\ b = Part(StreamOf(s), EndOf(s, n) + 1, q)
  BY DEF Arriving
<1> USE <1>a
<1>0. Len(StreamOf(s)) \in Nat /\ a \in Nat /\ q \in Nat /\ a <= q /\ q \in 0 .. Len(StreamOf(s)) /\ Len(s) \in Nat
  BY StreamIs
<1>1. n \in 0 .. Len(s) /\ EndOf(s, n) <= a
  BY CountIs
<1>2. /\ j \in 0 .. Len(s) /\ EndOf(s, j) <= q /\ (j < Len(s) => q < EndOf(s, j + 1))
      /\ \A i \in 0 .. Len(s) : EndOf(s, i) <= q => i <= j
  BY <1>0, CountIs
<1>3. \A i \in 0 .. Len(s) : EndOf(s, i) \in 0 .. Len(StreamOf(s))
  BY StreamIs
<1>4. j \in n .. Len(s)
  BY <1>0, <1>1, <1>2, <1>3
<1>5. ASSUME \A i \in n + 1 .. j : s[i][1] # "raw"
      PROVE  Parse(b) = Parsed(FALSE, SubSeq(s, n + 1, j), Part(StreamOf(s), EndOf(s, j) + 1, q))
  <2> DEFINE x == EndOf(s, j) - EndOf(s, n)
             last == Results(b)[MaxDepth + 1][x + 1]
  <2>1. q \in EndOf(s, j) .. Len(StreamOf(s))
    BY <1>0, <1>2, <1>3
  <2>4. Behind(s, n, j, q, b, x)
    BY <1>1, <1>4, <2>1 DEF Behind
  <2> HIDE DEF x
  <2>2. last = More
    BY <1>2, <2>4, NextIs
  <2> HIDE DEF last
  <2> QED
    BY <1>5, <2>2, <2>4, ItemsParsed DEF last, Accepted
<1>6. ASSUME \E i \in n + 1 .. j : s[i][1] = "raw" PROVE Parse(b) = Failed(b)
  <2> DEFINE R == {i \in n + 1 .. j : s[i][1] = "raw"}
  <2>1. R \in SUBSET Nat /\ R # {}
    <3>1. n + 1 .. j \subseteq Nat
      BY <1>0, <1>1, <1>2
    <3> QED
      BY <1>6, <3>1
  <2>2. PICK r \in R : \A i \in R : r <= i
    BY <2>1, LeastElement
  <2> DEFINE k == r - 1
             x == EndOf(s, k) - EndOf(s, n)
             last == Results(b)[MaxDepth + 1][x + 1]
  <2>3. /\ k \in n .. Len(s) /\ k + 1 = r /\ k < Len(s) /\ s[r][1] = "raw" /\ r <= j /\ r \in 0 .. Len(s)
        /\ k \in 0 .. Len(s) /\ k < j
    BY <1>0, <1>1, <1>2
  <2>4. Accepted(s, n, k)
    <3> USE DEF Accepted
    <3> TAKE i \in n + 1 .. k
    <3>1. i \in n + 1 .. j /\ ~(r <= i)
      BY <1>0, <1>1, <1>2, <2>3
    <3> QED
      BY <2>2, <3>1
  <2> HIDE DEF k, R
  <2>5. EndOf(s, k) <= q /\ EndOf(s, r) <= q
    <3>1. EndOf(s, k) < EndOf(s, j)
      BY <1>2, <2>3, EndsGrow
    <3>2. r < j => EndOf(s, r) < EndOf(s, j)
      BY <1>2, <2>3, EndsGrow
    <3>3. r = j \/ r < j
      BY <1>0, <1>2, <2>3
    <3>4. EndOf(s, k) \in Int /\ EndOf(s, r) \in Int /\ EndOf(s, j) \in Int /\ EndOf(s, j) <= q
      BY <1>2, <1>3, <2>3
    <3> QED
      BY <1>0, <3>1, <3>2, <3>3, <3>4
  <2>6. q \in EndOf(s, k) .. Len(StreamOf(s))
    BY <1>0, <1>3, <2>3, <2>5
  <2>9. Behind(s, n, k, q, b, x)
    BY <1>1, <2>3, <2>6 DEF Behind
  <2> HIDE DEF x
  <2>7. last = Throws
    <3>1. EndOf(s, k + 1) <= q /\ s[k + 1][1] = "raw"
      BY <2>3, <2>5
    <3> QED
      BY <2>3, <2>9, <3>1, NextIs
  <2> HIDE DEF last
  <2>10. Results(b)[MaxDepth + 1][x + 1] = Throws
    BY <2>7 DEF last
  <2> QED
    BY <2>4, <2>9, <2>10, ItemsParsed
<1> QED
  BY <1>1, <1>4, <1>5, <1>6

-----------------------------------------------------------------------------
(* The handler *)

Messages == {v \in Items : IsMessage(v)}
AllArguments == {Arguments(v) : v \in Messages}
EventFor(m) ==
  IF IsValidSubscriptionTarget(m[2]) THEN FormatPatternMessageEvent(m[1], m[2], m[3]) ELSE ErrorEvent
AllEvents == {EventFor(m) : m \in AllArguments}

HandlerState ==
  [closed : BOOLEAN, disconnected : BOOLEAN, handled : Seq(AllArguments), events : Seq(AllEvents)]

\* The handler has made one event of each message, up to the first one that the
\* format cannot carry.
EventsAre(s) ==
  LET valid(i) == IsValidSubscriptionTarget(s.handled[i][2]) IN
  /\ Len(s.events) <= Len(s.handled)
  /\ \A i \in 1 .. Len(s.events) : s.events[i] = EventFor(s.handled[i])
  /\ \A i \in 1 .. Len(s.events) - 1 : valid(i)
  /\ ~s.disconnected => Len(s.events) = Len(s.handled) /\ \A i \in 1 .. Len(s.events) : valid(i)
  /\ s.disconnected => Len(s.events) >= 1 /\ ~valid(Len(s.events))

\* What handling a value does.
LEMMA PushMessageIs ==
  ASSUME NEW s \in HandlerState, NEW v \in Items
  PROVE  /\ HandlePushMessage(s, v) \in HandlerState
         /\ v[1] = "err" =>
              /\ HandlePushMessage(s, v).closed
              /\ HandlePushMessage(s, v).handled = s.handled /\ ~IsMessage(v)
              /\ EventsAre(s) => EventsAre(HandlePushMessage(s, v))
         /\ v[1] # "err" =>
              /\ HandlePushMessage(s, v).closed = s.closed
              /\ HandlePushMessage(s, v).handled =
                   IF IsMessage(v) THEN Append(s.handled, Arguments(v)) ELSE s.handled
              /\ EventsAre(s) => EventsAre(HandlePushMessage(s, v))
<1> DEFINE r == HandlePushMessage(s, v)
           m == Arguments(v)
           ok == IsValidSubscriptionTarget(m[2])
<1>1. CASE v[1] = "err"
  <2>1. r = [s EXCEPT !.closed = TRUE]
    BY <1>1 DEF HandlePushMessage
  <2>2. /\ r \in HandlerState /\ r.closed /\ r.handled = s.handled /\ r.events = s.events
        /\ r.disconnected = s.disconnected
    BY <2>1 DEF HandlerState
  <2>3. ~IsMessage(v)
    BY <1>1 DEF IsMessage
  <2> HIDE DEF r
  <2>4. EventsAre(s) => EventsAre(r)
    BY <2>2 DEF EventsAre
  <2> QED
    BY <1>1, <2>2, <2>3, <2>4 DEF r
<1>2. CASE v[1] # "err" /\ ~IsMessage(v)
  <2>1. r = s
    BY <1>2 DEF HandlePushMessage
  <2> QED
    BY <1>2, <2>1
<1>3. CASE v[1] # "err" /\ IsMessage(v)
  <2> DEFINE event == IF ok THEN FormatPatternMessageEvent(m[1], m[2], m[3]) ELSE ErrorEvent
             h == Append(s.handled, m)
             e == IF s.disconnected THEN s.events ELSE Append(s.events, event)
             d == s.disconnected \/ ~ok
  <2>1. r = [s EXCEPT !.handled = h, !.events = e, !.disconnected = d]
    BY <1>3, Zenon DEF HandlePushMessage, OnMessage
  <2>2. event = EventFor(m)
    BY Zenon DEF EventFor
  <2>3. m \in AllArguments
    BY <1>3 DEF AllArguments, Messages
  <2>4. event \in AllEvents
    BY <2>2, <2>3 DEF AllEvents
  <2> HIDE DEF event, m
  <2>5. /\ s.handled \in Seq(AllArguments) /\ s.events \in Seq(AllEvents)
        /\ s.disconnected \in BOOLEAN /\ s.closed \in BOOLEAN
        /\ s = [closed |-> s.closed, disconnected |-> s.disconnected, handled |-> s.handled, events |-> s.events]
    BY DEF HandlerState
  <2>6. /\ h \in Seq(AllArguments) /\ Len(h) = Len(s.handled) + 1 /\ Len(s.handled) \in Nat
        /\ \A i \in 1 .. Len(s.handled) : h[i] = s.handled[i]
        /\ h[Len(s.handled) + 1] = m
    BY <2>3, <2>5, Appended
  <2> HIDE DEF h
  <2> DEFINE more == Append(s.events, event)
  <2>7. /\ more \in Seq(AllEvents) /\ Len(more) = Len(s.events) + 1 /\ Len(s.events) \in Nat
        /\ \A i \in 1 .. Len(s.events) : more[i] = s.events[i]
        /\ more[Len(s.events) + 1] = event
    BY <2>4, <2>5, Appended
  <2>8. e = IF s.disconnected THEN s.events ELSE more
    OBVIOUS
  <2> HIDE DEF more
  <2>9. e \in Seq(AllEvents)
    BY <2>5, <2>7, <2>8
  <2>10. d \in BOOLEAN /\ (d <=> s.disconnected \/ ~ok)
    OBVIOUS
  <2> HIDE DEF e, d, ok
  <2>11. r = [closed |-> s.closed, disconnected |-> d, handled |-> h, events |-> e]
    BY <2>1, <2>5
  <2>12. r \in HandlerState /\ r.closed = s.closed /\ r.handled = h /\ r.events = e /\ r.disconnected = d
    BY <2>5, <2>6, <2>9, <2>10, <2>11 DEF HandlerState
  <2> HIDE DEF r
  <2>13. ASSUME EventsAre(s) PROVE EventsAre(r)
    <3> DEFINE valid(x) == IsValidSubscriptionTarget(x[2])
               l == Len(s.handled)
               g == s.handled
               f == s.events
    <3>1. valid(m) <=> ok
      BY DEF ok
    <3>2. /\ Len(f) <= l
          /\ \A i \in 1 .. Len(f) : f[i] = EventFor(g[i])
          /\ \A i \in 1 .. Len(f) - 1 : valid(g[i])
          /\ ~s.disconnected => Len(f) = l /\ \A i \in 1 .. Len(f) : valid(g[i])
          /\ s.disconnected => Len(f) >= 1 /\ ~valid(g[Len(f)])
      BY <2>13 DEF EventsAre
    <3> HIDE DEF valid
    <3>3. CASE s.disconnected
      <4>1. e = f /\ d
        BY <2>8, <2>10, <3>3
      <4>2. \A i \in 1 .. Len(f) : h[i] = g[i]
        BY <2>6, <2>7, <3>2
      <4>3. Len(f) \in 1 .. Len(f)
        BY <2>7, <3>2, <3>3
      <4>4. /\ Len(e) <= Len(h)
            /\ \A i \in 1 .. Len(e) : e[i] = EventFor(h[i])
            /\ \A i \in 1 .. Len(e) - 1 : valid(h[i])
            /\ d /\ Len(e) >= 1 /\ ~valid(h[Len(e)])
        <5>1. Len(e) = Len(f) /\ Len(f) \in Nat /\ Len(h) = l + 1 /\ l \in Nat /\ d
          BY <2>6, <2>7, <4>1
        <5>2. \A i \in 1 .. Len(f) : e[i] = EventFor(h[i])
          BY <3>2, <4>1, <4>2
        <5>3. \A i \in 1 .. Len(f) - 1 : valid(h[i])
          <6>1. \A i \in 1 .. Len(f) - 1 : i \in 1 .. Len(f)
            BY <5>1
          <6> QED
            BY <3>2, <4>2, <6>1
        <5>4. Len(f) >= 1 /\ ~valid(h[Len(f)])
          BY <3>2, <3>3, <4>2, <4>3
        <5>5. Len(f) <= l + 1
          BY <3>2, <5>1
        <5> QED
          BY <5>1, <5>2, <5>3, <5>4, <5>5
      <4> QED
        BY <2>12, <4>4 DEF EventsAre, valid
    <3>4. CASE ~s.disconnected
      <4>1. e = more /\ (d <=> ~ok) /\ Len(f) = l /\ \A i \in 1 .. l : valid(g[i])
        BY <2>8, <2>10, <3>2, <3>4
      <4>2. /\ Len(e) = l + 1 /\ Len(h) = l + 1 /\ l \in Nat
            /\ \A i \in 1 .. l : e[i] = f[i] /\ h[i] = g[i]
            /\ e[l + 1] = EventFor(m) /\ h[l + 1] = m
        BY <2>2, <2>6, <2>7, <4>1
      <4>3. \A i \in 1 .. l + 1 : i \in 1 .. l \/ i = l + 1
        BY <4>2
      <4>4. \A i \in 1 .. Len(e) : e[i] = EventFor(h[i])
        BY <3>2, <4>1, <4>2, <4>3
      <4>5. /\ \A i \in 1 .. Len(e) - 1 : valid(h[i])
            /\ ~d => \A i \in 1 .. Len(e) : valid(h[i])
            /\ d => ~valid(h[Len(e)])
        <5>1. Len(e) - 1 = l /\ \A i \in 1 .. l : valid(h[i])
          BY <4>1, <4>2
        <5>2. valid(h[l + 1]) <=> ok
          BY <3>1, <4>2
        <5>3. ~d => \A i \in 1 .. l + 1 : valid(h[i])
          BY <4>1, <4>3, <5>1, <5>2
        <5> QED
          BY <4>1, <4>2, <5>1, <5>2, <5>3
      <4>6. Len(e) <= Len(h) /\ Len(e) = Len(h) /\ Len(e) >= 1
        BY <4>2
      <4> QED
        BY <2>12, <4>4, <4>5, <4>6 DEF EventsAre, valid
    <3> QED
      BY <3>3, <3>4
  <2> QED
    BY <1>3, <2>12, <2>13 DEF r, h, m
<1> QED
  BY <1>1, <1>2, <1>3

\* The messages among the first n items of a script.
PublishedOf(s, n) ==
  LET messages == Keep(SubSeq(s, 1, n), {v \in Items : IsMessage(v)}) IN
  [i \in DOMAIN messages |-> Arguments(messages[i])]

\* One more item is one more message, or none.
LEMMA PublishedStep ==
  ASSUME NEW s \in Scripts
  PROVE  /\ PublishedOf(s, 0) = <<>>
         /\ \A n \in 0 .. Len(s) : PublishedOf(s, n) \in Seq(AllArguments)
         /\ \A n \in 0 .. Len(s) - 1 :
              PublishedOf(s, n + 1) = IF IsMessage(s[n + 1])
                                        THEN Append(PublishedOf(s, n), Arguments(s[n + 1]))
                                        ELSE PublishedOf(s, n)
<1> DEFINE first(n) == SubSeq(s, 1, n)
           kept(n) == Keep(first(n), Messages)
<1>0. s \in Seq(Items) /\ Len(s) \in Nat
  BY StreamIs
<1>1. \A n \in 0 .. Len(s) : first(n) \in Seq(Items)
  BY <1>0
<1>2. \A n \in 0 .. Len(s) - 1 : first(n + 1) = Append(first(n), s[n + 1]) /\ s[n + 1] \in Items
  <2> TAKE n \in 0 .. Len(s) - 1
  <2>1. n + 1 \in 1 .. Len(s)
    BY <1>0
  <2> QED
    BY <1>0, <2>1, FirstMore
<1>3. first(0) = <<>>
  BY <1>0
<1> HIDE DEF first
<1>4. \A n \in 0 .. Len(s) : kept(n) \in Seq(Messages)
  <2> TAKE n \in 0 .. Len(s)
  <2>1. kept(n) \in Seq(Items \cap Messages)
    BY <1>1, KeepProperties
  <2>2. Items \cap Messages = Messages
    BY DEF Messages
  <2> QED
    BY <2>1, <2>2
<1>5. \A n \in 0 .. Len(s) - 1 : kept(n + 1) = IF s[n + 1] \in Messages THEN Append(kept(n), s[n + 1]) ELSE kept(n)
  <2> TAKE n \in 0 .. Len(s) - 1
  <2>1. n \in 0 .. Len(s)
    BY <1>0
  <2>2. first(n) \in Seq(Items) /\ s[n + 1] \in Items /\ first(n + 1) = Append(first(n), s[n + 1])
    BY <1>1, <1>2, <2>1
  <2> DEFINE f == first(n)
             x == s[n + 1]
  <2>3. f \in Seq(Items) /\ x \in Items /\ first(n + 1) = Append(f, x)
    BY <2>2
  <2> HIDE DEF f, x
  <2>4. Keep(Append(f, x), Messages) = IF x \in Messages THEN Append(Keep(f, Messages), x) ELSE Keep(f, Messages)
    BY <2>3, KeepAppend
  <2> QED
    BY <2>3, <2>4 DEF f, x
<1>6. kept(0) = <<>>
  BY <1>3, KeepEmpty
<1>7. \A n : PublishedOf(s, n) = [i \in DOMAIN kept(n) |-> Arguments(kept(n)[i])]
  BY DEF PublishedOf, Messages, first
<1> HIDE DEF kept
<1>8. \A q \in Seq(Messages) : [i \in DOMAIN q |-> Arguments(q[i])] \in Seq(AllArguments)
  <2> TAKE q \in Seq(Messages)
  <2>1. DOMAIN q = 1 .. Len(q) /\ Len(q) \in Nat /\ \A i \in 1 .. Len(q) : q[i] \in Messages
    OBVIOUS
  <2>2. \A i \in 1 .. Len(q) : Arguments(q[i]) \in AllArguments
    BY <2>1 DEF AllArguments
  <2> QED
    BY <2>1, <2>2
<1>9. \A n \in 0 .. Len(s) : PublishedOf(s, n) \in Seq(AllArguments)
  BY <1>4, <1>7, <1>8
<1>10. PublishedOf(s, 0) = <<>>
  BY <1>6, <1>7
<1>11. ASSUME NEW n \in 0 .. Len(s) - 1
       PROVE  PublishedOf(s, n + 1) = IF IsMessage(s[n + 1])
                                        THEN Append(PublishedOf(s, n), Arguments(s[n + 1]))
                                        ELSE PublishedOf(s, n)
  <2> DEFINE v == s[n + 1]
             q == kept(n)
             p == PublishedOf(s, n)
             p2 == PublishedOf(s, n + 1)
  <2>1. n \in 0 .. Len(s) /\ n + 1 \in 0 .. Len(s) /\ v \in Items /\ q \in Seq(Messages)
    BY <1>0, <1>2, <1>4
  <2>2. v \in Messages <=> IsMessage(v)
    BY <2>1 DEF Messages
  <2>3. CASE ~IsMessage(v)
    <3>1. kept(n + 1) = q
      BY <1>5, <2>2, <2>3
    <3> QED
      BY <1>7, <2>3, <3>1
  <2>4. CASE IsMessage(v)
    <3> DEFINE q2 == Append(q, v)
               a == Arguments(v)
               p3 == Append(p, a)
    <3>1. kept(n + 1) = q2
      BY <1>5, <2>2, <2>4
    <3>2. /\ q2 \in Seq(Messages) /\ Len(q2) = Len(q) + 1 /\ Len(q) \in Nat
          /\ \A i \in 1 .. Len(q) : q2[i] = q[i]
          /\ q2[Len(q) + 1] = v
      BY <2>1, <2>2, <2>4, Appended
    <3>3. p2 = [i \in DOMAIN q2 |-> Arguments(q2[i])]
      BY <1>7, <3>1
    <3>4. p = [i \in DOMAIN q |-> Arguments(q[i])]
      BY <1>7
    <3>5. p2 \in Seq(AllArguments) /\ p \in Seq(AllArguments)
      BY <1>9, <2>1
    <3>6. a \in AllArguments
      BY <2>2, <2>4 DEF AllArguments
    <3> HIDE DEF p2, p, q2, q, v
    <3>7. Len(p) = Len(q) /\ \A i \in 1 .. Len(q) : p[i] = Arguments(q[i])
      BY <2>1, <3>4, <3>5
    <3>8. Len(p2) = Len(q2) /\ \A i \in 1 .. Len(q2) : p2[i] = Arguments(q2[i])
      BY <3>2, <3>3, <3>5
    <3>9. /\ p3 \in Seq(AllArguments) /\ Len(p3) = Len(p) + 1
          /\ \A i \in 1 .. Len(p) : p3[i] = p[i]
          /\ p3[Len(p) + 1] = a
      BY <3>5, <3>6, Appended
    <3> HIDE DEF p3
    <3>10. Len(p2) = Len(p3)
      BY <3>2, <3>7, <3>8, <3>9
    <3>11. ASSUME NEW i \in 1 .. Len(p2) PROVE p2[i] = p3[i]
      <4>1. i \in 1 .. Len(q2) /\ (i \in 1 .. Len(q) \/ i = Len(q) + 1)
        BY <3>2, <3>8
      <4>2. CASE i \in 1 .. Len(q)
        BY <3>2, <3>7, <3>8, <3>9, <4>1, <4>2
      <4>3. CASE i = Len(q) + 1
        BY <3>2, <3>7, <3>8, <3>9, <4>1, <4>3
      <4> QED
        BY <4>1, <4>2, <4>3
    <3>12. p2 = p3
      BY <3>5, <3>9, <3>10, <3>11, SameSeq
    <3> QED
      BY <2>4, <3>12 DEF p2, p3, p, v
  <2> QED
    BY <2>3, <2>4
<1> QED
  BY <1>9, <1>10, <1>11

\* The messages among fewer items are the first ones among more items.
LEMMA PublishedPrefix ==
  ASSUME NEW s \in Scripts
  PROVE  \A n, j \in 0 .. Len(s) : n <= j => IsPrefix(PublishedOf(s, n), PublishedOf(s, j))
<1> DEFINE m == Len(s)
           pub(n) == PublishedOf(s, n)
<1>0. /\ m \in Nat
      /\ \A n \in 0 .. m : pub(n) \in Seq(AllArguments)
      /\ \A n \in 0 .. m - 1 : pub(n + 1) = IF IsMessage(s[n + 1]) THEN Append(pub(n), Arguments(s[n + 1])) ELSE pub(n)
  BY StreamIs, PublishedStep
<1>1. \A p \in Seq(AllArguments) : IsPrefix(p, p)
  BY DEF IsPrefix
<1>2. ASSUME NEW p \in Seq(AllArguments), NEW q \in Seq(AllArguments), NEW x, Append(q, x) \in Seq(AllArguments),
             IsPrefix(p, q)
      PROVE  IsPrefix(p, Append(q, x))
  <2> DEFINE r == Append(q, x)
             k == Len(p)
  <2>1. k \in Nat /\ k <= Len(q) /\ Len(q) \in Nat /\ Len(r) = Len(q) + 1
    BY <1>2 DEF IsPrefix
  <2>2. \A i \in 1 .. Len(q) : r[i] = q[i]
    OBVIOUS
  <2>3. r \in Seq(AllArguments)
    BY <1>2
  <2> HIDE DEF r, k
  <2> DEFINE a == SubSeq(q, 1, k)
             b == SubSeq(r, 1, k)
  <2>4. a \in Seq(AllArguments) /\ Len(a) = k /\ \A i \in 1 .. k : a[i] = q[i]
    BY <2>1
  <2>5. b \in Seq(AllArguments) /\ Len(b) = k /\ \A i \in 1 .. k : b[i] = r[i]
    BY <2>1, <2>3
  <2> HIDE DEF a, b
  <2>6. \A i \in 1 .. Len(a) : a[i] = b[i]
    BY <2>1, <2>2, <2>4, <2>5
  <2>7. a = b
    BY <2>4, <2>5, <2>6, SameSeq
  <2>8. SubSeq(p, 1, k) = SubSeq(q, 1, k)
    BY <1>2 DEF IsPrefix, k
  <2> DEFINE c == SubSeq(p, 1, k)
  <2>9. c = a
    BY <2>8 DEF a
  <2>10. k <= Len(r)
    BY <2>1
  <2>11. k <= Len(r) /\ SubSeq(p, 1, k) = SubSeq(r, 1, k)
    BY <2>7, <2>9, <2>10 DEF b
  <2> QED
    BY <2>11 DEF IsPrefix, r, k
<1> HIDE DEF m, pub
<1> DEFINE N == {d \in Nat : \A n, j \in 0 .. m : j = n + d => IsPrefix(pub(n), pub(j))}
<1>3. 0 \in N
  <2>1. \A n, j \in 0 .. m : j = n + 0 => IsPrefix(pub(n), pub(j))
    <3> TAKE n, j \in 0 .. m
    <3>1. j = n + 0 => j = n
      OBVIOUS
    <3> QED
      BY <1>0, <1>1, <3>1
  <2> QED
    BY <2>1
<1>4. ASSUME NEW d \in N PROVE d + 1 \in N
  <2>1. d \in Nat /\ \A n, j \in 0 .. m : j = n + d => IsPrefix(pub(n), pub(j))
    OBVIOUS
  <2> HIDE DEF N
  <2>2. ASSUME NEW n \in 0 .. m, NEW j \in 0 .. m, j = n + (d + 1) PROVE IsPrefix(pub(n), pub(j))
    <3> DEFINE k == j - 1
    <3>1. k \in 0 .. m /\ k \in 0 .. m - 1 /\ k = n + d /\ k + 1 = j
      BY <1>0, <2>1, <2>2
    <3> HIDE DEF k
    <3>2. IsPrefix(pub(n), pub(k)) /\ pub(k) \in Seq(AllArguments) /\ pub(n) \in Seq(AllArguments) /\ pub(j) \in Seq(AllArguments)
      BY <1>0, <2>1, <3>1
    <3>3. pub(j) = pub(k) \/ pub(j) = Append(pub(k), Arguments(s[k + 1]))
      BY <1>0, <3>1
    <3>4. CASE pub(j) = pub(k)
      BY <3>2, <3>4
    <3>5. CASE pub(j) = Append(pub(k), Arguments(s[k + 1]))
      <4> DEFINE x == Arguments(s[k + 1])
      <4> HIDE DEF x
      <4>1. pub(j) = Append(pub(k), x)
        BY <3>5 DEF x
      <4>2. IsPrefix(pub(n), Append(pub(k), x))
        BY <1>2, <3>2, <4>1
      <4> QED
        BY <4>1, <4>2
    <3> QED
      BY <3>3, <3>4, <3>5
  <2> QED
    BY <2>1, <2>2 DEF N
<1>5. N = Nat
  <2> HIDE DEF N
  <2>1. N \in SUBSET Nat
    BY DEF N
  <2> QED
    BY <1>3, <1>4, <2>1, SetInduction
<1>6. ASSUME NEW n \in 0 .. m, NEW j \in 0 .. m, n <= j PROVE IsPrefix(pub(n), pub(j))
  <2>1. j - n \in Nat /\ j = n + (j - n)
    BY <1>0, <1>6
  <2> DEFINE d == j - n
  <2> HIDE DEF d
  <2>2. d \in N /\ j = n + d
    BY <1>5, <2>1 DEF d
  <2>3. \A x, y \in 0 .. m : y = x + d => IsPrefix(pub(x), pub(y))
    BY <2>2
  <2> QED
    BY <2>2, <2>3
<1> QED
  BY <1>6 DEF m, pub

\* The equation of the recursive function in HandleAll.
HandleStep(f, s, values, n) == IF n = 0 THEN s ELSE HandlePushMessage(f[n - 1], values[n])

\* The equation has a solution.
LEMMA HandleExists ==
  ASSUME NEW s, NEW values, NEW len \in Nat
  PROVE  \E f : f = [n \in 0 .. len |-> HandleStep(f, s, values, n)]
<1> DEFINE Upto(f, n) == \A m \in 0 .. n : f[m] = HandleStep(f, s, values, m)
           N == {n \in Nat : \E f : Upto(f, n)}
<1>1. 0 \in N
  <2>1. Upto([m \in 0 .. 0 |-> s], 0)
    BY DEF HandleStep
  <2> QED
    BY <2>1
<1>2. ASSUME NEW n \in N PROVE n + 1 \in N
  <2>1. PICK f : Upto(f, n)
    OBVIOUS
  <2> DEFINE g == [m \in 0 .. n + 1 |-> IF m = n + 1 THEN HandleStep(f, s, values, n + 1) ELSE f[m]]
  <2>2. g[n + 1] = HandleStep(f, s, values, n + 1) /\ \A m \in 0 .. n : g[m] = f[m]
    OBVIOUS
  <2> HIDE DEF g
  <2>3. ASSUME NEW m \in 0 .. n + 1 PROVE HandleStep(g, s, values, m) = HandleStep(f, s, values, m)
    <3>1. m # 0 => m - 1 \in 0 .. n
      OBVIOUS
    <3>2. m # 0 => g[m - 1] = f[m - 1]
      BY <2>2, <3>1
    <3> QED
      BY <3>2 DEF HandleStep
  <2>4. ASSUME NEW m \in 0 .. n + 1 PROVE g[m] = HandleStep(g, s, values, m)
    <3>1. m \in 0 .. n \/ m = n + 1
      OBVIOUS
    <3> QED
      BY <2>1, <2>2, <2>3, <3>1
  <2>5. Upto(g, n + 1)
    BY <2>4
  <2> QED
    BY <2>5
<1>3. N = Nat
  <2>1. N \in SUBSET Nat
    OBVIOUS
  <2> HIDE DEF N
  <2> QED
    BY <1>1, <1>2, <2>1, SetInduction
<1>4. PICK f : Upto(f, len)
  <2>1. len \in N
    BY <1>3
  <2> QED
    BY <2>1
<1> DEFINE g == [n \in 0 .. len |-> f[n]]
<1>5. \A n \in 0 .. len : g[n] = f[n]
  OBVIOUS
<1>6. g = [n \in 0 .. len |-> g[n]]
  OBVIOUS
<1> HIDE DEF g
<1>7. ASSUME NEW n \in 0 .. len PROVE g[n] = HandleStep(g, s, values, n)
  <2>1. n # 0 => n - 1 \in 0 .. len
    OBVIOUS
  <2>2. n # 0 => g[n - 1] = f[n - 1]
    BY <1>5, <2>1
  <2>3. HandleStep(g, s, values, n) = HandleStep(f, s, values, n)
    BY <2>2 DEF HandleStep
  <2> QED
    BY <1>4, <1>5, <2>3
<1>8. g = [n \in 0 .. len |-> HandleStep(g, s, values, n)]
  BY <1>6, <1>7
<1> QED
  BY <1>8

\* What HandleAll computes.
LEMMA HandleUnfolds ==
  ASSUME NEW s, NEW values, Len(values) \in Nat
  PROVE  \E f : /\ \A n \in 0 .. Len(values) : f[n] = HandleStep(f, s, values, n)
                /\ HandleAll(s, values) = f[Len(values)]
<1> DEFINE f == CHOOSE f : f = [n \in 0 .. Len(values) |-> HandleStep(f, s, values, n)]
<1>1. f = [n \in 0 .. Len(values) |-> HandleStep(f, s, values, n)]
  BY HandleExists
<1>2. HandleAll(s, values) = f[Len(values)]
  BY Zenon DEF HandleAll, HandleStep
<1> HIDE DEF f
<1>3. \A n \in 0 .. Len(values) : f[n] = HandleStep(f, s, values, n)
  BY <1>1
<1> QED
  BY <1>2, <1>3

\* The handler h has handled the first n items of a script, and values are
\* those behind them up to the jth.
Handling(s, n, j, h, values) ==
  /\ s \in Scripts /\ n \in 0 .. Len(s) /\ j \in n .. Len(s)
  /\ h \in HandlerState /\ h.handled = PublishedOf(s, n) /\ EventsAre(h)
  /\ values = SubSeq(s, n + 1, j)

\* The handler after some items of a script: it had handled what was published
\* before them and has handled what is published with them.
LEMMA HandledAll ==
  ASSUME NEW s, NEW n, NEW j, NEW h, NEW values, Handling(s, n, j, h, values),
         NEW after, after = HandleAll(h, values)
  PROVE  /\ after \in HandlerState /\ after.handled = PublishedOf(s, j) /\ EventsAre(after)
         /\ after.closed <=> h.closed \/ \E i \in n + 1 .. j : s[i][1] = "err"
<1> DEFINE len == j - n
<1>a. /\ s \in Scripts /\ n \in 0 .. Len(s) /\ j \in n .. Len(s)
      /\ h \in HandlerState /\ h.handled = PublishedOf(s, n) /\ EventsAre(h)
      /\ values = SubSeq(s, n + 1, j)
  BY DEF Handling
<1> USE <1>a
<1>0. /\ s \in Seq(Items) /\ Len(s) \in Nat /\ n \in Nat /\ j \in Nat /\ n <= j /\ j <= Len(s)
      /\ len \in Nat /\ j = n + len
  BY StreamIs
<1>1. Len(values) = len /\ \A i \in 1 .. len : values[i] = s[n + i]
  <2> DEFINE v == SubSeq(s, n + 1, j)
  <2>1. Len(v) = len /\ \A i \in 1 .. len : v[i] = s[n + i]
    BY <1>0
  <2>2. v = values
    OBVIOUS
  <2> HIDE DEF v
  <2> QED
    BY <2>1, <2>2
<1> HIDE DEF len
<1>2. PICK f : /\ \A m \in 0 .. len : f[m] = HandleStep(f, h, values, m)
               /\ after = f[len]
  <2>1. Len(values) \in Nat /\ Len(values) = len
    BY <1>0, <1>1
  <2>2. \E f : /\ \A m \in 0 .. Len(values) : f[m] = HandleStep(f, h, values, m)
               /\ HandleAll(h, values) = f[Len(values)]
    BY <2>1, HandleUnfolds
  <2> QED
    BY <2>1, <2>2
<1> DEFINE Upto(m) == /\ f[m] \in HandlerState /\ f[m].handled = PublishedOf(s, n + m) /\ EventsAre(f[m])
                      /\ f[m].closed <=> h.closed \/ \E i \in n + 1 .. n + m : s[i][1] = "err"
           N == {m \in Nat : m <= len => Upto(m)}
<1>3. 0 \in N
  <2>1. 0 \in 0 .. len /\ n + 0 = n /\ n + 1 .. n = {}
    BY <1>0
  <2>2. f[0] = h
    BY <1>2, <2>1 DEF HandleStep
  <2>3. Upto(0)
    BY <2>1, <2>2
  <2> QED
    BY <2>3
<1>4. ASSUME NEW m \in N PROVE m + 1 \in N
  <2> SUFFICES ASSUME m + 1 <= len PROVE Upto(m + 1)
    OBVIOUS
  <2>1. m \in Nat /\ m <= len /\ Upto(m)
    BY <1>0
  <2> DEFINE v == s[n + m + 1]
             g == f[m]
             k == n + m
             g2 == HandlePushMessage(g, v)
  <2>2. m + 1 \in 0 .. len /\ m + 1 # 0 /\ (m + 1) - 1 = m /\ m + 1 \in 1 .. len
    BY <1>0, <2>1
  <2>3. f[m + 1] = HandlePushMessage(f[m], values[m + 1])
    BY <1>2, <2>2 DEF HandleStep
  <2>4. values[m + 1] = v
    <3>1. n + (m + 1) = n + m + 1
      BY <1>0, <2>1
    <3> QED
      BY <1>1, <2>2, <3>1
  <2>5. f[m + 1] = g2
    BY <2>3, <2>4
  <2>6. k \in 0 .. Len(s) - 1 /\ k + 1 \in 1 .. Len(s) /\ n + (m + 1) = k + 1 /\ k \in n .. Len(s)
    BY <1>0, <2>1
  <2>7. v \in Items
    BY <1>0, <2>6
  <2>8. /\ g \in HandlerState /\ g.handled = PublishedOf(s, k) /\ EventsAre(g)
        /\ g.closed <=> h.closed \/ \E i \in n + 1 .. k : s[i][1] = "err"
    BY <2>1
  <2>9. PublishedOf(s, k + 1) = IF IsMessage(v) THEN Append(PublishedOf(s, k), Arguments(v)) ELSE PublishedOf(s, k)
    BY <2>6, PublishedStep
  <2>10. v = s[k + 1]
    OBVIOUS
  <2> HIDE DEF v, g, k
  <2>11. \A i : i \in n + 1 .. k + 1 <=> i \in n + 1 .. k \/ i = k + 1
    BY <1>0, <2>6
  <2>12. (\E i \in n + 1 .. k + 1 : s[i][1] = "err") <=> (\E i \in n + 1 .. k : s[i][1] = "err") \/ v[1] = "err"
    BY <2>10, <2>11
  <2>13. /\ g2 \in HandlerState
         /\ v[1] = "err" => g2.closed /\ g2.handled = g.handled /\ ~IsMessage(v)
         /\ v[1] # "err" => /\ g2.closed = g.closed
                            /\ g2.handled = IF IsMessage(v) THEN Append(g.handled, Arguments(v)) ELSE g.handled
         /\ EventsAre(g2)
    BY <2>7, <2>8, PushMessageIs
  <2> HIDE DEF g2
  <2>14. g2.handled = PublishedOf(s, k + 1)
    BY <2>8, <2>9, <2>13
  <2>15. g2.closed <=> h.closed \/ \E i \in n + 1 .. k + 1 : s[i][1] = "err"
    BY <2>8, <2>12, <2>13
  <2> QED
    BY <2>5, <2>6, <2>13, <2>14, <2>15
<1>5. Upto(len)
  <2>1. N \in SUBSET Nat
    OBVIOUS
  <2> HIDE DEF N
  <2>2. N = Nat
    BY <1>3, <1>4, <2>1, SetInduction
  <2>3. len \in N
    BY <1>0, <2>2
  <2> QED
    BY <2>3 DEF N
<1> QED
  BY <1>0, <1>2, <1>5

\* Nothing to handle.
LEMMA HandledNone == ASSUME NEW h PROVE HandleAll(h, <<>>) = h
<1>1. Len(<<>>) = 0 /\ 0 \in 0 .. 0
  OBVIOUS
<1> DEFINE none == <<>>
<1>2. Len(none) = 0
  BY <1>1
<1> HIDE DEF none
<1>3. PICK f : /\ \A n \in 0 .. Len(none) : f[n] = HandleStep(f, h, none, n)
               /\ HandleAll(h, none) = f[Len(none)]
  BY <1>2, HandleUnfolds
<1>4. f[0] = h
  BY <1>1, <1>2, <1>3 DEF HandleStep
<1> QED
  BY <1>2, <1>3, <1>4 DEF none

-----------------------------------------------------------------------------
(* The subscription *)

HandlerOf(c, d, h, e) == [closed |-> c, disconnected |-> d, handled |-> h, events |-> e]
HandlerNow == HandlerOf(closed, disconnected, handled, events)

\* The inductive invariant: what has arrived decides what is closed, handled
\* and left in the buffer, and the events are those of the handled messages.
WireInv ==
  /\ script \in Scripts
  /\ stream = StreamOf(script)
  /\ at \in 0 .. Len(stream)
  /\ HandlerNow \in HandlerState
  /\ EventsAre(HandlerNow)
  /\ closed <=> \E i \in 1 .. CountOf(script, at) : Fatal(script[i])
  /\ \E m \in 0 .. CountOf(script, at) : handled = PublishedOf(script, m)
  /\ ~closed => /\ handled = PublishedOf(script, CountOf(script, at))
                /\ buffer = Part(stream, EndOf(script, CountOf(script, at)) + 1, at)

\* The fields of the handler's state.
LEMMA HandlerFields ==
  ASSUME NEW c, NEW d, NEW h, NEW e
  PROVE  /\ HandlerOf(c, d, h, e).closed = c /\ HandlerOf(c, d, h, e).disconnected = d
         /\ HandlerOf(c, d, h, e).handled = h /\ HandlerOf(c, d, h, e).events = e
         /\ HandlerOf(c, d, h, e) \in HandlerState <=>
              c \in BOOLEAN /\ d \in BOOLEAN /\ h \in Seq(AllArguments) /\ e \in Seq(AllEvents)
BY DEF HandlerState, HandlerOf

\* Nothing has arrived.
LEMMA CountNone ==
  ASSUME NEW s \in Scripts
  PROVE  CountOf(s, 0) = 0 /\ Part(StreamOf(s), EndOf(s, 0) + 1, 0) = <<>>
<1> DEFINE n == CountOf(s, 0)
           st == StreamOf(s)
<1>1. st \in Seq(Symbol) /\ Len(st) \in Nat /\ 0 \in 0 .. Len(st) /\ Len(s) \in Nat
  BY StreamIs
<1>2. n \in 0 .. Len(s) /\ EndOf(s, n) <= 0
  BY <1>1, CountIs
<1> HIDE DEF n
<1>3. n = 0
  <2> SUFFICES ASSUME n # 0 PROVE FALSE
    OBVIOUS
  <2> DEFINE k == n - 1
  <2>1. k \in 0 .. Len(s) - 1 /\ k \in 0 .. Len(s) /\ k + 1 = n
    BY <1>1, <1>2
  <2> HIDE DEF k
  <2>2. /\ Len(Bytes(s[k + 1])) \in Nat \ {0} /\ EndOf(s, k) \in 0 .. Len(st)
        /\ EndOf(s, k + 1) = EndOf(s, k) + Len(Bytes(s[k + 1]))
    BY <2>1, StreamIs
  <2> DEFINE a == EndOf(s, k)
             z == EndOf(s, n)
             l == Len(Bytes(s[k + 1]))
  <2>3. l \in Nat \ {0} /\ a \in Nat /\ z = a + l /\ z <= 0
    BY <1>1, <1>2, <2>1, <2>2
  <2> HIDE DEF a, z, l
  <2> QED
    BY <2>3
<1>4. EndOf(s, 0) = 0
  BY StreamIs
<1>5. Part(st, 0 + 1, 0) = <<>>
  <2> HIDE DEF st
  <2> QED
    BY <1>1 DEF Part
<1> QED
  BY <1>3, <1>4, <1>5 DEF n

\* Initially nothing has been published, handled or rejected.
LEMMA WireInit == ASSUME Init PROVE WireInv
<1>1. /\ script \in Scripts /\ stream = StreamOf(script) /\ at = 0 /\ buffer = <<>>
      /\ closed = FALSE /\ disconnected = FALSE /\ handled = <<>> /\ events = <<>>
  BY DEF Init, StreamOf
<1>2. CountOf(script, at) = 0 /\ Part(stream, EndOf(script, 0) + 1, at) = <<>> /\ Len(stream) \in Nat
  BY <1>1, CountNone, StreamIs
<1>3. PublishedOf(script, 0) = <<>>
  BY <1>1, PublishedStep
<1> DEFINE h == HandlerNow
<1>4. /\ h \in HandlerState
      /\ h.disconnected = FALSE /\ h.handled = <<>> /\ h.events = <<>>
  <2>1. h = HandlerOf(closed, disconnected, handled, events)
    BY DEF HandlerNow
  <2>2. closed \in BOOLEAN /\ disconnected \in BOOLEAN /\ handled \in Seq(AllArguments) /\ events \in Seq(AllEvents)
    BY <1>1, EmptyIsSeq
  <2> HIDE DEF h
  <2> QED
    BY <1>1, <2>1, <2>2 DEF HandlerState, HandlerOf
<1> HIDE DEF h
<1>5. EventsAre(h)
  <2>1. Len(<<>>) = 0
    OBVIOUS
  <2> QED
    BY <1>4, <2>1 DEF EventsAre
<1>6. 1 .. 0 = {} /\ 0 \in 0 .. 0
  OBVIOUS
<1> QED
  BY <1>1, <1>2, <1>3, <1>4, <1>5, <1>6 DEF WireInv, h

\* A chunk of any length keeps the invariant.
LEMMA WireStep ==
  ASSUME WireInv, NEW k \in 1 .. Len(stream) - at, HandleData(k)
  PROVE  WireInv'
<1> DEFINE s == script
           st == stream
           q == at + k
           n == CountOf(script, at)
           j == CountOf(script, q)
           b == Part(stream, EndOf(script, n) + 1, q)
           chunk == SubSeq(stream, at + 1, at + k)
           parsed == Push(buffer, chunk)
           h == [closed |-> parsed.failed, disconnected |-> disconnected, handled |-> handled, events |-> events]
           after == HandleAll(h, parsed.values)
<1>1. /\ s \in Scripts /\ st = StreamOf(s) /\ at \in 0 .. Len(st) /\ closed = FALSE
      /\ HandlerNow \in HandlerState /\ EventsAre(HandlerNow)
      /\ ~ \E i \in 1 .. n : Fatal(s[i])
      /\ handled = PublishedOf(s, n) /\ buffer = Part(st, EndOf(s, n) + 1, at)
  <2>1. ~closed /\ closed \in BOOLEAN
    <3>1. closed \in BOOLEAN
      BY HandlerFields DEF WireInv, HandlerNow
    <3> QED
      BY <3>1 DEF HandleData
  <2> QED
    BY <2>1 DEF WireInv
<1>2. /\ st \in Seq(Symbol) /\ Len(st) \in Nat /\ s \in Seq(Items) /\ Len(s) \in Nat
      /\ at \in Nat /\ q \in at .. Len(st) /\ q \in 0 .. Len(st)
  BY <1>1, StreamIs
<1>3. /\ script' = s /\ stream' = st /\ at' = q /\ buffer' = parsed.rest
      /\ closed' = after.closed /\ disconnected' = after.disconnected
      /\ handled' = after.handled /\ events' = after.events
  BY Zenon DEF HandleData
<1>4. n \in 0 .. Len(s) /\ EndOf(s, n) \in 0 .. Len(st) /\ EndOf(s, n) <= at
  <2>1. n \in 0 .. Len(s) /\ EndOf(s, n) <= at
    BY <1>1, CountIs
  <2> HIDE DEF n
  <2> QED
    BY <1>1, <2>1, StreamIs
<1>5. parsed = Parse(b)
  <2> DEFINE p == EndOf(s, n)
  <2> HIDE DEF p
  <2>1. p \in 0 .. Len(st) /\ at \in p .. Len(st) /\ q \in at .. Len(st)
    BY <1>1, <1>2, <1>4 DEF p
  <2> HIDE DEF q
  <2>2. Part(st, p + 1, at) \o Part(st, at + 1, q) = Part(st, p + 1, q)
    BY <1>2, <2>1, PartsJoined
  <2>3. buffer = Part(st, p + 1, at) /\ b = Part(st, p + 1, q)
    BY <1>1 DEF p
  <2>4. chunk = Part(st, at + 1, q)
    BY DEF Part, q
  <2>5. parsed = Parse(buffer \o chunk)
    BY DEF Push
  <2> QED
    BY <2>2, <2>3, <2>4, <2>5
<1>6. /\ j \in n .. Len(s)
      /\ (\A i \in n + 1 .. j : s[i][1] # "raw") =>
           parsed = Parsed(FALSE, SubSeq(s, n + 1, j), Part(st, EndOf(s, j) + 1, q))
      /\ (\E i \in n + 1 .. j : s[i][1] = "raw") => parsed = Failed(b)
  <2> HIDE DEF parsed, q
  <2>1. /\ at \in 0 .. Len(StreamOf(s)) /\ q \in at .. Len(StreamOf(s))
        /\ n = CountOf(s, at) /\ j = CountOf(s, q) /\ b = Part(StreamOf(s), EndOf(s, n) + 1, q)
    BY <1>1, <1>2
  <2> HIDE DEF n, j, b
  <2>2. Arriving(s, at, q, n, j, b)
    BY <1>1, <2>1 DEF Arriving
  <2> QED
    <3>1. /\ n \in 0 .. Len(s) /\ j \in n .. Len(s)
          /\ (\A i \in n + 1 .. j : s[i][1] # "raw") =>
               Parse(b) = Parsed(FALSE, SubSeq(s, n + 1, j), Part(StreamOf(s), EndOf(s, j) + 1, q))
          /\ (\E i \in n + 1 .. j : s[i][1] = "raw") => Parse(b) = Failed(b)
      BY <2>2, ParseArrived
    <3> QED
      BY <1>1, <1>5, <3>1
<1>7. \A i : i \in 1 .. j <=> i \in 1 .. n \/ i \in n + 1 .. j
  <2> HIDE DEF n, j
  <2> QED
    BY <1>2, <1>4, <1>6
<1> DEFINE now == HandlerNow
<1>8. /\ now = [closed |-> closed, disconnected |-> disconnected, handled |-> handled, events |-> events]
      /\ now \in HandlerState /\ EventsAre(now)
  BY <1>1 DEF HandlerNow, HandlerOf
<1>9. /\ disconnected \in BOOLEAN /\ handled \in Seq(AllArguments) /\ events \in Seq(AllEvents)
      /\ now.closed = closed /\ now.disconnected = disconnected /\ now.handled = handled /\ now.events = events
  BY <1>8, HandlerFields DEF HandlerNow
<1>10. n \in 0 .. j /\ j \in 0 .. j /\ j \in 0 .. Len(s)
  <2> HIDE DEF n, j
  <2> QED
    BY <1>2, <1>4, <1>6
<1> DEFINE next == after
<1>11. ASSUME NEW m \in 0 .. j, after \in HandlerState, after.handled = PublishedOf(s, m), EventsAre(after),
              after.closed <=> \E i \in 1 .. j : Fatal(s[i]),
              ~after.closed => m = j /\ parsed.rest = Part(st, EndOf(s, j) + 1, q)
       PROVE  WireInv'
  <2>1. HandlerNow' = after
    <3>1. HandlerNow' = [closed |-> after.closed, disconnected |-> after.disconnected,
                         handled |-> after.handled, events |-> after.events]
      BY <1>3 DEF HandlerNow, HandlerOf
    <3> HIDE DEF after
    <3> QED
      BY <1>11, <3>1 DEF HandlerState
  <2> HIDE DEF after, parsed
  <2>2. CountOf(script, at)' = j
    <3>1. CountOf(script', at') = j
      BY <1>3
    <3> QED
      BY <3>1 DEF CountOf, EndOf
  <2> HIDE DEF n
  <2>3. /\ script' \in Scripts /\ stream' = StreamOf(script') /\ at' \in 0 .. Len(stream')
        /\ HandlerNow' \in HandlerState /\ EventsAre(HandlerNow')
        /\ closed' <=> \E i \in 1 .. j : Fatal(script'[i])
        /\ \E x \in 0 .. j : handled' = PublishedOf(script', x)
        /\ ~closed' => handled' = PublishedOf(script', j) /\ buffer' = Part(stream', EndOf(script', j) + 1, at')
    <3> HIDE DEF j, q
    <3>1. /\ script' \in Scripts /\ stream' = StreamOf(script') /\ at' \in 0 .. Len(stream')
      BY <1>1, <1>2, <1>3
    <3>2. HandlerNow' \in HandlerState /\ EventsAre(HandlerNow')
      BY <1>11, <2>1
    <3>3. closed' <=> \E i \in 1 .. j : Fatal(script'[i])
      BY <1>3, <1>11
    <3>4. \E x \in 0 .. j : handled' = PublishedOf(script', x)
      BY <1>3, <1>11
    <3>5. ~closed' => handled' = PublishedOf(script', j) /\ buffer' = Part(stream', EndOf(script', j) + 1, at')
      BY <1>3, <1>11
    <3> QED
      BY <3>1, <3>2, <3>3, <3>4, <3>5
  <2> HIDE DEF j
  <2> QED
    BY <2>2, <2>3 DEF WireInv
<1>12. CASE \A i \in n + 1 .. j : s[i][1] # "raw"
  <2> DEFINE values == SubSeq(s, n + 1, j)
             rest == Part(st, EndOf(s, j) + 1, q)
  <2>1. parsed = Parsed(FALSE, values, rest)
    BY <1>6, <1>12
  <2> HIDE DEF parsed, values, rest
  <2>2. parsed.failed = FALSE /\ parsed.values = values /\ parsed.rest = rest
    BY <2>1 DEF Parsed
  <2>3. h = now
    BY <1>1, <1>8, <2>2
  <2> HIDE DEF h, now
  <2>4. now.handled = PublishedOf(s, n) /\ now.closed = FALSE
    BY <1>1, <1>9
  <2>5. after = HandleAll(now, values)
    BY <2>2, <2>3
  <2>6. values = SubSeq(s, n + 1, j)
    BY DEF values
  <2> HIDE DEF after
  <2>7. /\ after \in HandlerState /\ after.handled = PublishedOf(s, j) /\ EventsAre(after)
        /\ after.closed <=> now.closed \/ \E i \in n + 1 .. j : s[i][1] = "err"
    <3> HIDE DEF n, j
    <3>1. Handling(s, n, j, now, values)
      BY <1>1, <1>4, <1>6, <1>8, <2>4, <2>6 DEF Handling
    <3> QED
      BY <2>5, <3>1, HandledAll
  <2>8. after.closed <=> \E i \in 1 .. j : Fatal(s[i])
    <3> HIDE DEF n, j
    <3>1. \A i \in n + 1 .. j : Fatal(s[i]) <=> s[i][1] = "err"
      BY <1>12 DEF Fatal
    <3> QED
      BY <1>1, <1>7, <2>4, <2>7, <3>1
  <2>9. parsed.rest = Part(st, EndOf(s, j) + 1, q)
    BY <2>2 DEF rest
  <2> QED
    BY <1>10, <1>11, <2>7, <2>8, <2>9
<1>13. CASE \E i \in n + 1 .. j : s[i][1] = "raw"
  <2>1. parsed = Failed(b)
    BY <1>6, <1>13
  <2> HIDE DEF parsed
  <2>2. parsed.failed = TRUE /\ parsed.values = <<>>
    BY <2>1 DEF Failed, Parsed
  <2>3. after = h
    BY <2>2, HandledNone
  <2>4. h.closed = TRUE /\ h.disconnected = disconnected /\ h.handled = handled /\ h.events = events /\ h \in HandlerState
    <3> DEFINE t == parsed.failed
    <3>1. h = HandlerOf(t, disconnected, handled, events) /\ t \in BOOLEAN /\ t = TRUE
      BY <2>2 DEF HandlerOf
    <3> HIDE DEF t, h
    <3> QED
      BY <1>9, <3>1 DEF HandlerState, HandlerOf
  <2> HIDE DEF h, now
  <2>5. EventsAre(h)
    BY <1>8, <1>9, <2>4 DEF EventsAre
  <2> HIDE DEF after
  <2>6. /\ after \in HandlerState /\ after.handled = PublishedOf(s, n) /\ EventsAre(after) /\ after.closed
    BY <1>1, <2>3, <2>4, <2>5
  <2>7. \E i \in 1 .. j : Fatal(s[i])
    <3>1. PICK i \in n + 1 .. j : s[i][1] = "raw"
      BY <1>13
    <3>2. i \in 1 .. j /\ Fatal(s[i])
      BY <1>7, <3>1 DEF Fatal
    <3> QED
      BY <3>2
  <2> HIDE DEF n, j
  <2>8. after.closed <=> \E i \in 1 .. j : Fatal(s[i])
    BY <2>6, <2>7
  <2> QED
    BY <1>10, <1>11, <2>6, <2>8
<1> QED
  BY <1>12, <1>13

\* The invariant says what SplitInvisible says.
LEMMA WireSplit == ASSUME WireInv PROVE SplitInvisible
<1> DEFINE n == CountOf(script, at)
<1>1. Arrived = n
  BY Zenon DEF Arrived, CountOf, Ends, EndOf
<1>2. /\ Published(n) = PublishedOf(script, n) /\ Ends(n) = EndOf(script, n)
  BY Zenon DEF Published, PublishedOf, Ends, EndOf
<1>3. /\ script \in Scripts /\ n \in 0 .. Len(script) /\ Len(script) \in Nat
  <2>1. script \in Scripts /\ at \in 0 .. Len(StreamOf(script))
    BY DEF WireInv
  <2> QED
    BY <2>1, CountIs, StreamIs
<1>4. /\ closed <=> \E i \in 1 .. n : Fatal(script[i])
      /\ \E m \in 0 .. n : handled = PublishedOf(script, m)
      /\ ~closed => /\ handled = PublishedOf(script, n)
                    /\ buffer = Part(stream, EndOf(script, n) + 1, at)
  BY Zenon DEF WireInv
<1> HIDE DEF n
<1>5. IsPrefix(handled, PublishedOf(script, n))
  <2>1. PICK m \in 0 .. n : handled = PublishedOf(script, m)
    BY <1>4
  <2>2. m \in 0 .. Len(script) /\ m <= n
    BY <1>3
  <2> QED
    BY <1>3, <2>1, <2>2, PublishedPrefix
<1>6. ~closed => buffer = SubSeq(stream, Ends(n) + 1, at)
  BY <1>2, <1>4 DEF Part
<1> QED
  BY <1>1, <1>2, <1>4, <1>5, <1>6 DEF SplitInvisible

\* Every reachable state has the invariant.
THEOREM WireInvHolds == Spec => []WireInv
<1>1. Init => WireInv
  BY WireInit
<1>2. WireInv /\ [Next]_vars => WireInv'
  <2>1. ASSUME WireInv, Next PROVE WireInv'
    <3>1. PICK k \in 1 .. Len(stream) - at : HandleData(k)
      BY <2>1 DEF Next
    <3> QED
      BY <2>1, <3>1, WireStep
  <2>2. ASSUME WireInv, UNCHANGED vars PROVE WireInv'
    BY <2>2 DEF WireInv, vars, HandlerNow
  <2> QED
    BY <2>1, <2>2
<1> QED
  BY <1>1, <1>2, PTL DEF Spec

\* However the bytes are cut, a message is handled exactly when it is complete.
THEOREM SplitInvisibleHolds == Spec => []SplitInvisible
<1>1. WireInv => SplitInvisible
  BY WireSplit
<1> QED
  BY <1>1, WireInvHolds, PTL

-----------------------------------------------------------------------------
(* Keeping and trimming characters *)

\* Keeping depends on the elements that are there.
LEMMA KeepSame ==
  ASSUME NEW T, NEW t \in Seq(T), NEW S, NEW S2, \A i \in 1 .. Len(t) : t[i] \in S <=> t[i] \in S2
  PROVE  Keep(t, S) = Keep(t, S2)
<1> DEFINE P == {q \in Seq(T) : (\A i \in 1 .. Len(q) : q[i] \in S <=> q[i] \in S2) => Keep(q, S) = Keep(q, S2)}
<1>1. <<>> \in P
  BY EmptyIsSeq, KeepEmpty
<1>2. ASSUME NEW q \in P, NEW e \in T PROVE Append(q, e) \in P
  <2> DEFINE q2 == Append(q, e)
  <2>1. /\ q2 \in Seq(T) /\ Len(q2) = Len(q) + 1 /\ Len(q) \in Nat
        /\ \A i \in 1 .. Len(q) : q2[i] = q[i]
        /\ q2[Len(q) + 1] = e
    BY Appended
  <2>2. Keep(q2, S) = IF e \in S THEN Append(Keep(q, S), e) ELSE Keep(q, S)
    BY KeepAppend
  <2>3. Keep(q2, S2) = IF e \in S2 THEN Append(Keep(q, S2), e) ELSE Keep(q, S2)
    BY KeepAppend
  <2> HIDE DEF q2
  <2>4. ASSUME \A i \in 1 .. Len(q2) : q2[i] \in S <=> q2[i] \in S2 PROVE Keep(q2, S) = Keep(q2, S2)
    <3>1. Len(q) + 1 \in 1 .. Len(q2) /\ \A i \in 1 .. Len(q) : i \in 1 .. Len(q2)
      BY <2>1
    <3>2. e \in S <=> e \in S2
      BY <2>1, <2>4, <3>1
    <3>3. \A i \in 1 .. Len(q) : q[i] \in S <=> q[i] \in S2
      BY <2>1, <2>4, <3>1
    <3>4. Keep(q, S) = Keep(q, S2)
      BY <3>3
    <3> QED
      BY <2>2, <2>3, <3>2, <3>4
  <2>5. q2 \in P
    BY <2>1, <2>4
  <2> QED
    BY <2>5 DEF q2
<1>3. P \in SUBSET Seq(T)
  OBVIOUS
<1> HIDE DEF P
<1>4. P = Seq(T)
  BY <1>1, <1>2, <1>3, SeqInduction
<1> QED
  BY <1>4 DEF P

\* The elements of a sequence.
LEMMA Elements == ASSUME NEW T, NEW t \in Seq(T) PROVE ToSet(t) = {t[i] : i \in 1 .. Len(t)} /\ ToSet(t) \subseteq T
BY DEF ToSet

\* A text without some characters.
LEMMA WithoutIs ==
  ASSUME NEW T, NEW t \in Seq(T), NEW N
  PROVE  /\ Without(t, N) = Keep(t, T \ N) /\ Without(t, N) \in Seq(T \ N)
         /\ (\A i \in 1 .. Len(t) : t[i] \notin N) => Without(t, N) = t
<1>1. \A i \in 1 .. Len(t) : t[i] \in T
  OBVIOUS
<1>2. Keep(t, ToSet(t) \ N) = Keep(t, T \ N)
  <2> DEFINE S == ToSet(t) \ N
             S2 == T \ N
  <2>1. \A i \in 1 .. Len(t) : t[i] \in S <=> t[i] \in S2
    BY <1>1, Elements
  <2> HIDE DEF S, S2
  <2>2. Keep(t, S) = Keep(t, S2)
    BY <2>1, KeepSame
  <2> QED
    BY <2>2 DEF S, S2
<1>3. Keep(t, T \ N) \in Seq(T \ N)
  <2> DEFINE S == T \ N
  <2>1. T \cap S = S
    OBVIOUS
  <2> HIDE DEF S
  <2>2. Keep(t, S) \in Seq(T \cap S)
    BY KeepProperties
  <2> QED
    BY <2>1, <2>2 DEF S
<1>4. ASSUME \A i \in 1 .. Len(t) : t[i] \notin N PROVE Keep(t, T \ N) = t
  <2> DEFINE S == T \ N
  <2>1. \A i \in 1 .. Len(t) : t[i] \in S
    BY <1>1, <1>4
  <2> HIDE DEF S
  <2>2. Keep(t, S) = t
    BY <2>1, KeepAll
  <2> QED
    BY <2>2 DEF S
<1> QED
  BY <1>2, <1>3, <1>4 DEF Without

\* The least and the greatest of some numbers.
LEMMA MinMaxAre ==
  ASSUME NEW n \in Nat, NEW S \in SUBSET (1 .. n), S # {}
  PROVE  /\ Min(S) \in S /\ \A j \in S : Min(S) <= j
         /\ Max(S) \in S /\ \A j \in S : j <= Max(S)
<1>1. \E m \in S : \A j \in S : m <= j
  <2>1. S \in SUBSET Nat
    OBVIOUS
  <2> QED
    BY <2>1, LeastElement
<1>2. \E m \in S : \A j \in S : j <= m
  <2> DEFINE D == {n - i : i \in S}
  <2>1. D \in SUBSET Nat /\ D # {}
    <3>1. \A i \in S : n - i \in Nat
      OBVIOUS
    <3> QED
      BY <3>1
  <2>2. PICK d \in D : \A j \in D : d <= j
    <3> HIDE DEF D
    <3> QED
      BY <2>1, LeastElement
  <2>3. PICK m \in S : d = n - m
    OBVIOUS
  <2>4. ASSUME NEW j \in S PROVE j <= m
    <3>1. n - j \in D
      OBVIOUS
    <3>2. d <= n - j
      BY <2>2, <3>1
    <3> QED
      BY <2>3, <3>2
  <2> QED
    BY <2>4
<1> QED
  BY <1>1, <1>2 DEF Min, Max

\* What Trim leaves: a part that starts and ends with no newline, and only
\* newlines around it.
LEMMA TrimIs ==
  ASSUME NEW T, NEW t \in Seq(T)
  PROVE  \/ Trim(t) = <<>> /\ \A i \in 1 .. Len(t) : t[i] \in Newlines
         \/ \E a \in 1 .. Len(t) : \E b \in a .. Len(t) :
              /\ Trim(t) = SubSeq(t, a, b) /\ t[a] \notin Newlines /\ t[b] \notin Newlines
              /\ \A i \in 1 .. a - 1 : t[i] \in Newlines
              /\ \A i \in b + 1 .. Len(t) : t[i] \in Newlines
<1> DEFINE inner == {i \in DOMAIN t : t[i] \notin Newlines}
           n == Len(t)
<1>1. n \in Nat /\ inner \in SUBSET (1 .. n) /\ \A i \in 1 .. n : i \in inner <=> t[i] \notin Newlines
  OBVIOUS
<1>2. Trim(t) = IF inner = {} THEN <<>> ELSE SubSeq(t, Min(inner), Max(inner))
  BY DEF Trim
<1> HIDE DEF inner, n
<1>3. CASE inner = {}
  BY <1>1, <1>2, <1>3 DEF n
<1>4. CASE inner # {}
  <2> DEFINE a == Min(inner)
             b == Max(inner)
  <2>1. /\ a \in inner /\ \A j \in inner : a <= j
        /\ b \in inner /\ \A j \in inner : j <= b
    BY <1>1, <1>4, MinMaxAre
  <2>2. Trim(t) = SubSeq(t, a, b)
    BY <1>2, <1>4
  <2> HIDE DEF a, b
  <2>3. a \in 1 .. n /\ b \in a .. n /\ t[a] \notin Newlines /\ t[b] \notin Newlines
    BY <1>1, <2>1
  <2>4. \A i \in 1 .. a - 1 : i \in 1 .. n /\ ~(a <= i)
    BY <1>1, <2>3
  <2>5. \A i \in b + 1 .. n : i \in 1 .. n /\ ~(i <= b)
    BY <1>1, <2>3
  <2>6. /\ \A i \in 1 .. a - 1 : t[i] \in Newlines
        /\ \A i \in b + 1 .. n : t[i] \in Newlines
    BY <1>1, <2>1, <2>4, <2>5
  <2> QED
    BY <2>2, <2>3, <2>6 DEF n
<1> QED
  BY <1>3, <1>4

\* A text with no newline at its ends stays as it is.
LEMMA TrimNothing ==
  ASSUME NEW T, NEW t \in Seq(T), Len(t) >= 1 => t[1] \notin Newlines /\ t[Len(t)] \notin Newlines
  PROVE  Trim(t) = t
<1>0. Len(t) \in Nat
  OBVIOUS
<1>1. CASE Len(t) = 0
  <2>1. t = <<>> /\ 1 .. Len(t) = {}
    BY <1>1
  <2>2. ~ \E a \in 1 .. Len(t) : TRUE
    BY <2>1
  <2> QED
    BY <2>1, <2>2, TrimIs
<1>2. CASE Len(t) >= 1
  <2>1. 1 \in 1 .. Len(t) /\ Len(t) \in 1 .. Len(t)
    BY <1>0, <1>2
  <2>2. PICK a \in 1 .. Len(t), b \in 1 .. Len(t) :
              /\ b \in a .. Len(t)
              /\ Trim(t) = SubSeq(t, a, b)
              /\ \A i \in 1 .. a - 1 : t[i] \in Newlines
              /\ \A i \in b + 1 .. Len(t) : t[i] \in Newlines
    <3>1. t[1] \notin Newlines
      BY <1>2
    <3>2. PICK a \in 1 .. Len(t) : \E b \in a .. Len(t) :
              /\ Trim(t) = SubSeq(t, a, b) /\ t[a] \notin Newlines /\ t[b] \notin Newlines
              /\ \A i \in 1 .. a - 1 : t[i] \in Newlines
              /\ \A i \in b + 1 .. Len(t) : t[i] \in Newlines
      BY <2>1, <3>1, TrimIs
    <3>3. PICK b \in a .. Len(t) :
              /\ Trim(t) = SubSeq(t, a, b) /\ t[a] \notin Newlines /\ t[b] \notin Newlines
              /\ \A i \in 1 .. a - 1 : t[i] \in Newlines
              /\ \A i \in b + 1 .. Len(t) : t[i] \in Newlines
      BY <3>2
    <3>4. b \in 1 .. Len(t)
      BY <1>0
    <3> QED
      BY <3>3, <3>4
  <2>3. a = 1
    <3>1. a # 1 => 1 \in 1 .. a - 1
      BY <1>0
    <3> QED
      BY <1>2, <2>2, <3>1
  <2>4. b = Len(t)
    <3>1. b # Len(t) => Len(t) \in b + 1 .. Len(t)
      BY <1>0
    <3> QED
      BY <1>2, <2>2, <3>1
  <2>5. SubSeq(t, 1, Len(t)) = t
    OBVIOUS
  <2> QED
    BY <2>2, <2>3, <2>4, <2>5
<1> QED
  BY <1>0, <1>1, <1>2

\* Without newlines it does not matter whether the ends were trimmed before.
LEMMA TrimWithout ==
  ASSUME NEW T, NEW t \in Seq(T)
  PROVE  Trim(t) \in Seq(T) /\ Without(Trim(t), Newlines) = Without(t, Newlines)
<1> DEFINE S == T \ Newlines
           u == Trim(t)
<1>0. Len(t) \in Nat
  OBVIOUS
<1>1. CASE Trim(t) = <<>> /\ \A i \in 1 .. Len(t) : t[i] \in Newlines
  <2>1. \A i \in 1 .. Len(t) : t[i] \notin S
    BY <1>1
  <2>2. u = <<>> /\ u \in Seq(T)
    BY <1>1
  <2>3. Without(u, Newlines) = Keep(u, S) /\ Without(t, Newlines) = Keep(t, S)
    BY <2>2, WithoutIs
  <2> HIDE DEF S, u
  <2>4. Keep(u, S) = <<>> /\ Keep(t, S) = <<>>
    BY <2>1, <2>2, KeepNone, KeepEmpty
  <2> QED
    BY <2>2, <2>3, <2>4 DEF u
<1>2. ASSUME NEW a \in 1 .. Len(t), NEW b \in a .. Len(t),
             /\ Trim(t) = SubSeq(t, a, b)
             /\ \A i \in 1 .. a - 1 : t[i] \in Newlines
             /\ \A i \in b + 1 .. Len(t) : t[i] \in Newlines
      PROVE  Trim(t) \in Seq(T) /\ Without(Trim(t), Newlines) = Without(t, Newlines)
  <2> DEFINE x == SubSeq(t, 1, a - 1)
             y == SubSeq(t, b + 1, Len(t))
             m == SubSeq(t, a, b)
             xm == x \o m
             xmy == xm \o y
  <2>1. x \in Seq(T) /\ Len(x) = a - 1 /\ \A i \in 1 .. a - 1 : x[i] = t[i]
    BY <1>0
  <2>2. y \in Seq(T) /\ Len(y) = Len(t) - b /\ \A i \in 1 .. Len(t) - b : y[i] = t[b + i]
    BY <1>0
  <2>3. m \in Seq(T) /\ Len(m) = b - a + 1 /\ \A i \in 1 .. b - a + 1 : m[i] = t[a - 1 + i]
    BY <1>0
  <2>4. u = m
    BY <1>2
  <2> HIDE DEF x, y, m, u
  <2>a. x \in Seq(T) /\ m \in Seq(T) /\ y \in Seq(T)
    BY <2>1, <2>2, <2>3
  <2>5. /\ xm \in Seq(T) /\ Len(xm) = Len(x) + Len(m)
        /\ \A i \in 1 .. Len(x) : xm[i] = x[i]
        /\ \A i \in 1 .. Len(m) : xm[Len(x) + i] = m[i]
    BY <2>a, Joined
  <2> HIDE DEF xm
  <2>b. xm \in Seq(T)
    BY <2>5
  <2>6. /\ xmy \in Seq(T) /\ Len(xmy) = Len(xm) + Len(y)
        /\ \A i \in 1 .. Len(xm) : xmy[i] = xm[i]
        /\ \A i \in 1 .. Len(y) : xmy[Len(xm) + i] = y[i]
    BY <2>a, <2>b, Joined
  <2> HIDE DEF xmy
  <2>7. Len(xmy) = Len(t) /\ Len(xm) = b
    BY <1>0, <2>1, <2>2, <2>3, <2>5, <2>6
  <2>8. ASSUME NEW i \in 1 .. Len(xmy) PROVE xmy[i] = t[i]
    <3>1. CASE i \in 1 .. a - 1
      <4>1. i \in 1 .. Len(x) /\ i \in 1 .. Len(xm)
        BY <1>0, <2>1, <2>7, <3>1
      <4>2. xmy[i] = xm[i]
        BY <2>6, <4>1
      <4>3. xm[i] = x[i]
        BY <2>5, <4>1
      <4>4. x[i] = t[i]
        BY <2>1, <3>1
      <4> QED
        BY <4>2, <4>3, <4>4
    <3>2. CASE i \in a .. b
      <4> DEFINE k == i - (a - 1)
      <4>1. k \in 1 .. b - a + 1 /\ a - 1 + k = i /\ i \in 1 .. b
        BY <1>0, <3>2
      <4> HIDE DEF k
      <4>2. xmy[i] = xm[i]
        BY <2>6, <2>7, <4>1
      <4>3. xm[i] = m[k]
        BY <2>1, <2>3, <2>5, <4>1
      <4>4. m[k] = t[i]
        BY <2>3, <4>1
      <4> QED
        BY <4>2, <4>3, <4>4
    <3>3. CASE i \in b + 1 .. Len(t)
      <4> DEFINE k == i - b
      <4>1. k \in 1 .. Len(t) - b /\ b + k = i
        BY <1>0, <3>3
      <4> HIDE DEF k
      <4>2. xmy[i] = y[k]
        BY <2>2, <2>6, <2>7, <4>1
      <4>3. y[k] = t[i]
        BY <2>2, <4>1
      <4> QED
        BY <4>2, <4>3
    <3> QED
      BY <1>0, <2>7, <3>1, <3>2, <3>3
  <2>9. xmy = t
    BY <2>6, <2>7, <2>8, SameSeq
  <2>10. /\ \A i \in 1 .. Len(x) : x[i] \notin S
         /\ \A i \in 1 .. Len(y) : y[i] \notin S
    <3>1. \A i \in 1 .. Len(x) : x[i] \in Newlines
      BY <1>2, <2>1
    <3>2. ASSUME NEW i \in 1 .. Len(y) PROVE y[i] \in Newlines
      <4>1. b + i \in b + 1 .. Len(t)
        BY <1>0, <2>2
      <4> QED
        BY <1>2, <2>2, <4>1
    <3> QED
      BY <3>1, <3>2
  <2>c. m \in Seq(T)
    BY <2>3
  <2>11. Without(m, Newlines) = Keep(m, S) /\ Without(t, Newlines) = Keep(t, S) /\ Keep(m, S) \in Seq(S)
    <3>1. Without(m, Newlines) = Keep(m, S) /\ Keep(m, S) \in Seq(S)
      <4>1. Without(m, Newlines) = Keep(m, T \ Newlines)
        BY Zenon, <2>c, WithoutIs
      <4>2. Without(m, Newlines) \in Seq(T \ Newlines)
        BY Zenon, <2>c, WithoutIs
      <4> QED
        BY <4>1, <4>2
    <3>2. Without(t, Newlines) = Keep(t, S)
      BY WithoutIs
    <3> QED
      BY <3>1, <3>2
  <2> HIDE DEF S
  <2>12. Keep(x, S) = <<>> /\ Keep(y, S) = <<>>
    BY <2>1, <2>2, <2>10, KeepNone
  <2>13. Keep(xm, S) = Keep(x, S) \o Keep(m, S) /\ Keep(xmy, S) = Keep(xm, S) \o Keep(y, S)
    BY <2>1, <2>2, <2>3, <2>5, KeepConcat DEF xm, xmy
  <2> DEFINE km == Keep(m, S)
  <2>14. <<>> \o km = km /\ km \o <<>> = km
    <3> HIDE DEF km
    <3>1. km \in Seq(S)
      BY <2>11 DEF km
    <3> QED
      BY <3>1
  <2>15. Keep(xmy, S) = km
    BY <2>12, <2>13, <2>14
  <2> QED
    BY <2>3, <2>4, <2>9, <2>11, <2>15 DEF u
<1> QED
  BY <1>1, <1>2, TrimIs

-----------------------------------------------------------------------------
(* JSON *)

JsonText(t) ==
  \/ IsNumber(t)
  \/ IsString(t)
  \/ Encloses(t, "[", "]") /\ IsNumber(Trim(Inside(t)))
Meaning(t) == IF IsString(t) THEN <<"text", Unescape(Inside(t))>> ELSE <<"json", Without(t, Newlines)>>

\* Both look only at the trimmed text.
LEMMA JsonOf == ASSUME NEW text PROVE (IsJson(text) <=> JsonText(Trim(text))) /\ JsonParse(text) = Meaning(Trim(text))
<1>1. IsJson(text) <=> JsonText(Trim(text))
  BY DEF IsJson, JsonText
<1>2. JsonParse(text) = Meaning(Trim(text))
  BY Zenon DEF JsonParse, Meaning
<1> QED
  BY <1>1, <1>2

Between(o, s, c) == <<o>> \o s \o <<c>>

\* d is s, a text over T, between the characters o and c.
Surrounds(T, d, o, c, s) ==
  /\ d \in Seq(T) /\ Len(d) = Len(s) + 2 /\ Len(s) \in Nat
  /\ d[1] = o /\ d[Len(d)] = c /\ Encloses(d, o, c) /\ Inside(d) = s
  /\ \A i \in 1 .. Len(s) : d[i + 1] = s[i]
  /\ \A i \in 1 .. Len(d) : i = 1 \/ i = Len(d) \/ i - 1 \in 1 .. Len(s)

\* A text between two characters.
LEMMA Enclosed ==
  ASSUME NEW T, NEW o \in T, NEW c \in T, NEW s \in Seq(T), NEW d, d = Between(o, s, c)
  PROVE  Surrounds(T, d, o, c, s)
<1> DEFINE a == <<o>>
           z == <<c>>
           front == a \o s
           whole == front \o z
<1>1. a \in Seq(T) /\ z \in Seq(T) /\ Len(a) = 1 /\ Len(z) = 1 /\ a[1] = o /\ z[1] = c
  OBVIOUS
<1>2. d = whole
  BY DEF Between
<1> HIDE DEF a, z
<1>a. a \in Seq(T) /\ z \in Seq(T)
  BY <1>1
<1>3. /\ front \in Seq(T) /\ Len(front) = Len(a) + Len(s) /\ Len(s) \in Nat
      /\ \A i \in 1 .. Len(a) : front[i] = a[i]
      /\ \A i \in 1 .. Len(s) : front[Len(a) + i] = s[i]
  BY <1>a, Joined
<1> HIDE DEF front
<1>b. front \in Seq(T)
  BY <1>3
<1>4. /\ whole \in Seq(T) /\ Len(whole) = Len(front) + Len(z)
      /\ \A i \in 1 .. Len(front) : whole[i] = front[i]
      /\ \A i \in 1 .. Len(z) : whole[Len(front) + i] = z[i]
  <2>1. whole \in Seq(T) /\ Len(whole) = Len(front) + Len(z) /\ Len(front) \in Nat /\ Len(z) \in Nat
    BY <1>a, <1>b, Joined
  <2>2. \A i \in 1 .. Len(front) : whole[i] = front[i]
    BY <1>a, <1>b, Joined
  <2>3. ASSUME NEW i \in 1 .. Len(z) PROVE whole[Len(front) + i] = z[i]
    <3> DEFINE x == Len(front)
               y == Len(z)
               w == Len(whole)
               k == x + i
    <3>1. x \in Nat /\ y \in Nat /\ w = x + y /\ i \in 1 .. y
      BY <2>1
    <3>2. k \in 1 .. w /\ ~(k \in 1 .. x) /\ k - x = i
      <4> HIDE DEF x, y, w
      <4> QED
        BY <3>1
    <3>3. whole[k] = z[k - x]
      <4> HIDE DEF k
      <4> QED
        BY <1>a, <1>b, <3>2, Joined
    <3> HIDE DEF k, x, y, w
    <3>4. whole[k] = z[i]
      BY <3>2, <3>3
    <3> QED
      BY <3>4 DEF k, x
  <2> QED
    BY <2>1, <2>2, <2>3
<1> HIDE DEF whole
<1> DEFINE n == Len(s)
<1>5. n \in Nat /\ Len(front) = n + 1 /\ Len(d) = n + 2 /\ d \in Seq(T)
  BY <1>1, <1>2, <1>3, <1>4
<1>6. d[1] = o
  <2>1. 1 \in 1 .. Len(a) /\ 1 \in 1 .. Len(front)
    BY <1>1, <1>5
  <2>2. whole[1] = front[1]
    BY <1>4, <2>1
  <2>3. front[1] = a[1]
    BY <1>3, <2>1
  <2> QED
    BY <1>1, <1>2, <2>2, <2>3
<1>7. d[n + 2] = c
  <2>1. 1 \in 1 .. 1 /\ (n + 1) + 1 = n + 2
    BY <1>5
  <2> QED
    BY <1>1, <1>2, <1>4, <1>5, <2>1
<1>8. ASSUME NEW i \in 1 .. n PROVE d[i + 1] = s[i]
  <2>1. i + 1 \in 1 .. n + 1 /\ 1 + i = i + 1
    BY <1>5
  <2>2. d[i + 1] = front[i + 1]
    BY <1>2, <1>4, <1>5, <2>1
  <2> QED
    BY <1>1, <1>3, <2>1, <2>2
<1>9. \A i \in 1 .. n + 2 : i = 1 \/ i = n + 2 \/ i - 1 \in 1 .. n
  BY <1>5
<1>10. Encloses(d, o, c)
  <2>1. Head(d) = d[1] /\ Last(d) = d[Len(d)]
    BY <1>5 DEF Last
  <2> QED
    BY <1>5, <1>6, <1>7, <2>1 DEF Encloses
<1>11. Inside(d) = s
  <2> DEFINE m == SubSeq(d, 2, Len(d) - 1)
  <2>1. /\ m \in Seq(T) /\ Len(m) = n /\ \A i \in 1 .. n : m[i] = d[i + 1]
    BY <1>5
  <2> HIDE DEF m
  <2>2. \A i \in 1 .. n : m[i] = s[i]
    BY <1>8, <2>1
  <2>3. m = s
    BY <2>1, <2>2, SameSeq
  <2> QED
    BY <2>3 DEF Inside, m
<1> QED
  BY <1>5, <1>6, <1>7, <1>8, <1>9, <1>10, <1>11 DEF n, Surrounds

\* The characters that are escaped.
LEMMA EscapesAre ==
  /\ Special = {"cr", "lf", "quote"} /\ EscapeCodes = {"esc_r", "esc_n", "esc_quote"}
  /\ EscapeOf["cr"] = "esc_r" /\ EscapeOf["lf"] = "esc_n" /\ EscapeOf["quote"] = "esc_quote"
<1>1. Special = {"cr", "lf", "quote"}
  BY DEF Special, Newlines, Quote
<1>2. EscapeOf["cr"] = "esc_r" /\ EscapeOf["lf"] = "esc_n" /\ EscapeOf["quote"] = "esc_quote"
  BY <1>1 DEF EscapeOf
<1>3. EscapeCodes = {"esc_r", "esc_n", "esc_quote"}
  BY <1>1, <1>2 DEF EscapeCodes
<1> QED
  BY <1>1, <1>2, <1>3

\* Escaping leaves nothing to be escaped, and what had no escapes in it is read
\* as it was.
LEMMA EscapedIs ==
  ASSUME NEW T, NEW m \in Seq(T), EscapeCodes \subseteq T
  PROVE  /\ Escape(m) \in Seq(T) /\ Len(Escape(m)) = Len(m)
         /\ \A i \in 1 .. Len(Escape(m)) : Escape(m)[i] \notin Special
         /\ ToSet(m) \cap EscapeCodes = {} => Unescape(Escape(m)) = m
<1> DEFINE e == Escape(m)
           c(x) == IF x \in Special THEN EscapeOf[x] ELSE x
           u(x) == IF x \in EscapeCodes THEN CHOOSE y \in Special : EscapeOf[y] = x ELSE x
<1>1. Len(m) \in Nat /\ DOMAIN m = 1 .. Len(m) /\ \A i \in 1 .. Len(m) : m[i] \in T
  OBVIOUS
<1>2. e = [i \in 1 .. Len(m) |-> c(m[i])]
  BY <1>1 DEF Escape
<1>3. \A x \in T : c(x) \in T /\ c(x) \notin Special
  <2> TAKE x \in T
  <2>1. CASE x \in Special
    BY <2>1, EscapesAre
  <2>2. CASE x \notin Special
    BY <2>2
  <2> QED
    BY <2>1, <2>2
<1>4. \A x \in T : x \notin EscapeCodes => u(c(x)) = x
  <2> TAKE x \in T
  <2>1. CASE x \in Special
    <3>1. c(x) = EscapeOf[x] /\ c(x) \in EscapeCodes
      BY <2>1, EscapesAre
    <3>2. \A y \in Special : EscapeOf[y] = EscapeOf[x] => y = x
      BY <2>1, EscapesAre
    <3>3. u(c(x)) = CHOOSE y \in Special : EscapeOf[y] = EscapeOf[x]
      BY <3>1
    <3> DEFINE z == CHOOSE y \in Special : EscapeOf[y] = EscapeOf[x]
    <3>4. z \in Special /\ EscapeOf[z] = EscapeOf[x]
      BY <2>1
    <3> HIDE DEF z
    <3> QED
      BY <3>2, <3>3, <3>4 DEF z
  <2>2. CASE x \notin Special
    BY <2>2
  <2> QED
    BY <2>1, <2>2
<1>9. Unescape(e) = [i \in DOMAIN e |-> u(e[i])]
  BY Zenon DEF Unescape
<1> HIDE DEF c, u, e
<1>5. /\ e \in Seq(T) /\ Len(e) = Len(m) /\ DOMAIN e = 1 .. Len(m)
      /\ \A i \in 1 .. Len(m) : e[i] = c(m[i])
  BY <1>1, <1>2, <1>3
<1>6. \A i \in 1 .. Len(e) : e[i] \notin Special
  BY <1>1, <1>3, <1>5
<1>7. ASSUME ToSet(m) \cap EscapeCodes = {} PROVE Unescape(e) = m
  <2>1. \A i \in 1 .. Len(m) : m[i] \notin EscapeCodes
    BY <1>7, Elements
  <2>2. \A i \in 1 .. Len(m) : u(e[i]) = m[i]
    BY <1>1, <1>4, <1>5, <2>1
  <2>3. Unescape(e) = [i \in 1 .. Len(m) |-> m[i]]
    BY <1>5, <1>9, <2>2
  <2> DEFINE f == [i \in 1 .. Len(m) |-> m[i]]
  <2>4. f \in Seq(T) /\ Len(f) = Len(m) /\ \A i \in 1 .. Len(m) : f[i] = m[i]
    BY <1>1
  <2> HIDE DEF f
  <2>5. f = m
    BY <2>4, SameSeq
  <2> QED
    BY <2>3, <2>5 DEF f
<1> QED
  BY <1>5, <1>6, <1>7 DEF e

\* A JSON string is read as what is in it.
LEMMA QuotedIs ==
  ASSUME NEW T, Quote \in T, NEW s \in Seq(T), \A i \in 1 .. Len(s) : s[i] \notin Special,
         NEW d, d = Between(Quote, s, Quote)
  PROVE  /\ d \in Seq(T) /\ Len(d) \in Nat \ {0}
         /\ \A i \in 1 .. Len(d) : d[i] \notin Newlines
         /\ IsJson(d) /\ JsonParse(d) = <<"text", Unescape(s)>>
<1>1. /\ d \in Seq(T) /\ Len(d) = Len(s) + 2 /\ Len(s) \in Nat
      /\ d[1] = Quote /\ d[Len(d)] = Quote /\ Encloses(d, Quote, Quote) /\ Inside(d) = s
      /\ \A i \in 1 .. Len(s) : d[i + 1] = s[i]
      /\ \A i \in 1 .. Len(d) : i = 1 \/ i = Len(d) \/ i - 1 \in 1 .. Len(s)
  <2>1. Surrounds(T, d, Quote, Quote, s)
    BY Zenon, Enclosed
  <2> QED
    BY <2>1 DEF Surrounds
<1>2. Newlines \subseteq Special /\ Quote \notin Newlines
  BY DEF Special, Newlines, Quote
<1>3. ASSUME NEW i \in 1 .. Len(d) PROVE d[i] \notin Newlines
  <2>1. CASE i = 1 \/ i = Len(d)
    BY <1>1, <1>2, <2>1
  <2>2. CASE i - 1 \in 1 .. Len(s)
    <3> DEFINE k == i - 1
    <3>1. k \in 1 .. Len(s) /\ i = k + 1
      BY <1>1, <2>2
    <3> HIDE DEF k
    <3>2. d[i] = s[k] /\ s[k] \notin Special
      BY <1>1, <3>1
    <3> QED
      BY <1>2, <3>2
  <2> QED
    BY <1>1, <2>1, <2>2
<1>4. Trim(d) = d
  <2>1. 1 \in 1 .. Len(d) /\ Len(d) \in 1 .. Len(d)
    BY <1>1
  <2>2. d[1] \notin Newlines /\ d[Len(d)] \notin Newlines
    BY <1>3, <2>1
  <2> QED
    BY <1>1, <2>2, TrimNothing
<1>5. IsString(d)
  <2>1. ToSet(s) \cap Special = {}
    BY Elements
  <2> QED
    BY <1>1, <2>1 DEF IsString
<1>6. JsonText(d) /\ Meaning(d) = <<"text", Unescape(s)>>
  <2>1. JsonText(d)
    BY Zenon, <1>5 DEF JsonText
  <2>2. Meaning(d) = <<"text", Unescape(Inside(d))>>
    BY Zenon, <1>5 DEF Meaning
  <2> QED
    BY <1>1, <2>1, <2>2
<1>7. Len(d) \in Nat \ {0}
  BY <1>1
<1> QED
  BY <1>1, <1>3, <1>4, <1>6, <1>7, JsonOf

\* A text of at least two characters is what it has inside between them.
LEMMA InsideIs ==
  ASSUME NEW T, NEW t \in Seq(T), NEW o, NEW c, Encloses(t, o, c)
  PROVE  /\ o \in T /\ c \in T /\ Len(t) >= 2 /\ Len(t) \in Nat /\ t[1] = o /\ t[Len(t)] = c
         /\ Inside(t) \in Seq(T) /\ Len(Inside(t)) = Len(t) - 2
         /\ \A i \in 1 .. Len(t) - 2 : Inside(t)[i] = t[i + 1]
         /\ t = Between(o, Inside(t), c)
<1> DEFINE m == SubSeq(t, 2, Len(t) - 1)
           n == Len(t)
           d == Between(o, m, c)
<1>1. n \in Nat /\ n >= 2 /\ t[1] = o /\ t[n] = c /\ o \in T /\ c \in T
  <2>1. n \in Nat /\ n >= 2 /\ Head(t) = o /\ Last(t) = c
    BY DEF Encloses
  <2>2. t[1] = o /\ t[n] = c
    BY <2>1 DEF Last
  <2>3. 1 \in 1 .. n /\ n \in 1 .. n
    BY <2>1
  <2> HIDE DEF n
  <2>4. \A i \in 1 .. n : t[i] \in T
    BY DEF n
  <2> QED
    BY <2>1, <2>2, <2>3, <2>4
<1>2. m \in Seq(T) /\ Len(m) = n - 2 /\ \A i \in 1 .. n - 2 : m[i] = t[i + 1]
  <2> DEFINE x == 1
             y == n - 1
             w == SubSeq(t, x + 1, y)
  <2>1. x \in 0 .. n /\ y \in x .. n /\ y - x = n - 2 /\ x + 1 = 2 /\ n \in Nat
    BY <1>1
  <2>2. w \in Seq(T) /\ Len(w) = y - x /\ \A i \in 1 .. y - x : w[i] = t[x + i]
    <3> HIDE DEF x, y
    <3> QED
      BY <2>1
  <2>3. w = m
    BY <2>1
  <2> HIDE DEF w, m
  <2>4. \A i \in 1 .. n - 2 : x + i = i + 1
    BY <1>1
  <2> HIDE DEF x, y
  <2> QED
    BY <2>1, <2>2, <2>3, <2>4
<1>3. Inside(t) = m
  BY DEF Inside
<1> HIDE DEF m, n
<1>4. Surrounds(T, d, o, c, m)
  BY Zenon, <1>1, <1>2, Enclosed
<1> HIDE DEF d
<1>5. /\ d \in Seq(T) /\ Len(d) = n /\ d[1] = o /\ d[n] = c
      /\ \A i \in 1 .. n - 2 : d[i + 1] = m[i]
  BY <1>1, <1>2, <1>4 DEF Surrounds
<1>6. ASSUME NEW i \in 1 .. n PROVE d[i] = t[i]
  <2>1. CASE i = 1 \/ i = n
    BY <1>1, <1>5, <2>1
  <2>2. CASE i # 1 /\ i # n
    <3> DEFINE k == i - 1
    <3>1. k \in 1 .. n - 2 /\ k + 1 = i
      BY <1>1, <2>2
    <3> HIDE DEF k
    <3>2. d[k + 1] = m[k] /\ m[k] = t[k + 1]
      BY <1>2, <1>5, <3>1
    <3> QED
      BY <3>1, <3>2
  <2> QED
    BY <2>1, <2>2
<1>7. d = t
  BY <1>5, <1>6, SameSeq DEF n
<1> QED
  BY <1>1, <1>2, <1>3, <1>7 DEF d, n

\* Without takes the characters at the ends as they are.
LEMMA WithoutBetween ==
  ASSUME NEW T, NEW o \in T, NEW c \in T, NEW s \in Seq(T), o \notin Newlines, c \notin Newlines
  PROVE  Without(Between(o, s, c), Newlines) = Between(o, Without(s, Newlines), c)
<1> DEFINE S == T \ Newlines
           a == <<o>>
           z == <<c>>
           front == a \o s
           d == front \o z
           k == Keep(s, S)
<1>1. /\ a \in Seq(T) /\ z \in Seq(T) /\ Len(a) = 1 /\ Len(z) = 1
      /\ \A i \in 1 .. Len(a) : a[i] \in S
      /\ \A i \in 1 .. Len(z) : z[i] \in S
  OBVIOUS
<1>2. d = Between(o, s, c) /\ Between(o, k, c) = (a \o k) \o z
  BY DEF Between
<1>a. Surrounds(T, d, o, c, s)
  BY Zenon, <1>2, Enclosed
<1> HIDE DEF a, z
<1>3. front \in Seq(T)
  BY <1>1, Joined
<1> HIDE DEF front
<1>4. d \in Seq(T)
  BY <1>a DEF Surrounds
<1>5. Without(s, Newlines) = k
  BY Zenon, WithoutIs
<1> HIDE DEF d
<1>6. Without(d, Newlines) = Keep(d, S)
  BY Zenon, <1>4, WithoutIs
<1> HIDE DEF S
<1>7. Keep(a, S) = a /\ Keep(z, S) = z
  <2>1. Keep(a, S) = a
    BY Zenon, <1>1, KeepAll
  <2>2. Keep(z, S) = z
    BY Zenon, <1>1, KeepAll
  <2> QED
    BY <2>1, <2>2
<1>8. Keep(front, S) = a \o k
  <2>1. Keep(a \o s, S) = Keep(a, S) \o Keep(s, S)
    BY Zenon, <1>1, KeepConcat
  <2> QED
    BY <1>7, <2>1 DEF front
<1>9. Keep(d, S) = (a \o k) \o z
  <2>1. Keep(front \o z, S) = Keep(front, S) \o Keep(z, S)
    BY Zenon, <1>1, <1>3, KeepConcat
  <2> QED
    BY <1>7, <1>8, <2>1 DEF d
<1> QED
  BY <1>2, <1>5, <1>6, <1>9

\* A JSON message goes on one line and means the same there.
LEMMA JsonLine ==
  ASSUME NEW T, NEW m \in Seq(T), IsJson(m), NEW d, d = Without(m, Newlines)
  PROVE  /\ d \in Seq(T) /\ Len(d) \in Nat \ {0}
         /\ \A i \in 1 .. Len(d) : d[i] \notin Newlines
         /\ IsJson(d) /\ JsonParse(d) = JsonParse(m)
<1> DEFINE t == Trim(m)
<1>1. JsonText(t) /\ JsonParse(m) = Meaning(t)
  BY JsonOf
<1>2. t \in Seq(T) /\ d = Without(t, Newlines)
  BY TrimWithout
<1> HIDE DEF t
<1>3. /\ d \in Seq(T) /\ Len(d) \in Nat
      /\ \A i \in 1 .. Len(d) : d[i] \notin Newlines
      /\ (\A i \in 1 .. Len(t) : t[i] \notin Newlines) => d = t
  <2>0. Without(t, Newlines) \in Seq(T \ Newlines)
    BY Zenon, <1>2, WithoutIs
  <2>1. d \in Seq(T \ Newlines)
    BY <1>2, <2>0
  <2>2. (\A i \in 1 .. Len(t) : t[i] \notin Newlines) => Without(t, Newlines) = t
    BY <1>2, WithoutIs
  <2> HIDE DEF t
  <2>3. d \in Seq(T) /\ Len(d) \in Nat /\ \A i \in 1 .. Len(d) : d[i] \notin Newlines
    BY <2>1
  <2> QED
    BY <1>2, <2>2, <2>3
<1>4. Trim(d) = d
  <2>1. Len(d) >= 1 => 1 \in 1 .. Len(d) /\ Len(d) \in 1 .. Len(d)
    BY <1>3
  <2> QED
    BY <1>3, <2>1, TrimNothing
<1>5. Without(d, Newlines) = d
  BY <1>3, WithoutIs
<1>6. \A n \in Seq(T) : IsNumber(n) => \A i \in 1 .. Len(n) : n[i] \notin Newlines
  <2> SUFFICES ASSUME NEW n \in Seq(T), IsNumber(n), NEW i \in 1 .. Len(n) PROVE n[i] \notin Newlines
    OBVIOUS
  <2>1. n[i] \in ToSet(n)
    BY Elements
  <2> QED
    BY <2>1 DEF IsNumber, Newlines
<1>7. ASSUME \A i \in 1 .. Len(t) : t[i] \notin Newlines PROVE JsonText(d) /\ Meaning(d) = Meaning(t)
  <2>1. d = t
    BY <1>3, <1>7
  <2> QED
    BY <1>1, <2>1
<1>8. ASSUME IsNumber(t) PROVE JsonText(d) /\ Meaning(d) = Meaning(t)
  BY <1>2, <1>6, <1>7, <1>8
<1>9. ASSUME IsString(t) PROVE JsonText(d) /\ Meaning(d) = Meaning(t)
  <2>1. Encloses(t, Quote, Quote) /\ ToSet(Inside(t)) \cap Special = {}
    BY <1>9 DEF IsString
  <2>2. /\ Len(t) >= 2 /\ Len(t) \in Nat /\ t[1] = Quote /\ t[Len(t)] = Quote
        /\ Inside(t) \in Seq(T) /\ Len(Inside(t)) = Len(t) - 2
        /\ \A i \in 1 .. Len(t) - 2 : Inside(t)[i] = t[i + 1]
    BY <1>2, <2>1, InsideIs
  <2>3. Newlines \subseteq Special /\ Quote \notin Newlines
    BY DEF Special, Newlines, Quote
  <2>4. \A i \in 1 .. Len(Inside(t)) : Inside(t)[i] \notin Special
    BY <2>1, <2>2, Elements
  <2>5. ASSUME NEW i \in 1 .. Len(t) PROVE t[i] \notin Newlines
    <3>1. CASE i = 1 \/ i = Len(t)
      BY <2>2, <2>3, <3>1
    <3>2. CASE i # 1 /\ i # Len(t)
      <4> DEFINE k == i - 1
      <4>1. k \in 1 .. Len(t) - 2 /\ k + 1 = i
        BY <2>2, <3>2
      <4> HIDE DEF k
      <4>2. Inside(t)[k] = t[i] /\ Inside(t)[k] \notin Special
        BY <2>2, <2>4, <4>1
      <4> QED
        BY <2>3, <4>2
    <3> QED
      BY <3>1, <3>2
  <2>6. JsonText(d) /\ Meaning(d) = Meaning(t)
    BY <1>7, <2>5
  <2> QED
    BY <2>6
<1>10. ASSUME Encloses(t, "[", "]") /\ IsNumber(Trim(Inside(t))) PROVE JsonText(d) /\ Meaning(d) = Meaning(t)
  <2> DEFINE s == Inside(t)
             n == Trim(s)
             o == "["
             c == "]"
  <2>1. /\ o \in T /\ c \in T /\ Len(t) >= 2 /\ t[1] = o /\ s \in Seq(T)
        /\ t = Between(o, s, c)
    BY <1>2, <1>10, InsideIs
  <2>2. o \notin Newlines /\ c \notin Newlines /\ o # Quote
    BY DEF Newlines, Quote
  <2>b. IsNumber(n)
    BY <1>10
  <2> HIDE DEF s, o, c
  <2>3. n \in Seq(T) /\ Without(n, Newlines) = Without(s, Newlines)
    BY <2>1, TrimWithout
  <2> HIDE DEF n
  <2>4. \A i \in 1 .. Len(n) : n[i] \notin Newlines
    BY <1>6, <2>b, <2>3
  <2>5. Without(n, Newlines) = n
    BY <2>3, <2>4, WithoutIs
  <2>6. d = Between(o, n, c)
    <3>1. Without(Between(o, s, c), Newlines) = Between(o, Without(s, Newlines), c)
      BY <2>1, <2>2, WithoutBetween
    <3> QED
      BY <1>2, <2>1, <2>3, <2>5, <3>1
  <2>7. Surrounds(T, d, o, c, n)
    BY Zenon, <2>1, <2>3, <2>6, Enclosed
  <2>8. Encloses(d, o, c) /\ Inside(d) = n /\ d[1] = o
    BY <2>7 DEF Surrounds
  <2>9. Trim(n) = n
    <3>1. Len(n) \in Nat
      BY <2>3
    <3>2. Len(n) >= 1 => 1 \in 1 .. Len(n) /\ Len(n) \in 1 .. Len(n)
      BY <3>1
    <3> QED
      BY <2>3, <2>4, <3>2, TrimNothing
  <2>10. IsNumber(Trim(Inside(d)))
    BY <2>b, <2>8, <2>9
  <2>11. JsonText(d)
    BY Zenon, <2>8, <2>10 DEF JsonText, o, c
  <2>12. \A w \in Seq(T) : w[1] = o => ~IsString(w)
    <3> SUFFICES ASSUME NEW w \in Seq(T), w[1] = o, IsString(w) PROVE FALSE
      OBVIOUS
    <3>1. Encloses(w, Quote, Quote)
      BY DEF IsString
    <3>2. w[1] = Quote
      BY <3>1, InsideIs
    <3> QED
      BY <2>2, <3>2
  <2>13. ~IsString(d) /\ ~IsString(t)
    BY <1>2, <1>3, <2>1, <2>8, <2>12
  <2>14. Meaning(d) = <<"json", Without(d, Newlines)>> /\ Meaning(t) = <<"json", Without(t, Newlines)>>
    BY Zenon, <2>13 DEF Meaning
  <2> QED
    BY <1>2, <1>5, <2>11, <2>14
<1>11. JsonText(d) /\ Meaning(d) = Meaning(t)
  <2>1. \/ IsNumber(t)
        \/ IsString(t)
        \/ Encloses(t, "[", "]") /\ IsNumber(Trim(Inside(t)))
    BY Zenon, <1>1 DEF JsonText
  <2> QED
    BY <1>7, <1>8, <1>9, <1>10, <2>1
<1>12. IsJson(d) /\ JsonParse(d) = JsonParse(m)
  BY <1>1, <1>4, <1>11, JsonOf
<1>13. Len(d) # 0
  <2> SUFFICES ASSUME Len(d) = 0 PROVE FALSE
    OBVIOUS
  <2>1. d = <<>>
    BY <1>3
  <2>2. ~IsNumber(d) /\ ~(Len(d) >= 2)
    BY <2>1 DEF IsNumber
  <2>3. \A x, y : ~Encloses(d, x, y)
    BY <2>2 DEF Encloses
  <2>4. ~IsString(d)
    BY <2>3 DEF IsString
  <2> QED
    BY Zenon, <1>11, <2>2, <2>3, <2>4 DEF JsonText
<1> QED
  BY <1>3, <1>12, <1>13

-----------------------------------------------------------------------------
(* Events *)

Words == Symbol \cup EscapeCodes \cup {"message", "pmessage", "error", "reason", ",", Quote}

\* A text on one line.
Clean(t) == t \in Seq(Words) /\ \A i \in 1 .. Len(t) : t[i] \notin Newlines

\* The payload of an event: a JSON text on one line.
PayloadFor(m, d) ==
  /\ Clean(d) /\ Len(d) \in Nat \ {0} /\ IsJson(d)
  /\ JsonParse(d) = IF IsJson(m) THEN JsonParse(m) ELSE <<"text", m>>

\* A message becomes a payload that means the message.
LEMMA PayloadIs ==
  ASSUME NEW m \in Seq(Words), IsJson(m) \/ ToSet(m) \cap EscapeCodes = {}
  PROVE  PayloadFor(m, NormalizeMessagePayload(m))
<1> DEFINE d == NormalizeMessagePayload(m)
<1>1. CASE IsJson(m)
  <2>1. d = Without(m, Newlines)
    BY <1>1 DEF NormalizeMessagePayload
  <2> HIDE DEF d
  <2>2. /\ d \in Seq(Words) /\ Len(d) \in Nat \ {0}
        /\ \A i \in 1 .. Len(d) : d[i] \notin Newlines
        /\ IsJson(d) /\ JsonParse(d) = JsonParse(m)
    BY <1>1, <2>1, JsonLine
  <2> QED
    BY <1>1, <2>2 DEF PayloadFor, Clean, d
<1>2. CASE ~IsJson(m)
  <2> DEFINE s == Escape(m)
  <2>1. d = Between(Quote, s, Quote)
    BY <1>2 DEF NormalizeMessagePayload, Between
  <2>2. EscapeCodes \subseteq Words /\ Quote \in Words
    BY DEF Words
  <2>3. /\ s \in Seq(Words) /\ Unescape(s) = m
        /\ \A i \in 1 .. Len(s) : s[i] \notin Special
    BY <1>2, <2>2, EscapedIs
  <2> HIDE DEF d, s
  <2>4. /\ d \in Seq(Words) /\ Len(d) \in Nat \ {0}
        /\ \A i \in 1 .. Len(d) : d[i] \notin Newlines
        /\ IsJson(d) /\ JsonParse(d) = <<"text", Unescape(s)>>
    BY <2>1, <2>2, <2>3, QuotedIs
  <2> QED
    BY <1>2, <2>3, <2>4 DEF PayloadFor, Clean, d
<1> QED
  BY <1>1, <1>2

-----------------------------------------------------------------------------
(* Fields *)

FieldOf(e, from, to) == SubSeq(e, from + 1, to - 1)

\* s lies between the offsets from and to.
Lies(e, from, to, s) ==
  /\ e \in Seq(Words) /\ s \in Seq(Words)
  /\ from \in Nat /\ to = from + Len(s) + 1 /\ to <= Len(e) + 1
  /\ \A i \in 1 .. Len(s) : e[from + i] = s[i]

\* What lies between two offsets is the field between them.
LEMMA FieldIs == ASSUME NEW e, NEW from, NEW to, NEW s, Lies(e, from, to, s) PROVE FieldOf(e, from, to) = s
<1> DEFINE y == to - 1
           f == SubSeq(e, from + 1, y)
           n == Len(s)
<1>1. /\ e \in Seq(Words) /\ s \in Seq(Words) /\ from \in Nat /\ n \in Nat /\ Len(e) \in Nat
      /\ y = from + n /\ y <= Len(e) /\ \A i \in 1 .. n : e[from + i] = s[i]
  BY DEF Lies
<1>2. FieldOf(e, from, to) = f
  BY DEF FieldOf
<1> HIDE DEF y, n
<1>3. f \in Seq(Words) /\ Len(f) = n /\ \A i \in 1 .. n : f[i] = e[from + i]
  <2>1. from \in 0 .. Len(e) /\ y \in from .. Len(e) /\ y - from = n
    BY <1>1
  <2>2. f \in Seq(Words) /\ Len(f) = y - from /\ \A i \in 1 .. y - from : f[i] = e[from + i]
    BY <1>1, <2>1
  <2> HIDE DEF f
  <2> QED
    BY <2>1, <2>2
<1> HIDE DEF f
<1>4. f = s
  BY <1>1, <1>3, SameSeq DEF n
<1> QED
  BY <1>2, <1>4

IsComma(x) == x = ","

\* A field that a comma ends.
LiesBefore(e, from, to, s) ==
  /\ Lies(e, from, to, s) /\ to <= Len(e) /\ IsComma(e[to])
  /\ \A i \in 1 .. Len(s) : ~IsComma(s[i])

\* A field without commas ends at the first comma behind its start.
LEMMA CommaIs ==
  ASSUME NEW e, NEW from, NEW to, NEW s, LiesBefore(e, from, to, s)
  PROVE  CommaAfter(e, from) = to
<1> DEFINE S == {j \in from + 1 .. Len(e) : IsComma(e[j])} \cup {Len(e) + 1}
           m == Min(S)
           n == Len(s)
<1>a. /\ e \in Seq(Words) /\ s \in Seq(Words) /\ from \in Nat /\ to = from + n + 1
      /\ \A i \in 1 .. n : e[from + i] = s[i]
      /\ to <= Len(e) /\ IsComma(e[to]) /\ \A i \in 1 .. n : ~IsComma(s[i])
  BY DEF Lies, LiesBefore
<1>b. n \in Nat /\ Len(e) \in Nat
  BY <1>a
<1>1. /\ from \in Nat /\ n \in Nat /\ Len(e) \in Nat /\ to = from + n + 1
      /\ \A i \in 1 .. n : e[from + i] = s[i]
      /\ to <= Len(e) /\ IsComma(e[to]) /\ \A i \in 1 .. n : ~IsComma(s[i])
  BY <1>a, <1>b
<1>2. CommaAfter(e, from) = m
  BY Zenon DEF CommaAfter, IsComma
<1>3. S \in SUBSET (1 .. Len(e) + 1) /\ to \in S
  BY <1>1
<1>4. \A j \in S : j \in Nat /\ j >= from + 1 /\ (j = Len(e) + 1 \/ IsComma(e[j]))
  BY <1>1
<1> HIDE DEF S
<1>5. m \in S /\ \A j \in S : m <= j
  <2>1. Len(e) + 1 \in Nat /\ S # {}
    BY <1>1, <1>3
  <2> DEFINE w == Len(e) + 1
  <2>2. w \in Nat /\ S \in SUBSET (1 .. w)
    BY <1>3, <2>1
  <2> HIDE DEF w
  <2> QED
    BY <2>1, <2>2, MinMaxAre
<1> HIDE DEF m
<1>6. m \in Nat /\ m >= from + 1 /\ (m = Len(e) + 1 \/ IsComma(e[m])) /\ m <= to
  BY <1>3, <1>4, <1>5
<1>7. m = to
  <2> SUFFICES ASSUME m # to PROVE FALSE
    OBVIOUS
  <2> DEFINE k == m - from
  <2>1. k \in 1 .. n /\ from + k = m /\ m # Len(e) + 1
    BY <1>1, <1>6
  <2> HIDE DEF k
  <2>2. e[m] = s[k] /\ ~IsComma(s[k])
    BY <1>1, <2>1 DEF n
  <2> QED
    BY <1>6, <2>1, <2>2
<1> QED
  BY <1>2, <1>7

CommaJoin(a, b) == a \o Comma \o b

\* e is a, a comma and b.
Adds(e, a, b) ==
  /\ e \in Seq(Words) /\ Len(a) \in Nat /\ Len(b) \in Nat /\ Len(e) = Len(a) + 1 + Len(b)
  /\ IsComma(e[Len(a) + 1]) /\ Lies(e, Len(a) + 1, Len(e) + 1, b)
  /\ \A i \in 1 .. Len(a) : e[i] = a[i]

\* One more field at the end.
LEMMA FieldAdded == ASSUME NEW a \in Seq(Words), NEW b \in Seq(Words) PROVE Adds(CommaJoin(a, b), a, b)
<1> DEFINE z == Comma
           az == a \o z
           w == az \o b
           e == CommaJoin(a, b)
           n == Len(a)
<1>1. z \in Seq(Words) /\ Len(z) = 1 /\ IsComma(z[1])
  <2> DEFINE x == ","
  <2>1. x \in Words /\ IsComma(x)
    BY DEF Words, IsComma
  <2>2. z = <<x>>
    BY DEF Comma
  <2> HIDE DEF x, z
  <2>3. <<x>> \in Seq(Words) /\ Len(<<x>>) = 1 /\ <<x>>[1] = x
    BY <2>1
  <2> QED
    BY <2>1, <2>2, <2>3
<1>2. e = w
  BY DEF CommaJoin
<1> HIDE DEF z
<1>a. z \in Seq(Words)
  BY <1>1
<1>3. /\ az \in Seq(Words) /\ Len(az) = n + Len(z) /\ n \in Nat
      /\ \A i \in 1 .. n : az[i] = a[i]
      /\ \A i \in 1 .. Len(z) : az[n + i] = z[i]
  BY <1>a, Joined
<1> HIDE DEF az
<1>b. az \in Seq(Words)
  BY <1>3
<1>4. /\ w \in Seq(Words) /\ Len(w) = Len(az) + Len(b) /\ Len(b) \in Nat
      /\ \A i \in 1 .. Len(az) : w[i] = az[i]
      /\ \A i \in 1 .. Len(b) : w[Len(az) + i] = b[i]
  BY <1>b, Joined
<1> HIDE DEF w, n, e
<1>5. Len(az) = n + 1 /\ Len(e) = n + 1 + Len(b) /\ e \in Seq(Words)
  BY <1>1, <1>2, <1>3, <1>4
<1>6. IsComma(e[n + 1])
  <2>1. 1 \in 1 .. Len(z) /\ n + 1 \in 1 .. Len(az)
    BY <1>1, <1>3, <1>5
  <2>2. w[n + 1] = az[n + 1] /\ az[n + 1] = z[1]
    BY <1>3, <1>4, <2>1
  <2> QED
    BY <1>1, <1>2, <2>2
<1>7. \A i \in 1 .. n : e[i] = a[i]
  <2> TAKE i \in 1 .. n
  <2>1. i \in 1 .. Len(az)
    BY <1>3, <1>5
  <2> QED
    BY <1>2, <1>3, <1>4, <2>1
<1>8. Lies(e, n + 1, Len(e) + 1, b)
  <2>1. \A i \in 1 .. Len(b) : e[n + 1 + i] = b[i]
    BY <1>2, <1>4, <1>5
  <2>2. n + 1 \in Nat /\ Len(e) + 1 = (n + 1) + Len(b) + 1
    BY <1>3, <1>4, <1>5
  <2> QED
    BY <1>5, <2>1, <2>2 DEF Lies
<1> QED
  BY <1>3, <1>4, <1>5, <1>6, <1>7, <1>8 DEF n, e, Adds

\* The fields before it stay where they are.
LEMMA FieldKept ==
  ASSUME NEW a, NEW b \in Seq(Words), NEW e, e = CommaJoin(a, b),
         NEW from, NEW to, NEW s, Lies(a, from, to, s)
  PROVE  Lies(e, from, to, s)
<1>1. /\ a \in Seq(Words) /\ s \in Seq(Words) /\ Len(a) \in Nat /\ Len(s) \in Nat
      /\ from \in Nat /\ to = from + Len(s) + 1 /\ to <= Len(a) + 1
      /\ \A i \in 1 .. Len(s) : a[from + i] = s[i]
  BY DEF Lies
<1>2. /\ e \in Seq(Words) /\ Len(b) \in Nat /\ Len(e) = Len(a) + 1 + Len(b)
      /\ \A i \in 1 .. Len(a) : e[i] = a[i]
  <2>1. Adds(e, a, b)
    BY <1>1, FieldAdded
  <2> QED
    BY <2>1 DEF Adds
<1>3. \A i \in 1 .. Len(s) : from + i \in 1 .. Len(a)
  BY <1>1
<1>4. \A i \in 1 .. Len(s) : e[from + i] = s[i]
  BY <1>1, <1>2, <1>3
<1>5. to <= Len(e) + 1
  BY <1>1, <1>2
<1> QED
  BY <1>1, <1>2, <1>4, <1>5 DEF Lies

\* Texts on one line make one line.
LEMMA CleanJoin == ASSUME NEW a, NEW b, Clean(a), Clean(b) PROVE Clean(CommaJoin(a, b))
<1> DEFINE e == CommaJoin(a, b)
<1>1. /\ a \in Seq(Words) /\ b \in Seq(Words)
      /\ \A i \in 1 .. Len(a) : a[i] \notin Newlines
      /\ \A i \in 1 .. Len(b) : b[i] \notin Newlines
  BY DEF Clean
<1> HIDE DEF e
<1>2. /\ e \in Seq(Words) /\ Len(a) \in Nat /\ Len(b) \in Nat /\ Len(e) = Len(a) + 1 + Len(b)
      /\ IsComma(e[Len(a) + 1]) /\ Lies(e, Len(a) + 1, Len(e) + 1, b)
      /\ \A i \in 1 .. Len(a) : e[i] = a[i]
  <2>1. Adds(e, a, b)
    BY <1>1, FieldAdded DEF e
  <2> QED
    BY <2>1 DEF Adds
<1>3. \A i \in 1 .. Len(b) : e[Len(a) + 1 + i] = b[i]
  BY <1>2 DEF Lies
<1>4. ASSUME NEW i \in 1 .. Len(e) PROVE e[i] \notin Newlines
  <2>1. CASE i \in 1 .. Len(a)
    BY <1>1, <1>2, <2>1
  <2>2. CASE i = Len(a) + 1
    BY <1>2, <2>2 DEF Newlines, IsComma
  <2>3. CASE i > Len(a) + 1
    <3> DEFINE k == i - (Len(a) + 1)
    <3>1. k \in 1 .. Len(b) /\ Len(a) + 1 + k = i
      BY <1>2, <2>3
    <3> HIDE DEF k
    <3> QED
      BY <1>1, <1>3, <3>1
  <2> QED
    BY <1>2, <2>1, <2>2, <2>3
<1> QED
  BY <1>2, <1>4 DEF Clean, e

\* What the SDK reads, by the places of the first three commas.
Reading(e, first, second, third) ==
  LET isPattern == e[1] = "pmessage"
      fields == IF isPattern THEN <<FieldOf(e, 0, first), FieldOf(e, first, second), FieldOf(e, second, third)>>
                             ELSE <<FieldOf(e, 0, first), FieldOf(e, first, second)>>
      last == IF isPattern THEN third ELSE second
      data == SubSeq(e, last + 1, Len(e))
  IN  IF last > Len(e) \/ HasControlCharacters(e) \/ ~IsJson(data) THEN <<"unreadable">>
      ELSE <<fields, JsonParse(data)>>

\* The end of an event is its payload.
Tells(e, last, d) == Clean(e) /\ Lies(e, last, Len(e) + 1, d) /\ last <= Len(e) /\ IsJson(d)

\* An event with a payload is readable.
LEMMA TellsIs ==
  ASSUME NEW e, NEW last, NEW d, Tells(e, last, d)
  PROVE  ~(last > Len(e)) /\ ~HasControlCharacters(e) /\ SubSeq(e, last + 1, Len(e)) = d /\ IsJson(d)
<1>1. /\ e \in Seq(Words) /\ Lies(e, last, Len(e) + 1, d) /\ last \in Nat /\ last <= Len(e) /\ IsJson(d)
      /\ \A i \in 1 .. Len(e) : e[i] \notin Newlines
  BY DEF Tells, Clean, Lies
<1>2. Len(e) \in Nat
  BY <1>1
<1>3. ~HasControlCharacters(e)
  <2>1. ToSet(e) \cap Newlines = {}
    BY <1>1, Elements
  <2> QED
    BY <2>1 DEF HasControlCharacters
<1>4. SubSeq(e, last + 1, Len(e)) = d
  <2> DEFINE z == Len(e) + 1
  <2>1. z - 1 = Len(e)
    BY <1>2
  <2>2. FieldOf(e, last, z) = d
    BY <1>1, FieldIs
  <2> HIDE DEF z
  <2> QED
    BY <2>1, <2>2 DEF FieldOf
<1>5. ~(last > Len(e))
  BY <1>1, <1>2
<1> QED
  BY <1>1, <1>3, <1>4, <1>5

\* The commas decide what is read.
LEMMA ReadingIs ==
  ASSUME NEW e
  PROVE  SdkReads(e) = Reading(e, CommaAfter(e, 0), CommaAfter(e, CommaAfter(e, 0)),
                               CommaAfter(e, CommaAfter(e, CommaAfter(e, 0))))
BY Zenon DEF SdkReads, Reading, FieldOf

\* An event of two fields and a payload.
LEMMA ReadTwo ==
  ASSUME NEW e, e[1] # "pmessage", NEW k, NEW c, NEW d, NEW x, NEW y,
         LiesBefore(e, 0, x, k), LiesBefore(e, x, y, c), Tells(e, y, d)
  PROVE  SdkReads(e) = << <<k, c>>, JsonParse(d)>>
<1> DEFINE z == CommaAfter(e, y)
           data == SubSeq(e, y + 1, Len(e))
<1>1. CommaAfter(e, 0) = x /\ CommaAfter(e, x) = y
  BY CommaIs
<1>2. SdkReads(e) = Reading(e, x, y, z)
  BY <1>1, ReadingIs
<1>3. ~(y > Len(e)) /\ ~HasControlCharacters(e) /\ data = d /\ IsJson(d)
  BY TellsIs
<1>4. FieldOf(e, 0, x) = k /\ FieldOf(e, x, y) = c
  BY FieldIs DEF LiesBefore
<1> HIDE DEF z
<1>5. Reading(e, x, y, z) = IF y > Len(e) \/ HasControlCharacters(e) \/ ~IsJson(data) THEN <<"unreadable">>
                            ELSE << <<FieldOf(e, 0, x), FieldOf(e, x, y)>>, JsonParse(data)>>
  BY Zenon DEF Reading
<1> HIDE DEF data
<1>6. Reading(e, x, y, z) = << <<FieldOf(e, 0, x), FieldOf(e, x, y)>>, JsonParse(data)>>
  BY Zenon, <1>3, <1>5
<1> QED
  BY Zenon, <1>2, <1>3, <1>4, <1>6

\* An event of three fields and a payload.
LEMMA ReadThree ==
  ASSUME NEW e, e[1] = "pmessage", NEW k, NEW p, NEW c, NEW d, NEW x, NEW y, NEW z,
         LiesBefore(e, 0, x, k), LiesBefore(e, x, y, p), LiesBefore(e, y, z, c), Tells(e, z, d)
  PROVE  SdkReads(e) = << <<k, p, c>>, JsonParse(d)>>
<1> DEFINE data == SubSeq(e, z + 1, Len(e))
<1>1. CommaAfter(e, 0) = x /\ CommaAfter(e, x) = y /\ CommaAfter(e, y) = z
  BY CommaIs
<1>2. SdkReads(e) = Reading(e, x, y, z)
  BY <1>1, ReadingIs
<1>3. ~(z > Len(e)) /\ ~HasControlCharacters(e) /\ data = d /\ IsJson(d)
  BY TellsIs
<1>4. FieldOf(e, 0, x) = k /\ FieldOf(e, x, y) = p /\ FieldOf(e, y, z) = c
  BY FieldIs DEF LiesBefore
<1>5. Reading(e, x, y, z) = IF z > Len(e) \/ HasControlCharacters(e) \/ ~IsJson(data) THEN <<"unreadable">>
                            ELSE << <<FieldOf(e, 0, x), FieldOf(e, x, y), FieldOf(e, y, z)>>, JsonParse(data)>>
  BY Zenon DEF Reading
<1> HIDE DEF data
<1>6. Reading(e, x, y, z) = << <<FieldOf(e, 0, x), FieldOf(e, x, y), FieldOf(e, y, z)>>, JsonParse(data)>>
  BY Zenon, <1>3, <1>5
<1> QED
  BY Zenon, <1>2, <1>3, <1>4, <1>6

-----------------------------------------------------------------------------
(* The formats *)

\* A name that a field can carry, and a payload.
Name(c) == Clean(c) /\ \A i \in 1 .. Len(c) : ~IsComma(c[i])
Payload(d) == Clean(d) /\ Len(d) \in Nat \ {0} /\ IsJson(d)

\* A comma ends what was the last field.
LEMMA FieldEnds ==
  ASSUME NEW a, NEW b, Clean(a), Clean(b), NEW from, NEW s, Lies(a, from, Len(a) + 1, s), Name(s)
  PROVE  LiesBefore(CommaJoin(a, b), from, Len(a) + 1, s)
<1> DEFINE e == CommaJoin(a, b)
<1>1. a \in Seq(Words) /\ b \in Seq(Words)
  BY DEF Clean
<1>2. Adds(e, a, b)
  BY <1>1, FieldAdded
<1>3. Lies(e, from, Len(a) + 1, s)
  BY <1>1, FieldKept
<1> HIDE DEF e
<1>4. Len(a) + 1 <= Len(e) /\ IsComma(e[Len(a) + 1])
  BY <1>2 DEF Adds
<1> QED
  BY <1>3, <1>4 DEF LiesBefore, Name, e

\* The fields before it end where they did.
LEMMA FieldStays ==
  ASSUME NEW a, NEW b, Clean(a), Clean(b), NEW from, NEW to, NEW s, LiesBefore(a, from, to, s)
  PROVE  LiesBefore(CommaJoin(a, b), from, to, s)
<1> DEFINE e == CommaJoin(a, b)
<1>1. a \in Seq(Words) /\ b \in Seq(Words)
  BY DEF Clean
<1>2. Adds(e, a, b)
  BY <1>1, FieldAdded
<1>3. Lies(e, from, to, s)
  BY <1>1, FieldKept DEF LiesBefore
<1> HIDE DEF e
<1>4. to \in 1 .. Len(a)
  <2>1. /\ from \in Nat /\ to = from + Len(s) + 1 /\ s \in Seq(Words) /\ a \in Seq(Words) /\ to <= Len(a)
    BY DEF LiesBefore, Lies
  <2>2. Len(s) \in Nat /\ Len(a) \in Nat
    BY <2>1
  <2> QED
    BY <2>1, <2>2
<1>5. to <= Len(e) /\ e[to] = a[to]
  BY <1>1, <1>2, <1>4 DEF Adds
<1> QED
  BY <1>3, <1>5 DEF LiesBefore, e

\* The word in front.
LEMMA FirstField ==
  ASSUME NEW k \in Words, ~IsComma(k), k \notin Newlines
  PROVE  Name(<<k>>) /\ Clean(<<k>>) /\ Len(<<k>>) = 1 /\ <<k>>[1] = k /\ Lies(<<k>>, 0, 2, <<k>>)
<1> DEFINE a == <<k>>
<1>1. a \in Seq(Words) /\ Len(a) = 1 /\ \A i \in 1 .. 1 : a[i] = k
  OBVIOUS
<1> HIDE DEF a
<1>2. a[1] = k
  BY <1>1
<1>3. Clean(a) /\ Name(a)
  BY <1>1 DEF Clean, Name
<1>4. Lies(a, 0, 2, a)
  <2>1. \A i \in 1 .. Len(a) : a[0 + i] = a[i]
    BY <1>1
  <2> QED
    BY <1>1, <2>1 DEF Lies
<1> QED
  BY <1>1, <1>2, <1>3, <1>4 DEF a

\* The first byte stays in front, and the payload ends the event.
LEMMA PayloadEnds ==
  ASSUME NEW a, NEW d, Clean(a), Len(a) >= 1, Payload(d)
  PROVE  /\ Tells(CommaJoin(a, d), Len(a) + 1, d)
         /\ CommaJoin(a, d)[1] = a[1]
<1> DEFINE e == CommaJoin(a, d)
<1>1. a \in Seq(Words) /\ d \in Seq(Words) /\ Clean(d) /\ IsJson(d) /\ Len(d) \in Nat \ {0}
  BY DEF Clean, Payload
<1>2. Adds(e, a, d)
  BY <1>1, FieldAdded
<1>3. Clean(e)
  BY <1>1, CleanJoin
<1> HIDE DEF e
<1>4. Len(a) \in Nat /\ Len(e) = Len(a) + 1 + Len(d) /\ Lies(e, Len(a) + 1, Len(e) + 1, d)
  BY <1>2 DEF Adds
<1>5. Len(a) + 1 <= Len(e) /\ 1 \in 1 .. Len(a)
  BY <1>1, <1>4
<1>6. e[1] = a[1]
  BY <1>2, <1>5 DEF Adds
<1> QED
  BY <1>1, <1>3, <1>4, <1>5, <1>6 DEF Tells, e

\* What stands in a sequence is one of its elements.
LEMMA ElementOf == ASSUME NEW T, NEW t \in Seq(T) PROVE \A i \in 1 .. Len(t) : t[i] \in ToSet(t)
BY Elements

\* A text of one character in quotes.
LEMMA ThreeOf == ASSUME NEW T, NEW a \in T, NEW b \in T PROVE <<a>> \o <<b>> \o <<a>> = <<a, b, a>>
<1> DEFINE y == <<b>>
           e == Between(a, y, a)
           f == <<a, b, a>>
<1>1. y \in Seq(T) /\ Len(y) = 1 /\ y[1] = b
  OBVIOUS
<1>2. f \in Seq(T) /\ Len(f) = 3 /\ f[1] = a /\ f[2] = b /\ f[3] = a
  OBVIOUS
<1>3. e = <<a>> \o y \o <<a>>
  BY Zenon DEF Between
<1> HIDE DEF y, f, e
<1>4. Surrounds(T, e, a, a, y)
  BY <1>1, Enclosed DEF e
<1>5. e \in Seq(T) /\ Len(e) = 3 /\ e[1] = a /\ e[2] = b /\ e[3] = a
  <2>1. /\ e \in Seq(T) /\ Len(e) = Len(y) + 2
        /\ e[1] = a /\ e[Len(e)] = a /\ \A i \in 1 .. Len(y) : e[i + 1] = y[i]
    BY <1>4 DEF Surrounds
  <2> QED
    BY <1>1, <2>1
<1>6. \A i \in 1 .. 3 : i = 1 \/ i = 2 \/ i = 3
  OBVIOUS
<1>7. e = f
  BY <1>2, <1>5, <1>6, SameSeq
<1> QED
  BY <1>3, <1>7 DEF y, f

\* One more name at the end.
LEMMA NameAdded ==
  ASSUME NEW a, NEW c, Clean(a), Len(a) >= 1, Name(c)
  PROVE  /\ Clean(CommaJoin(a, c)) /\ Len(CommaJoin(a, c)) >= 1 /\ CommaJoin(a, c)[1] = a[1]
         /\ Lies(CommaJoin(a, c), Len(a) + 1, Len(CommaJoin(a, c)) + 1, c)
<1> DEFINE e == CommaJoin(a, c)
<1>1. a \in Seq(Words) /\ c \in Seq(Words) /\ Clean(c)
  BY DEF Clean, Name
<1>2. Adds(e, a, c)
  BY <1>1, FieldAdded
<1>3. Clean(e)
  BY <1>1, CleanJoin
<1> HIDE DEF e
<1>4. /\ Len(a) \in Nat /\ Len(c) \in Nat /\ Len(e) = Len(a) + 1 + Len(c) /\ Lies(e, Len(a) + 1, Len(e) + 1, c)
      /\ \A i \in 1 .. Len(a) : e[i] = a[i]
  BY <1>2 DEF Adds
<1>5. Len(e) >= 1 /\ 1 \in 1 .. Len(a)
  BY <1>4
<1> QED
  BY <1>3, <1>4, <1>5 DEF e

\* A word, a name and a payload.
LEMMA TwoFields ==
  ASSUME NEW k \in Words, ~IsComma(k), k \notin Newlines, k # "pmessage", NEW c, Name(c), NEW d, Payload(d)
  PROVE  SdkReads(CommaJoin(CommaJoin(<<k>>, c), d)) = << << <<k>>, c>>, JsonParse(d)>>
<1> DEFINE a == <<k>>
           b == CommaJoin(a, c)
           e == CommaJoin(b, d)
           y == Len(b) + 1
<1>1. Name(a) /\ Clean(a) /\ Len(a) = 1 /\ a[1] = k /\ Lies(a, 0, 2, a)
  BY FirstField
<1>2. Clean(c) /\ Clean(d)
  BY DEF Name, Payload
<1> HIDE DEF a
<1>3. Clean(b) /\ Len(b) >= 1 /\ b[1] = k /\ Lies(b, 2, y, c)
  <2>1. Len(a) >= 1 /\ Len(a) + 1 = 2
    BY <1>1
  <2>2. Clean(b) /\ Len(b) >= 1 /\ b[1] = a[1] /\ Lies(b, Len(a) + 1, Len(b) + 1, c)
    BY <1>1, <2>1, NameAdded
  <2> HIDE DEF b
  <2> QED
    BY <1>1, <2>1, <2>2
<1>4. LiesBefore(b, 0, 2, a)
  <2>1. Len(a) + 1 = 2
    BY <1>1
  <2>2. Lies(a, 0, Len(a) + 1, a)
    BY <1>1, <2>1
  <2>3. LiesBefore(b, 0, Len(a) + 1, a)
    BY <1>1, <1>2, <2>2, FieldEnds
  <2> HIDE DEF b
  <2> QED
    BY <2>1, <2>3
<1> HIDE DEF b
<1>5. LiesBefore(e, 0, 2, a)
  BY <1>2, <1>3, <1>4, FieldStays
<1>6. LiesBefore(e, 2, y, c)
  BY <1>2, <1>3, FieldEnds
<1>7. Tells(e, y, d) /\ e[1] = b[1]
  BY <1>3, PayloadEnds
<1> HIDE DEF e, y
<1>8. e[1] # "pmessage"
  BY <1>3, <1>7
<1>9. SdkReads(e) = << <<a, c>>, JsonParse(d)>>
  BY <1>5, <1>6, <1>7, <1>8, ReadTwo
<1> QED
  BY <1>9 DEF e, b, a

\* The word pmessage, two names and a payload.
LEMMA ThreeFields ==
  ASSUME NEW k \in Words, ~IsComma(k), k \notin Newlines, k = "pmessage",
         NEW p, Name(p), NEW c, Name(c), NEW d, Payload(d)
  PROVE  SdkReads(CommaJoin(CommaJoin(CommaJoin(<<k>>, p), c), d)) = << << <<k>>, p, c>>, JsonParse(d)>>
<1> DEFINE a == <<k>>
           b == CommaJoin(a, p)
           f == CommaJoin(b, c)
           e == CommaJoin(f, d)
           y == Len(b) + 1
           z == Len(f) + 1
<1>1. Name(a) /\ Clean(a) /\ Len(a) = 1 /\ a[1] = k /\ Lies(a, 0, 2, a)
  BY FirstField
<1>2. Clean(p) /\ Clean(c) /\ Clean(d)
  BY DEF Name, Payload
<1> HIDE DEF a
<1>3. Clean(b) /\ Len(b) >= 1 /\ b[1] = k /\ Lies(b, 2, y, p)
  <2>1. Len(a) >= 1 /\ Len(a) + 1 = 2
    BY <1>1
  <2>2. Clean(b) /\ Len(b) >= 1 /\ b[1] = a[1] /\ Lies(b, Len(a) + 1, Len(b) + 1, p)
    BY <1>1, <2>1, NameAdded
  <2> HIDE DEF b
  <2> QED
    BY <1>1, <2>1, <2>2
<1>4. LiesBefore(b, 0, 2, a)
  <2>1. Len(a) + 1 = 2
    BY <1>1
  <2>2. Lies(a, 0, Len(a) + 1, a)
    BY <1>1, <2>1
  <2>3. LiesBefore(b, 0, Len(a) + 1, a)
    BY <1>1, <1>2, <2>2, FieldEnds
  <2> HIDE DEF b
  <2> QED
    BY <2>1, <2>3
<1> HIDE DEF b
<1>5. Clean(f) /\ Len(f) >= 1 /\ f[1] = k /\ Lies(f, y, z, c)
  <2>1. Clean(f) /\ Len(f) >= 1 /\ f[1] = b[1] /\ Lies(f, Len(b) + 1, Len(f) + 1, c)
    BY <1>3, NameAdded
  <2> HIDE DEF f
  <2> QED
    BY <1>3, <2>1
<1>6. LiesBefore(f, 0, 2, a) /\ LiesBefore(f, 2, y, p)
  <2>1. LiesBefore(f, 0, 2, a)
    BY <1>2, <1>3, <1>4, FieldStays
  <2>2. LiesBefore(f, 2, y, p)
    BY <1>2, <1>3, FieldEnds
  <2> QED
    BY <2>1, <2>2
<1> HIDE DEF f, y
<1>7. LiesBefore(e, 0, 2, a) /\ LiesBefore(e, 2, y, p)
  BY <1>2, <1>5, <1>6, FieldStays
<1>8. LiesBefore(e, y, z, c)
  BY <1>2, <1>5, FieldEnds
<1>9. Tells(e, z, d) /\ e[1] = f[1]
  BY <1>5, PayloadEnds
<1> HIDE DEF e, z
<1>10. e[1] = "pmessage"
  BY <1>5, <1>9
<1>11. SdkReads(e) = << <<a, p, c>>, JsonParse(d)>>
  BY <1>7, <1>8, <1>9, <1>10, ReadThree
<1> QED
  BY <1>11 DEF e, f, b, a

\* The words that events start with.
LEMMA KindsAre ==
  \A k \in {"message", "pmessage", "error"} : k \in Words /\ ~IsComma(k) /\ k \notin Newlines
BY DEF Words, IsComma, Newlines

\* A valid name can be a field.
LEMMA ValidName == ASSUME NEW t \in Seq(Words), IsValidSubscriptionTarget(t) PROVE Name(t)
<1> DEFINE comma == ","
<1>1. ToSet(t) \cap Newlines = {}
  BY DEF IsValidSubscriptionTarget, HasControlCharacters
<1>2. comma \notin ToSet(t) /\ \A x : IsComma(x) => x = comma
  BY DEF IsComma, IsValidSubscriptionTarget
<1> HIDE DEF comma
<1>3. \A i \in 1 .. Len(t) : t[i] # comma /\ t[i] \notin Newlines
  <2>1. \A i \in 1 .. Len(t) : t[i] \in ToSet(t)
    BY ElementOf
  <2> QED
    BY <1>1, <1>2, <2>1
<1> QED
  BY <1>2, <1>3 DEF Name, Clean

\* What the SDK is to read.
ValueOf(m) == IF IsJson(m[3]) THEN JsonParse(m[3]) ELSE <<"text", m[3]>>

\* What a message consists of.
LEMMA ArgumentsAre ==
  ASSUME NEW m \in AllArguments
  PROVE  /\ m[1] \in Seq(Words) /\ m[2] \in Seq(Words) /\ m[3] \in Seq(Words)
         /\ Name(m[1]) /\ Payload(NormalizeMessagePayload(m[3]))
         /\ JsonParse(NormalizeMessagePayload(m[3])) = ValueOf(m)
<1>1. PICK v \in Items : IsMessage(v) /\ m = Arguments(v)
  BY DEF AllArguments, Messages
<1> DEFINE w == v[2]
<1>2. /\ v[1] = "arr" /\ w[2][1] = "str" /\ w[3][1] = "str"
  BY <1>1 DEF IsMessage
<1>a. Len(w) = 4
  BY <1>1 DEF IsMessage
<1>3. IsValue(v)
  BY <1>2, ValuesAssumption
<1>4. ~IsSimple(v)
  BY <1>2 DEF IsSimple
<1>5. w \in Seq(ToSet(w)) /\ \A x \in ToSet(w) : IsSimple(x)
  BY <1>3, <1>4 DEF IsValue
<1>6. IsSimple(w[2]) /\ IsSimple(w[3]) /\ IsSimple(w[4])
  <2> HIDE DEF w
  <2>1. \A i \in 1 .. Len(w) : w[i] \in ToSet(w)
    BY <1>5, ElementOf
  <2>2. 2 \in 1 .. Len(w) /\ 3 \in 1 .. Len(w) /\ 4 \in 1 .. Len(w)
    BY <1>a
  <2> QED
    BY <1>5, <2>1, <2>2
<1> HIDE DEF w
<1>7. \A x : IsSimple(x) => x[1] = "null" \/ x[2] \in Seq(Symbol)
  <2> SUFFICES ASSUME NEW x, IsSimple(x), x[1] # "null" PROVE x[2] \in Seq(Symbol)
    OBVIOUS
  <2>1. \A S \in SUBSET Symbol : \A t \in Seq(S) : t \in Seq(Symbol)
    OBVIOUS
  <2>2. x # <<"null">>
    OBVIOUS
  <2>3. x[2] \in Seq(Symbol \ {"lo"}) \/ x[2] \in Seq(Symbol \ {"lo", "cr"}) \/ x[2] \in Seq(Symbol \ {"cr"})
    BY <2>2 DEF IsSimple
  <2> DEFINE A == Symbol \ {"lo"}
             B == Symbol \ {"lo", "cr"}
             C == Symbol \ {"cr"}
  <2>4. A \in SUBSET Symbol /\ B \in SUBSET Symbol /\ C \in SUBSET Symbol
    OBVIOUS
  <2>5. x[2] \in Seq(A) \/ x[2] \in Seq(B) \/ x[2] \in Seq(C)
    BY <2>3
  <2> HIDE DEF A, B, C
  <2> QED
    BY <2>1, <2>4, <2>5
<1>8. m = <<w[2][2], w[3][2], IF w[4][1] = "null" THEN <<>> ELSE w[4][2]>>
  BY <1>1 DEF Arguments, w
<1>9. m[1] \in Seq(Symbol) /\ m[2] \in Seq(Symbol) /\ m[3] \in Seq(Symbol)
  <2>1. m[1] = w[2][2] /\ m[2] = w[3][2] /\ m[3] = IF w[4][1] = "null" THEN <<>> ELSE w[4][2]
    BY <1>8
  <2>2. w[2][2] \in Seq(Symbol) /\ w[3][2] \in Seq(Symbol)
    BY <1>2, <1>6, <1>7
  <2>3. w[4][1] # "null" => w[4][2] \in Seq(Symbol)
    BY <1>6, <1>7
  <2>4. <<>> \in Seq(Symbol)
    BY EmptyIsSeq
  <2> QED
    BY <2>1, <2>2, <2>3, <2>4
<1>10. \A t \in Seq(Symbol) : t \in Seq(Words)
  <2>1. Symbol \subseteq Words
    BY DEF Words
  <2> QED
    BY <2>1
<1>11. IsValidSubscriptionTarget(m[1]) /\ (IsJson(m[3]) \/ ToSet(m[3]) \cap EscapeCodes = {})
  BY <1>1, MessagesAssumption
<1> DEFINE d == NormalizeMessagePayload(m[3])
<1>12. PayloadFor(m[3], d)
  BY <1>9, <1>10, <1>11, PayloadIs
<1> HIDE DEF d
<1>13. Payload(d) /\ JsonParse(d) = ValueOf(m)
  BY <1>12 DEF PayloadFor, Payload, ValueOf
<1>14. Name(m[1])
  BY <1>9, <1>10, <1>11, ValidName
<1> QED
  BY <1>9, <1>10, <1>13, <1>14 DEF d

\* The event of a message says what the message says, on both kinds of
\* subscription.
LEMMA EventRead ==
  ASSUME NEW m \in AllArguments, IsValidSubscriptionTarget(m[2])
  PROVE  /\ SdkReads(EventFor(m)) = << << <<"pmessage">>, m[1], m[2]>>, ValueOf(m)>>
         /\ SdkReads(FormatMessageEvent(m[2], m[3])) = << << <<"message">>, m[2]>>, ValueOf(m)>>
<1> DEFINE d == NormalizeMessagePayload(m[3])
           p == m[1]
           c == m[2]
           k == "pmessage"
           j == "message"
<1>1. EventFor(m) = CommaJoin(CommaJoin(CommaJoin(<<k>>, p), c), d)
  BY Zenon DEF EventFor, FormatPatternMessageEvent, CommaJoin
<1>2. FormatMessageEvent(c, m[3]) = CommaJoin(CommaJoin(<<j>>, c), d)
  BY Zenon DEF FormatMessageEvent, CommaJoin
<1>3. Name(p) /\ Name(c) /\ Payload(d) /\ JsonParse(d) = ValueOf(m)
  BY ArgumentsAre, ValidName
<1>4. /\ k \in Words /\ ~IsComma(k) /\ k \notin Newlines /\ k = "pmessage"
      /\ j \in Words /\ ~IsComma(j) /\ j \notin Newlines /\ j # "pmessage"
  BY KindsAre
<1> HIDE DEF d, p, c, k, j
<1>5. SdkReads(CommaJoin(CommaJoin(CommaJoin(<<k>>, p), c), d)) = << << <<k>>, p, c>>, JsonParse(d)>>
  BY <1>3, <1>4, ThreeFields
<1>6. SdkReads(CommaJoin(CommaJoin(<<j>>, c), d)) = << << <<j>>, c>>, JsonParse(d)>>
  BY <1>3, <1>4, TwoFields
<1> QED
  BY <1>1, <1>2, <1>3, <1>5, <1>6 DEF k, j, p, c

\* The event in place of a message gives the reason.
LEMMA ErrorRead == SdkReads(ErrorEvent)[2] = <<"text", <<"reason">> >>
<1> DEFINE r == "reason"
           k == "error"
           s == <<r>>
           d == Between(Quote, s, Quote)
           none == <<>>
<1>1. r \in Words /\ Quote \in Words /\ r \notin Special /\ r \notin EscapeCodes
  BY EscapesAre DEF Words
<1>2. k \in Words /\ ~IsComma(k) /\ k \notin Newlines /\ k # "pmessage"
  BY KindsAre
<1>3. \A q \in Words : <<q>> \o s \o <<q>> = <<q, r, q>>
  BY <1>1, ThreeOf, Zenon
<1>4. ErrorEvent = <<k>> \o Comma \o Comma \o d
  BY <1>1, <1>3 DEF ErrorEvent, Between
<1> HIDE DEF r, k
<1>5. <<k>> \o Comma \o none = <<k>> \o Comma
  <2> DEFINE a == <<k>>
             z == Comma
             f == a \o z
  <2>1. a \in Seq(Words) /\ z \in Seq(Words)
    <3> DEFINE x == ","
    <3>1. x \in Words
      BY DEF Words
    <3>2. z = <<x>>
      BY DEF Comma
    <3> HIDE DEF x, z
    <3> QED
      BY <1>2, <3>1, <3>2
  <2> HIDE DEF a, z
  <2>2. f \in Seq(Words)
    BY <2>1
  <2>3. f \o none = f
    <3> HIDE DEF f
    <3> QED
      BY <2>2
  <2> QED
    BY <2>3 DEF a, z
<1>6. ErrorEvent = CommaJoin(CommaJoin(<<k>>, none), d)
  BY <1>4, <1>5 DEF CommaJoin
<1>7. Name(none)
  BY DEF Name, Clean
<1>8. s \in Seq(Words) /\ Len(s) = 1 /\ \A i \in 1 .. Len(s) : s[i] = r
  BY <1>1
<1> HIDE DEF s, none
<1>9. Payload(d) /\ JsonParse(d) = <<"text", Unescape(s)>>
  <2>1. \A i \in 1 .. Len(s) : s[i] \notin Special
    BY <1>1, <1>8
  <2>2. /\ d \in Seq(Words) /\ Len(d) \in Nat \ {0}
        /\ \A i \in 1 .. Len(d) : d[i] \notin Newlines
        /\ IsJson(d) /\ JsonParse(d) = <<"text", Unescape(s)>>
    BY <1>1, <1>8, <2>1, QuotedIs
  <2> HIDE DEF d
  <2> QED
    BY <2>2 DEF Payload, Clean
<1>10. Unescape(s) = s
  <2> DEFINE u(x) == IF x \in EscapeCodes THEN CHOOSE y \in Special : EscapeOf[y] = x ELSE x
             f == [i \in 1 .. Len(s) |-> s[i]]
  <2>1. Unescape(s) = [i \in DOMAIN s |-> u(s[i])]
    BY Zenon DEF Unescape
  <2>2. DOMAIN s = 1 .. Len(s) /\ \A i \in 1 .. Len(s) : u(s[i]) = s[i]
    BY <1>1, <1>8
  <2> HIDE DEF u
  <2>3. Unescape(s) = f
    BY <2>1, <2>2
  <2>4. f \in Seq(Words) /\ Len(f) = Len(s) /\ \A i \in 1 .. Len(f) : f[i] = s[i]
    BY <1>8
  <2> HIDE DEF f
  <2>5. f = s
    BY <1>8, <2>4, SameSeq
  <2> QED
    BY <2>3, <2>5
<1> HIDE DEF d
<1>11. SdkReads(CommaJoin(CommaJoin(<<k>>, none), d)) = << << <<k>>, none>>, JsonParse(d)>>
  BY <1>2, <1>7, <1>9, TwoFields
<1> QED
  BY <1>6, <1>9, <1>10, <1>11 DEF s, r

-----------------------------------------------------------------------------
(* What the SDK reads is what was published *)

\* Events made of the messages, one each, are read as the messages.
LEMMA WireFaithful == WireInv => EventsFaithful
<1> DEFINE s == HandlerNow
           valid(m) == IsValidSubscriptionTarget(m[2])
           what(m) == IF valid(m) THEN
                        /\ SdkReads(EventFor(m)) = << << <<"pmessage">>, m[1], m[2]>>, ValueOf(m)>>
                        /\ SdkReads(FormatMessageEvent(m[2], m[3])) = << << <<"message">>, m[2]>>, ValueOf(m)>>
                      ELSE SdkReads(EventFor(m))[2] = <<"text", <<"reason">> >>
<1>1. SUFFICES ASSUME WireInv PROVE EventsFaithful
  OBVIOUS
<1>2. s \in HandlerState /\ EventsAre(s) /\ s.handled = handled /\ s.events = events
  BY <1>1 DEF WireInv, HandlerNow, HandlerOf
<1>3. ASSUME NEW m \in AllArguments PROVE what(m)
  <2>1. CASE valid(m)
    BY <2>1, EventRead
  <2>2. CASE ~valid(m)
    <3>1. EventFor(m) = ErrorEvent
      BY <2>2 DEF EventFor
    <3> QED
      BY <2>2, <3>1, ErrorRead
  <2> QED
    BY <2>1, <2>2
<1>4. handled \in Seq(AllArguments) /\ events \in Seq(AllEvents) /\ s.disconnected \in BOOLEAN
  BY <1>2 DEF HandlerState
<1>5. /\ Len(events) <= Len(handled) /\ Len(events) \in Nat /\ Len(handled) \in Nat
      /\ \A i \in 1 .. Len(events) : events[i] = EventFor(handled[i])
      /\ \A i \in 1 .. Len(events) - 1 : valid(handled[i])
      /\ \/ Len(events) = Len(handled) /\ \A i \in 1 .. Len(events) : valid(handled[i])
         \/ Len(events) >= 1 /\ ~valid(handled[Len(events)])
  <2>1. Len(events) \in Nat /\ Len(handled) \in Nat
    BY <1>4
  <2> QED
    BY <1>2, <1>4, <2>1 DEF EventsAre
<1> HIDE DEF s, valid
<1>6. SUFFICES ASSUME NEW i \in 1 .. Len(handled)
      PROVE  IF \E j \in 1 .. i - 1 : ~valid(handled[j]) THEN Len(events) < i
             ELSE IF ~valid(handled[i]) THEN Len(events) = i /\ SdkReads(events[i])[2] = <<"text", <<"reason">> >>
             ELSE /\ SdkReads(events[i]) =
                       << << <<"pmessage">>, handled[i][1], handled[i][2]>>, ValueOf(handled[i])>>
                  /\ SdkReads(FormatMessageEvent(handled[i][2], handled[i][3])) =
                       << << <<"message">>, handled[i][2]>>, ValueOf(handled[i])>>
  <2>1. DOMAIN handled = 1 .. Len(handled)
    BY <1>4
  <2> QED
    BY <1>6, <2>1, Zenon DEF EventsFaithful, ValueOf, valid
<1> DEFINE m == handled[i]
<1>7. m \in AllArguments /\ i \in Nat
  BY <1>4
<1>8. what(m)
  BY <1>3, <1>7
<1>9. CASE \E j \in 1 .. i - 1 : ~valid(handled[j])
  <2>1. PICK j \in 1 .. i - 1 : ~valid(handled[j])
    BY <1>9
  <2>2. ~(j \in 1 .. Len(events) - 1) /\ (j \in 1 .. Len(events) => Len(events) # Len(handled) \/ j = Len(events))
    BY <1>5, <1>7, <2>1
  <2>3. j >= Len(events)
    BY <1>5, <1>7, <2>1, <2>2
  <2>4. Len(events) < i
    BY <1>5, <1>7, <2>1, <2>3
  <2> QED
    BY <1>9, <2>4
<1>10. CASE \A j \in 1 .. i - 1 : valid(handled[j])
  <2>1. Len(events) >= i
    <3>1. CASE Len(events) = Len(handled)
      BY <1>5, <1>7, <3>1
    <3>2. CASE Len(events) >= 1 /\ ~valid(handled[Len(events)])
      <4>1. ~(Len(events) \in 1 .. i - 1)
        BY <1>10, <3>2
      <4> QED
        BY <1>5, <1>7, <3>2, <4>1
    <3> QED
      BY <1>5, <3>1, <3>2
  <2>2. i \in 1 .. Len(events) /\ events[i] = EventFor(m)
    BY <1>5, <1>7, <2>1
  <2>3. CASE valid(m)
    BY <1>8, <1>10, <2>2, <2>3, Zenon
  <2>4. CASE ~valid(m)
    <3>1. Len(events) = i
      BY <1>5, <1>7, <2>1, <2>2, <2>4
    <3>2. SdkReads(events[i])[2] = <<"text", <<"reason">> >>
      BY <1>8, <2>2, <2>4
    <3> QED
      BY <1>10, <2>4, <3>1, <3>2, Zenon
  <2> QED
    BY <2>3, <2>4
<1> QED
  BY <1>9, <1>10

\* What the SDK reads is what was published, whatever was published, in whatever
\* chunks it came.
THEOREM EventsFaithfulHolds == Spec => []EventsFaithful
BY WireInvHolds, WireFaithful, PTL
=============================================================================
