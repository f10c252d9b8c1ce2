---------------------------- MODULE CommandGate ----------------------------
(***************************************************************************)
(* checkBlockedCommand: which commands may run on the shared connection.   *)
(* The delicate part is XREAD and XREADGROUP, which block only when their  *)
(* option list holds BLOCK: the gate scans the arguments itself and has to *)
(* agree with the parser inside Redis about which of them are options and  *)
(* which are values, names of groups and consumers, or keys.               *)
(*                                                                         *)
(* The state is one command whose argument list grows token by token, so   *)
(* the runs visit every list up to MaxArgs.                                *)
(***************************************************************************)
EXTENDS Integers, Sequences

CONSTANTS
  AllowDangerous,   \* UPREDIS_ALLOW_DANGEROUS_COMMANDS
  ExtraBlocked,     \* UPREDIS_BLOCKED_COMMANDS
  MaxArgs           \* bound: length of the argument list

ASSUME MaxArgsAssumption == MaxArgs \in Nat

\* One command of each kind the gate tells apart, and the tokens that matter
\* to it: the options, a number (any name or key may be one), a subcommand of
\* each list.
CommandKinds == {"BLPOP", "CLIENT", "SCRIPT", "XREAD", "XREADGROUP", "KEYS", "GET"}
Tokens == {"BLOCK", "STREAMS", "GROUP", "COUNT", "NOACK", "1"}
Subcommands == {"LIST", "FLUSH", "word"}

BLOCKED_COMMANDS == {"BLPOP"}
ALLOWED_CLIENT_SUBCOMMANDS == {"LIST"}
BLOCKED_SCRIPT_SUBCOMMANDS == {"FLUSH"}
DANGEROUS_COMMANDS == {"KEYS"}
StreamReads == {"XREAD", "XREADGROUP"}

VARIABLES command, args

gateVars == <<command, args>>

GateInit == command \in CommandKinds /\ args = <<>>

GateNext ==
  /\ Len(args) < MaxArgs
  /\ \E t \in IF command \in StreamReads THEN Tokens ELSE Subcommands :
       args' = Append(args, t)
  /\ UNCHANGED command

GateSpec == GateInit /\ [][GateNext]_gateVars

-----------------------------------------------------------------------------
(* The gate *)

\* MUTANT of FindsBlock: the values of GROUP are read as options.
FindsBlockInValues(cmd, list) ==
  LET from[i \in 1 .. Len(list) + 3] ==
        /\ i <= Len(list)
        /\ list[i] # "STREAMS"
        /\ \/ list[i] = "BLOCK"
           \/ from[IF list[i] = "COUNT" THEN i + 2 ELSE i + 1]
  IN  from[1]

\* MUTANT of FindsBlock: BLOCK is looked for among the keys too.
FindsBlockAnywhere(cmd, list) == \E i \in 1 .. Len(list) : list[i] = "BLOCK"

\* The scan: is there a BLOCK before STREAMS that is not the value of a GROUP
\* or COUNT option?
FindsBlock(cmd, list) ==
  LET from[i \in 1 .. Len(list) + 3] ==
        /\ i <= Len(list)
        /\ list[i] # "STREAMS"
        /\ \/ list[i] = "BLOCK"
           \/ from[CASE list[i] = "GROUP" /\ cmd = "XREADGROUP" -> i + 3
                     [] list[i] = "COUNT" -> i + 2
                     [] OTHER -> i + 1]
  IN  from[1]

BlockedSubcommand(cmd, list) ==
  /\ list # <<>>
  /\ \/ cmd = "CLIENT" /\ list[1] \notin ALLOWED_CLIENT_SUBCOMMANDS
     \/ cmd = "SCRIPT" /\ list[1] \in BLOCKED_SCRIPT_SUBCOMMANDS

\* checkBlockedCommand, as a predicate: does it return a reason?
CheckBlocked(cmd, list) ==
  \/ cmd \in BLOCKED_COMMANDS
  \/ BlockedSubcommand(cmd, list)
  \/ cmd \in StreamReads /\ FindsBlock(cmd, list)
  \/ cmd \in DANGEROUS_COMMANDS /\ ~AllowDangerous
  \/ cmd \in ExtraBlocked

-----------------------------------------------------------------------------
(* What Redis makes of the same arguments *)

\* The option parser of XREAD and XREADGROUP: "blocks", "returns" or "error".
\* A state of it is the position, and whether BLOCK and GROUP have been seen.
RedisReads(cmd, list) ==
  LET n == Len(list)
      parse[s \in (1 .. n + 1) \X BOOLEAN \X BOOLEAN] ==
        LET i == s[1]  blk == s[2]  grp == s[3]  more == n - i
            number == more >= 1 /\ list[i + 1] = "1" IN
        IF i > n THEN "error"
        ELSE CASE list[i] = "BLOCK" /\ number -> parse[<<i + 2, TRUE, grp>>]
               [] list[i] = "COUNT" /\ number -> parse[<<i + 2, blk, grp>>]
               [] list[i] = "GROUP" /\ more >= 2 /\ cmd = "XREADGROUP" ->
                    parse[<<i + 3, blk, TRUE>>]
               [] list[i] = "NOACK" /\ cmd = "XREADGROUP" -> parse[<<i + 1, blk, grp>>]
               [] /\ list[i] = "STREAMS" /\ more >= 2 /\ more % 2 = 0
                  /\ cmd = "XREADGROUP" => grp -> IF blk THEN "blocks" ELSE "returns"
               [] OTHER -> "error"
  IN  parse[<<1, FALSE, FALSE>>]

-----------------------------------------------------------------------------
(* Properties *)

\* Redis takes GROUP headers anywhere and any number of times: each list is
\* looked at alone and after a first header.
Lists == {args, <<"GROUP", "1", "1">> \o args}

\* A stream read that passes the gate never blocks the connection it shares
\* with every other request, however its options, group names and keys are
\* named ("a group named STREAMS can hide a later BLOCK", commands.ts:294).
NeverBlocks ==
  command \in StreamReads =>
    \A list \in Lists : ~CheckBlocked(command, list) => RedisReads(command, list) # "blocks"

\* A stream read that Redis serves without blocking is refused only by the
\* operator's own blocklist: a key, group or consumer may be called BLOCK.
NoFalseRefusal ==
  command \in StreamReads \ ExtraBlocked =>
    \A list \in Lists : RedisReads(command, list) = "returns" => ~CheckBlocked(command, list)
=============================================================================
