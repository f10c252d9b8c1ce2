----------------------------- MODULE MCParsing -----------------------------
(* Small instances of PatternWire and CommandGate for TLC: the places where *)
(* two programs have to agree on how one text is to be read.                *)
EXTENDS CommandGate, PatternWire

MCSymbol == STRING

Str(text) == <<"str", text>>
Message(channel, message) ==
  <<"arr", <<Str(<<"pmessage">>), Str(<<"p">>), Str(channel), message>> >>

\* Channels and payloads: text, JSON, JSON with line breaks, almost JSON, text
\* that looks like RESP, and channels the format cannot carry.
MCMessages ==
  {Message(<<"c">>, Str(m)) : m \in
     {<<"a", ",">>, <<"lf", "[", "1", "cr", "lf", "]">>, <<"1", "lf", "1">>, <<"quote", "1">>,
      <<"cr", "lf", "$", "1">>, <<>>, <<"quote", "esc_n", "quote">>,
      <<"eacute", "eacute", "eacute", "eacute", "eacute">>}} \cup
  {Message(c, Str(<<"1">>)) : c \in {<<"eacute">>, <<"a", ",">>, <<"lf">>, <<>>, <<"a", "a", "a">>}}

MCOthers ==
  {Message(<<"c">>, <<"null">>), <<"arr", <<Str(<<"pong">>), Str(<<>>)>> >>, <<"num", <<"1">> >>,
   <<"err", <<"a">> >>}

MCRejected ==
  {<<"raw", bytes>> : bytes \in
     {<<"?", "cr", "lf">>, <<"$", "a", "cr", "lf">>, <<"$", "1", "1", "cr", "lf">>,
      <<"$", "1", "cr", "lf", "a", "cr", "a">>, <<"*", "-", "2", "cr", "lf">>,
      <<"*", "1", "cr", "lf", "*", "1", "cr", "lf", "*">>} }

\* Anything before or after a message, or an error reply.
MCConversations ==
  LET items == MCMessages \cup MCOthers \cup MCRejected
      few == {Message(<<"c">>, Str(<<"a">>)), <<"err", <<"a">> >>}
  IN  {<<a, b>> : a \in items, b \in few} \cup {<<a, b>> : a \in few, b \in items}

-----------------------------------------------------------------------------
(* The two share no variable, so the commands that grow do so beside a     *)
(* connection on which nothing arrives, and GET stands beside the others.  *)

MCScripts == MCConversations \cup {<<>>}

MCInit == Init /\ GateInit /\ (script # <<>> => command = "GET")

MCNext ==
  \/ Next /\ UNCHANGED gateVars
  \/ script = <<>> /\ GateNext /\ UNCHANGED vars

MCSpec == MCInit /\ [][MCNext]_<<gateVars, vars>>
=============================================================================
