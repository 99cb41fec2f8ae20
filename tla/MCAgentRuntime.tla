---------------------------- MODULE MCAgentRuntime ----------------------------
(***************************************************************************)
(* Values for TLC: the shapes of a response's tool-call list that take the *)
(* loop through each of its paths.                                         *)
(***************************************************************************)
EXTENDS AgentRuntime

MCReplies ==
    { <<>>, <<"plain">>, <<"sql">>, <<"invalid">>, <<"unknown", "plain">>, <<"sql", "unknown">> }

=============================================================================
