---------------------------- MODULE MCReplyStream ----------------------------
(* ReplyStream on small instances.                                         *)
EXTENDS ReplyStream

MCLocalStreams ==
  {<<"text", "tool", "usage">>, <<"text", "text", "usage">>, <<"usage">>, <<"text", "error">>}

MCRemoteStreams ==
  {<<"start", "text", "block", "completed">>, <<"start", "other", "text", "completed">>,
   <<"start", "text", "failed">>, <<"start", "failed">>, <<"start", "text", "background">>}
=============================================================================
