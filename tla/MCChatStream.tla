---------------------------- MODULE MCChatStream ----------------------------
EXTENDS ChatStream

\* Plain text, a trigger cut in two, calls in and out of the protocol and with a
\* field missing or under another name, a thought.
MCTexts ==
  {<<"x">>, <<"t1">>, <<"t2", "a", "close">>, <<"t1", "t2", "b", "close", "unnamed", "close">>,
   <<"alias", "close", "bad", "close">>, <<"fence">>, <<"think", "x">>, <<"/think">>}
=============================================================================
