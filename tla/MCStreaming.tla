---------------------------- MODULE MCStreaming ----------------------------
(* Small instances of Streaming.                                            *)
EXTENDS Streaming

MCWords == {"x", "y", "z"}

MCAnswers ==
    { \* reasoning, then a text with white space around it
      [think |-> <<"x", "sp">>, text |-> <<"sp", "x", "sp", "y", "nl">>],
      \* a call in the middle of a text
      [think |-> <<>>, text |-> <<"x", "nl", "bt", "call", "nl", "{}", "nl", "bt", "nl", "y">>],
      \* a code block, which ends with what may begin a fence
      [think |-> <<"x", "nl", "y">>, text |-> <<"x", "bt", "nl", "y", "bt">>],
      \* a call first, then a code block
      [think |-> <<>>, text |-> <<"bt", "call", "nl", "{}", "nl", "bt", "nl", "x", "bt">>],
      \* a call whose arguments hold backticks
      [think |-> <<>>, text |-> <<"x", "bt", "call", "nl", "{}", "bt", "{}", "nl", "bt", "y">>],
      \* a call that is cut short
      [think |-> <<>>, text |-> <<"z", "bt", "call", "nl", "{}">>],
      \* a code artifact
      [think |-> <<>>, text |-> <<"x", "code", "z", "bt", "nl", "y">>],
      \* nothing but reasoning
      [think |-> <<"z">>, text |-> <<"sp">>] }
=============================================================================
