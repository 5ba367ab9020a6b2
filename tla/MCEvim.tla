-------------------------------- MODULE MCEvim ------------------------------
(* Instances of Evim: the text that is read and the keys that are pressed.  *)
EXTENDS Evim

TwoLines   == {<<"a", NL, SP, "A", NL>>, <<SP, "a", "a", NL>>}
OneLine    == {<<"a", SP, NL>>}

\* every command whose edits reach the undo stack, typing tabs, and leaving
RecordedKeys ==
    {<<"left", 1>>, <<"right", 1>>, <<"home", 1>>, <<"+", 1>>, <<"-", 1>>,
     <<"x", 1>>, <<"x", 2>>, <<"~", 1>>, <<"~", 2>>, <<"J", 1>>, <<"D", 1>>, <<"dd", 1>>,
     <<"yy", 1>>, <<"P", 1>>, <<"P", 2>>, <<"u", 1>>,
     <<"i", 1>>, <<"A", 1>>, <<"tab", 1>>, <<"ZZ", 1>>, <<":q", 1>>}

\* typing, replacing and writing
AllKeys ==
    {<<"left", 1>>, <<"end", 1>>, <<"x", 1>>, <<"dd", 1>>, <<"r", 1>>, <<"p", 1>>,
     <<"i", 1>>, <<"append", 1>>, <<"A", 1>>, <<"o", 1>>, <<"O", 1>>,
     <<"I", 1>>, <<"C", 1>>, <<"s", 1>>, <<"cc", 1>>, <<"R", 1>>,
     <<"a", 1>>, <<NL, 1>>, <<"bs", 1>>, <<"tab", 1>>, <<"del", 1>>,
     <<":w", 1>>, <<":x", 1>>, <<":q!", 1>>}

TypedKeys == {<<"left", 1>>, <<"right", 1>>, <<"+", 1>>, <<"i", 1>>, <<"a", 1>>, <<":q", 1>>}
=============================================================================
