------------------------ MODULE MCMultiplexerServer ------------------------
(* main() with 2 messages to ignore, and 0, 2 or 3 as the value that       *)
(* m_ignoreMsgCount happens to have before it is set.                      *)
EXTENDS MultiplexerServer

MCIgnoreValues == {0, 2, 3}
=============================================================================
