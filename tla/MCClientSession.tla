-------------------------- MODULE MCClientSession --------------------------
EXTENDS ClientSession

MCUserFile   == <<{<<"user", 0, 1>>}, {<<"user", 0, 2>>}>>
MCServerFile == <<{<<"server", 0, 1>>}, {<<"server", 0, 2>>}>>

MCBit == {"user", "server", "key", "iv", "text"} \X (0 .. 22) \X (0 .. 2)
=============================================================================
