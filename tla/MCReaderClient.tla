--------------------------- MODULE MCReaderClient ---------------------------
(* A small instance of ReaderClient.                                        *)
EXTENDS ReaderClient

Number(t) == [head |-> "h", tail |-> t]
MCR1s == {Number("old1"), Number("new1")}
MCR2s == {Number("old2"), Number("new2")}
MCOldR1 == Number("old1")
MCOldR2 == Number("old2")
=============================================================================
