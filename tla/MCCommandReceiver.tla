--------------------------- MODULE MCCommandReceiver ---------------------------
(* Small instances of CommandReceiver for TLC: values a .cfg cannot write. *)
EXTENDS CommandReceiver

\* Messages beyond both ends of the range, which does not hold the default.
MCRaw == {-3, 5}
=============================================================================
