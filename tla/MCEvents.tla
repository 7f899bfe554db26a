------------------------------ MODULE MCEvents ------------------------------
(* Every kind of event for VmxEvents. *)
EXTENDS VmxEvents

\* An interrupt, and one whose number does not fit in u8.
MCIrqs == {0, 33, 256 + 40}

\* #BP, NMI, #UD with an error code it has not, #GP with one, #PF with none given,
\* and the vector after the last one from_vector knows.
MCExceptions ==
  {<<3, NoErr>>, <<2, NoErr>>, <<6, 1>>, <<13, 1>>, <<14, NoErr>>, <<21, NoErr>>}

\* An interrupt, an exception that always goes in and an NMI, which can keep the
\* interrupt waiting for ever.
LiveIrqs == {33}
LiveExceptions == {<<6, NoErr>>, <<2, NoErr>>}

\* The two kinds of processor.
StiBlocksNmi == {"MOV_SS", "STI"}
StiIgnoredByNmi == {"MOV_SS"}
=============================================================================
