----------------------------- MODULE MCCommands -----------------------------
(***************************************************************************)
(* A small instance of Commands: a node of somebody else, and files of up  *)
(* to four lines of vendors and products, and with two classes.            *)
(***************************************************************************)
EXTENDS Commands

\* Processes and new nodes are interchangeable.
MCSymmetry == Permutations(Procs) \cup Permutations(NewNodes)

CONSTANTS l1, l2

MCStashed == <<l1, l2>>

MCOtherNodes == [other |-> <<"x">>]

MCVendorLines ==
  {Comment, Blank, Entry("vendor", 0, "z"), Entry("vendor", 1, "a"), Entry("vendor", 2, "b"),
   Entry("t", 1, "p"), Entry("t", 1, "q"), Entry("t", 2, "q"), ListOfAudioTerminals}
MCClasses == {Entry("C", c, "c") : c \in 0..2}
MCSubclasses == {Entry("t", 1, "p"), Entry("t", 2, "q")}
MCProtocols == {Entry("tt", 1, "x"), Entry("tt", 0, "y"), Comment}

MCIdsFiles ==
  (UNION {[1..n -> MCVendorLines] : n \in 0..4}) \cup
  {<<Entry("vendor", 1, "a"), ListOfClasses, c, s, x, s2, x2, d, s2, x2, ListOfAudioTerminals,
     Entry("t", 2, "no")>> :
     c, d \in MCClasses, s, s2 \in MCSubclasses, x, x2 \in MCProtocols}
=============================================================================
