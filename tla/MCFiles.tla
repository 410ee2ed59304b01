------------------------------- MODULE MCFiles -------------------------------
(***************************************************************************)
(* An instance of LXMFFiles for TLC, with what is in the files: the text   *)
(* of the configuration and the formats of messages.                       *)
(***************************************************************************)
EXTENDS LXMFStored

CONSTANTS s1, s2, s3, l1, l2, short, long

\* Two saves of a long content and one of a short one.
MCDataOf == [s \in Saves |-> IF s = s2 THEN short ELSE long]
MCSize == [d \in Data |-> IF d = short THEN 1 ELSE 2]

Config == INSTANCE LXMFConfig WITH MaxLine <- 8, MaxValue <- 3

\* Sizes around every limit; all short payloads and texts over a few values.
MCSizes == 1 .. 2410
MCPayloads == UNION {[1 .. n -> {0, 7, 255}] : n \in 0 .. 5}
MCTexts == UNION {[1 .. n -> {-3, -2, -1, 0, 63}] : n \in 0 .. 5}
           \cup {a \o <<-3, -3>> \o b \o <<-3, -3>> : a, b \in [1 .. 2 -> {-1, 0, 63}]}

\* The state in which the properties of operators are looked at: they are the
\* same in all.
Beginning == /\ kind = "config" /\ full = NoFile
             /\ save = [s \in Saves |-> "idle"] /\ load = [l \in Loads |-> "idle"]

\* A loaded configuration survives saving and loading, up to the scanner's
\* limit for a line, and has no number below its floor; and which texts of a
\* Config survive WriteConfig and ParseConfig (config.go:126, 404, 410).
ConfigSurvives ==
  Beginning => Config!SaveKeepsConfig /\ Config!LoadedInRange /\ Config!SavedAsGiven

\* "WriteConfig emits lxmd-style text parseable by ParseConfig." (config.go:235).
ConfigParseable == Beginning => Config!WrittenParses
=============================================================================
