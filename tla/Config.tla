------------------------------- MODULE Config ------------------------------
(***************************************************************************)
(* The configuration file as MprpcConfig reads it                          *)
(* (src/src/mprpcconfig.cc).  A file is a sequence of characters, of which *)
(* "sp", "nl", "=" and "#" mean something; m_configMap is a function.      *)
(***************************************************************************)
EXTENDS Naturals, Sequences, SequencesExt, FiniteSetsExt, TLC

CONSTANT BufSize   \* the size of buf, 512 in the code

ASSUME BufSizeAssumption == BufSize \in Nat /\ BufSize > 1

Where(s, c) == {i \in DOMAIN s : s[i] = c}

(* A string of spaces alone stays: find_first_not_of finds nothing.        *)
Trim(s) ==
    LET ink == DOMAIN s \ Where(s, "sp")
    IN  IF ink = {} THEN s ELSE SubSeq(s, Min(ink), Max(ink))

(* The strings that fgets gives. *)
RECURSIVE Reads(_)
Reads(file) ==
    IF file = <<>> THEN <<>>
    ELSE LET n == Min(Where(file, "nl") \cup {BufSize - 1, Len(file)})
         IN  <<SubSeq(file, 1, n)>> \o Reads(SubSeq(file, n + 1, Len(file)))

(* What one string adds to the map: nothing, if it is empty, a comment or  *)
(* has no "=".  The last line may have no end.                             *)
Entry(line) ==
    LET src == Trim(line)
        eq  == Where(src, "=")
    IN  IF src = <<>> \/ src[1] = "#" \/ eq = {} THEN <<>>
        ELSE LET idx == Min(eq)
                 end == Min({i \in Where(src, "nl") : i > idx} \cup {Len(src) + 1})
             IN  Trim(SubSeq(src, 1, idx - 1)) :> Trim(SubSeq(src, idx + 1, end - 1))

(* Mutant: a later line replaces an earlier one. *)
LoadConfigFileLast(file) ==
    FoldLeft(LAMBDA map, line : Entry(line) @@ map, <<>>, Reads(file))

(* insert keeps what is there. *)
LoadConfigFile(file) ==
    FoldLeft(LAMBDA map, line : map @@ Entry(line), <<>>, Reads(file))

Load(map, key) == IF key \in DOMAIN map THEN map[key] ELSE <<>>
=============================================================================
