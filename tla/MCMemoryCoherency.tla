------------------------- MODULE MCMemoryCoherency -------------------------
(***************************************************************************)
(* The three ways to make a memory object in one run: with no host pointer *)
(* (the constants of the configuration), on the host's memory, and copied  *)
(* from it.  Commands on images made of the object are part of the second  *)
(* one only, where they share the object's storage.                        *)
(***************************************************************************)
EXTENDS MemoryCoherency

VARIABLE made

\* The modes ensureMemoryCoherency asks for: read, read-write and write-only
\* commands; mappings for reading, for writing and for both.
AllModes == {{"read"}, {"read", "write"}, {"write"},
             {"map", "read"}, {"map", "write"}, {"map", "read", "write"}}

OnHost == INSTANCE MemoryCoherency WITH
    HostPtrMode <- "use", ImageCommands <- TRUE, MaxWrites <- 1
Copied == INSTANCE MemoryCoherency WITH HostPtrMode <- "copy"

MCInit ==
    \/ made = "none" /\ Init
    \/ made = "use" /\ OnHost!Init
    \/ made = "copy" /\ Copied!Init

MCNext ==
    /\ \/ made = "none" /\ Next
       \/ made = "use" /\ OnHost!Next
       \/ made = "copy" /\ Copied!Next
    /\ UNCHANGED made

MCSpec == MCInit /\ [][MCNext]_<<vars, made>>
=============================================================================
