----------------------------- MODULE FactorFile -----------------------------
(* How the factor binary saves the file of one date                          *)
(* (SaveResultsToH5CollectTimestamp): it writes <path>.temp and renames it.  *)
(* A file is named here by the job that wrote it, so that a rename or a      *)
(* deletion moves a name and leaves the file.  Nothing keeps two jobs of one *)
(* date apart: they use the same two names.                                  *)
EXTENDS Naturals, Sequences

VARIABLES
    file,     \* file[k]: the file job k writes at its date: "none", "open", "whole", "invalid"
    temp,     \* temp[d]: the job whose file has the temporary name of date d, or 0
    target    \* target[d]: the file under the final name of date d: [by, state], or NoFile

fileVars == <<file, temp, target>>

NoFile == [by |-> 0, state |-> "none"]

InitFiles(dates) ==
    /\ file = <<>>
    /\ temp = [d \in dates |-> 0]
    /\ target = [d \in dates |-> NoFile]

\* The files under the final names once job k has brought its own to a state:
\* one of them may be that file, if another job has renamed it.
SeenAs(k, d, state) ==
    IF target[d].by = k THEN [target EXCEPT ![d].state = state] ELSE target

\* A stale temporary file is deleted and a new one created.
CreateFile(k, d) ==
    /\ temp' = [temp EXCEPT ![d] = k]
    /\ file' = [file EXCEPT ![k] = "open"]
    /\ UNCHANGED target

\* H5Fclose.
CloseFile(k, d, state) ==
    /\ file' = [file EXCEPT ![k] = state]
    /\ target' = SeenAs(k, d, state)
    /\ UNCHANGED temp

\* H5Fclose fails: what has the temporary name is deleted, nothing is renamed,
\* and the binary goes on to its end.  (H5Fcreate that fails ends the same.)
CloseFileFails(d) ==
    /\ temp' = [temp EXCEPT ![d] = 0]
    /\ UNCHANGED <<file, target>>

\* tools_CommitTempFile renames whatever has the temporary name; when there
\* is nothing the binary only logs it.
CommitFile(d) ==
    /\ target' = IF temp[d] = 0 THEN target
                 ELSE [target EXCEPT ![d] = [by |-> temp[d], state |-> file[temp[d]]]]
    /\ temp' = [temp EXCEPT ![d] = 0]
    /\ UNCHANGED file
=============================================================================
