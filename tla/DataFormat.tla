----------------------------- MODULE DataFormat -----------------------------
(***************************************************************************)
(* The IdsDataFormat files of one CyberController: upload of a custom      *)
(* file with a backup of the one it replaces, download with or without     *)
(* going back to the backup (backend/app/routes/cybercontroller.py), and   *)
(* the choice of the file for a version (modules/cc/cc_client.py).         *)
(*                                                                         *)
(* Both handlers run without an await from their first remote command to   *)
(* the end, so each is one step; what may fail in between is an outcome.   *)
(* A version is the sequence of its numbers, a file name the sequence of   *)
(* the digits between "IdsDataFormat" and ".xml".                          *)
(***************************************************************************)
EXTENDS Integers, Sequences, FiniteSets

CONSTANTS
  Asked,       \* versions that requests name
  OnHost,      \* versions whose files the CyberController comes with
  Customs,     \* contents of custom files
  NoFile       \* no such file

\* DefensePro comes in the major versions 8 and 10, a version has two numbers
\* or more, none of three digits.
ASSUME FormatAssumption ==
  \A v \in Asked \cup OnHost :
    /\ v \in Seq(Nat) /\ Len(v) >= 2
    /\ v[1] \in {8, 10}
    /\ \A i \in 2 .. Len(v) : v[i] \in 0 .. 99

-----------------------------------------------------------------------------
(* Versions and file names.                                                *)

Digits(n) == IF n < 10 THEN <<n>> ELSE <<n \div 10, n % 10>>
TwoDigits(n) == <<n \div 10, n % 10>>

\* _version_to_data_format: the first three numbers, all but the first padded.
Padded(v, i) == IF i <= Len(v) THEN TwoDigits(v[i]) ELSE <<>>
FileName(v)  == Digits(v[1]) \o Padded(v, 2) \o Padded(v, 3)

\* _extract_version_from_filename: the digits after the major version in pairs.
Pairs(d) ==
  [i \in 1 .. (Len(d) + 1) \div 2 |->
     IF 2 * i <= Len(d) THEN 10 * d[2 * i - 1] + d[2 * i] ELSE d[2 * i - 1]]
VersionOf(name) ==
  IF name[1] = 8
  THEN <<8>> \o Pairs(SubSeq(name, 2, Len(name)))
  ELSE <<10>> \o Pairs(SubSeq(name, 3, Len(name)))

\* Versions compare as tuples padded with zeros.
Number(v, i) == IF i <= Len(v) THEN v[i] ELSE 0
Less(v, w) ==
  \E i \in 1 .. 4 : /\ Number(v, i) < Number(w, i)
                    /\ \A j \in 1 .. i - 1 : Number(v, j) = Number(w, j)

\* _find_closest_lower_version: the highest of the versions up to the requested.
ClosestStrictlyLower(v, available) ==
  {w \in available : /\ Less(w, v)
                     /\ \A x \in available : Less(x, v) => ~ Less(w, x)}
ClosestLower(v, available) ==
  {w \in available : /\ ~ Less(v, w)
                     /\ \A x \in available : ~ Less(v, x) => ~ Less(w, x)}

-----------------------------------------------------------------------------
VARIABLES
  file,      \* file[n]: what the file of name n holds
  backup,    \* backup[n]: what its ".original" holds
  reply      \* the last document stored in or reused from irp_data_formats

formatVars == <<file, backup, reply>>

Names == {FileName(v) : v \in Asked \cup OnHost}

\* The file a CyberController comes with is named after itself.
Original(n) == [custom |-> FALSE, is |-> n]
Custom(c)   == [custom |-> TRUE, is |-> c]
Contents == {Original(n) : n \in Names} \cup {Custom(c) : c \in Customs}

ASSUME FileAssumption == NoFile \notin Contents

NoReply == [kind |-> "none"]

FormatTypeOK ==
  /\ file \in [Names -> Contents \cup {NoFile}]
  /\ backup \in [Names -> Contents \cup {NoFile}]
  /\ reply.kind \in {"none", "uploaded", "downloaded"}

FormatInit ==
  /\ file = [n \in Names |-> IF \E v \in OnHost : FileName(v) = n THEN Original(n) ELSE NoFile]
  /\ backup = [n \in Names |-> NoFile]
  /\ reply = NoReply

\* get_ids_data_formats
Available(files) == {VersionOf(n) : n \in {m \in Names : files[m] # NoFile}}

\* download_ids_data_format: the contents it may return.  A first attempt that
\* fails, for whatever reason, is followed by one for the closest lower version.
Fetched(v, files) ==
  ({files[FileName(v)]} \cup {files[FileName(w)] : w \in ClosestLower(v, Available(files))}) \ {NoFile}

-----------------------------------------------------------------------------
\* Of the commands, the one that looks for the backup may be lost, which reads
\* as if there were one.
Upload(v, c) ==
  LET n == FileName(v)
      files == [file EXCEPT ![n] = Custom(c)]
  IN
  \E lost \in BOOLEAN :
    LET backsUp == backup[n] = NoFile /\ ~ lost IN
    /\ backsUp => file[n] # NoFile
    /\ backup' = IF backsUp THEN [backup EXCEPT ![n] = file[n]] ELSE backup
    /\ \/ UNCHANGED <<file, reply>>               \* the upload fails
       \/ /\ file' = files
          /\ \/ UNCHANGED reply               \* a later step fails
             \/ \E got \in Fetched(v, files) :
                  reply' = [kind |-> "uploaded", version |-> v, content |-> got, sent |-> Custom(c)]

\* The files and backups a download may find or make: as they are, or with the
\* backup copied back and then removed; that the removal fails is not seen.
Served(n) ==
  LET restored == [file EXCEPT ![n] = backup[n]] IN
  {<<file, backup>>} \cup
  IF backup[n] = NoFile
  THEN {}
  ELSE {<<restored, backup>>, <<restored, [backup EXCEPT ![n] = NoFile]>>}

\* A document with this version and content is reused, or a new one is stored.
Download(v) ==
  \E served \in Served(FileName(v)) :
    /\ file' = served[1]
    /\ backup' = served[2]
    /\ \/ UNCHANGED reply
       \/ \E got \in Fetched(v, served[1]) :
            reply' = [kind |-> "downloaded", version |-> v, content |-> got, sent |-> got]

FormatNext == \E v \in Asked : (\E c \in Customs : Upload(v, c)) \/ Download(v)

FormatSpec == FormatInit /\ [][FormatNext]_formatVars

-----------------------------------------------------------------------------
(* Properties.                                                             *)

\* A schema answered for an upload is the one that was uploaded, also when the
\* first attempt to read it back fails and the closest lower version is taken
\* (which then has to be the file itself); a downloaded one that came with the
\* CyberController is never of a newer version than the one asked for.
SchemaIsTheOneAsked ==
  /\ reply.kind = "uploaded" => reply.content = reply.sent
  /\ reply.kind = "downloaded" /\ ~ reply.content.custom =>
       ~ Less(SubSeq(reply.version, 1, 3), VersionOf(reply.content.is))
=============================================================================
