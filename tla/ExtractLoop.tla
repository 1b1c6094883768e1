----------------------------- MODULE ExtractLoop -----------------------------
(***************************************************************************)
(* The loop every caller of the library runs, as in examples/extract.rs:   *)
(* open the archive, copy a file out (io::copy reads until Ok(0) or an     *)
(* error) or skip it, call next_file, and stop when it answers Ok(false)   *)
(* or an error.  Which files are copied is the caller's choice; a caller   *)
(* may also go on with the next file after a failed read.                  *)
(***************************************************************************)
EXTENDS ArchiveReader

(* The buffer io::copy reads into is not empty. *)
ASSUME CopyBufAssumption == 0 \notin BufLens

VARIABLES
  archive,   \* the stream being extracted
  phase,     \* "open", "file", "copy", "skip", "done" or "failed"
  visited    \* where the headers of the files offered to the caller start

loopVars == <<vars, archive, phase, visited>>

LoopInit ==
  Init /\ archive \in Sources /\ phase = "open" /\ visited = <<>>

(* What the loop does with the answer of new or next_file. *)
Follow ==
  \/ /\ last'.res = "some"
     /\ phase' = "file"
     /\ visited' = Append(visited, header'.start)
  \/ /\ last'.res = "none"
     /\ phase' = "done"
     /\ UNCHANGED visited
  \/ /\ last'.res = "err"
     /\ phase' = "failed"
     /\ UNCHANGED visited

Open == phase = "open" /\ New(archive) /\ Follow /\ UNCHANGED archive

(* is_decoder_supported, asked before the copy. *)
BeginCopy ==
  /\ phase = "file"
  /\ decoder.kind # "unsupported"
  /\ phase' = "copy"
  /\ UNCHANGED vars /\ UNCHANGED <<archive, visited>>

CopyChunk ==
  /\ phase = "copy"
  /\ \E n \in BufLens : Read(n)
  /\ phase' = IF last'.res = "ok" /\ last'.len > 0 THEN "copy" ELSE "skip"
  /\ UNCHANGED <<archive, visited>>

NextOne == phase \in {"file", "skip"} /\ NextFile /\ Follow /\ UNCHANGED archive

Ended == phase \in {"done", "failed"} /\ UNCHANGED loopVars

LoopNext == Open \/ BeginCopy \/ CopyChunk \/ NextOne \/ Ended

(* The loop is sequential code: while it has a step to take it takes it. *)
LoopSpec == LoopInit /\ [][LoopNext]_loopVars /\ WF_loopVars(LoopNext)

-----------------------------------------------------------------------------
(* The archive's table of contents, straight from its layout: a file       *)
(* begins where the data of the one before ends.                           *)
FilesFrom(s) ==
  LET From[p \in 0..Eof[s]] ==
        LET item == ItemAt(s, p)
            next == p + item.hlen + item.csize
        IN IF p = Eof[s] \/ item.kind \notin DecoderKinds \/ p + item.hlen > Eof[s]
           THEN <<>>
           ELSE <<p>> \o (IF next > Eof[s] THEN <<>> ELSE From[next])
  IN From

Contents == FilesFrom(archive)[0]

(* A loop that next_file ended with Ok(false) was offered every file of    *)
(* the archive, once and in order, whichever files it copied, skipped or   *)
(* failed to decode; before that it was offered the first few of them.     *)
OffersEveryFile ==
  /\ phase = "done" => visited = Contents
  /\ Len(visited) <= Len(Contents) /\ visited = SubSeq(Contents, 1, Len(visited))

(* The loop ends: reads reach Ok(0) or fail, and next_file gets closer to  *)
(* the end of the archive.                                                 *)
LoopEnds == <>(phase \in {"done", "failed"})
=============================================================================
