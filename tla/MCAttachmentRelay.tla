-------------------------- MODULE MCAttachmentRelay --------------------------
(***************************************************************************)
(* Small instances of AttachmentRelay: a transfer of two chunks, a second  *)
(* one of one chunk, a chunk that re-declares its transfer, and one that   *)
(* is cut too fine.                                                        *)
(***************************************************************************)
EXTENDS AttachmentRelay

mcChunk(capability, index, totalChunks, bytes, form) ==
  [capability |-> capability, transferID |-> capability, recipient |-> "bob",
   index |-> index, totalChunks |-> totalChunks, bytes |-> bytes, form |-> form]

mcChunks == {mcChunk("k1", 0, 2, 1, "ok"), mcChunk("k1", 1, 2, 2, "ok"),
             mcChunk("k2", 0, 1, 1, "ok"), mcChunk("k1", 2, 3, 1, "ok"),
             mcChunk("k2", 0, 9, 1, "oversliced")}

\* A circle of one live transfer and three bytes a day, one of two bytes an attachment.
mcTerms == <<[attachmentBytes |-> 0, concurrentTransfers |-> 1, transitBytesPerDay |-> 3],
             [attachmentBytes |-> 2, concurrentTransfers |-> 0, transitBytesPerDay |-> 9]>>
mcTermsOf == [c \in Callers |->
                IF c = NoCredential
                THEN [attachmentBytes |-> 0, concurrentTransfers |-> 0, transitBytesPerDay |-> 0]
                ELSE mcTerms[c]]
=============================================================================
