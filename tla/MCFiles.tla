------------------------------ MODULE MCFiles ------------------------------
(* The data directory, in one run: who owns it, with its lock, its database   *)
(* and its discovery files ("store"); attachments that are uploaded, bound to *)
(* an input, deleted and copied to a branch ("uploads"); and files that a Run *)
(* exports or that a reply is saved to ("exports").  Ownership stays where it *)
(* starts in the other two, their variables are 0 in it.                      *)
EXTENDS OwnerStore

VARIABLES
  part,
  file, row, intent, pend, doubt, job, run, bound, preview, send, queued, saved, deaths

attachments == <<file, row, intent, pend, doubt, job, run, bound, preview, send, queued, saved, deaths>>
all == <<part, storeVars, attachments>>

\* The instance satisfies what the proofs assume.
ASSUME Instances == OwnerAssumption

Uploads == INSTANCE Attachments
             WITH crashes <- deaths, Ids <- {"i1", "i2", "i3"}, Kinds <- {"upload"}, Bodies <- {"x"},
                  Quota <- 2, Features <- {"branch", "delete", "age"}, MaxCrashes <- 1

Exports == INSTANCE Attachments
             WITH crashes <- deaths, Ids <- {"i1", "i2", "i3"}, Kinds <- {"export", "reply"},
                  Bodies <- {"x", "y"}, Quota <- 2, Features <- {}, MaxCrashes <- 1

NoAttachments ==
  /\ file = 0 /\ row = 0 /\ intent = 0 /\ pend = 0 /\ doubt = 0 /\ job = 0 /\ run = 0 /\ bound = 0
  /\ preview = 0 /\ send = 0 /\ queued = 0 /\ saved = 0 /\ deaths = 0

MCInit ==
  /\ StoreInit
  /\ \/ part = "store" /\ NoAttachments
     \/ part \in {"uploads", "exports"} /\ Uploads!Init

MCNext == \/ part = "store" /\ StoreNext /\ UNCHANGED <<part, attachments>>
          \/ part = "uploads" /\ Uploads!Next /\ UNCHANGED <<part, storeVars>>
          \/ part = "exports" /\ Exports!Next /\ UNCHANGED <<part, storeVars>>

MCSpec == MCInit /\ [][MCNext]_all

\* Files are readable while a record or a Run names them, stored once, sent in one
\* version and within the quota (attachments.go, attachment_selection.go).
FilesKept == /\ part = "uploads" => Uploads!FilesKept
             /\ part = "exports" => Exports!FilesKept

\* The copies a branch refers to exist (conversation_branch.go BranchConversation).
BranchBytesKept == part = "uploads" => Uploads!BranchBytesKept
=============================================================================
