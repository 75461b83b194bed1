------------------------------- MODULE LibraryMC -------------------------------
(***************************************************************************)
(* Small instances of the parts of the library that share no state, each   *)
(* run from an initial state of its own: the others stay where they are.   *)
(***************************************************************************)
EXTENDS SealedRecords, TreeClaims

VARIABLES
  part,                                            \* the part that runs
  key, records,                                    \* of BatchShapes
  buffers, todo, need, used, delivered, freed,     \* of Workspace
  published, now, got                              \* of ContentGrant

CONSTANTS
  Parts,
  rec1, rec2, rec3, key1, key2, kid1, kid2, ctx1, ctx2,
  MaxBatch, MaxPayload, MaxAad, MaxWork, Order, DataSizes, AadSizes, Scalars,
  MaxSize,
  Contents, SigningKeys, AesKeys, Principals, Reader, PublisherKey, ContentKey,
  Lifetime, MaxTime, MaxPublished, Unknown,
  page, page2, signer, signer2, aes, aes2, reader, reader2

ASSUME LibraryAssumption ==
  /\ MaxSize \in Nat
  /\ Nothing \notin Contents
  /\ Lifetime \in Nat /\ MaxTime \in Nat /\ MaxPublished \in Nat
  /\ MaxBatch \in Nat /\ MaxPayload \in Nat /\ MaxAad \in Nat /\ MaxWork \in Nat
  /\ Order \in Nat \ {0, 1}
  /\ DataSizes \subseteq Nat /\ AadSizes \subseteq Nat /\ Scalars \subseteq Nat

\* Three records, and two of them in another order.
MCExports == {<<rec1, rec2, rec3>>, <<rec2, rec1>>}

MCPinned == [key |-> key1, kid |-> kid1, context |-> ctx1]

\* Two contents of one length, told apart only by their hash.
MCLength == [content \in Contents |-> 7]

B == INSTANCE BatchShapes WITH Sizes <- DataSizes
W == INSTANCE Workspace
G == INSTANCE ContentGrant WITH Length <- MCLength

treeVars      == <<size, index, record, path>>
batchVars     == <<key, records>>
workspaceVars == <<buffers, todo, need, used, delivered, freed>>
grantVars     == <<published, now, got>>

MCInit ==
  /\ part \in Parts
  /\ Init /\ W!Init /\ G!Init
  /\ IF part = "tree" THEN ClaimInit ELSE size = 1 /\ index = 0 /\ record = r1 /\ path = <<>>
  /\ IF part = "batch" THEN B!Init ELSE key = B!Bytes(32, 1) /\ records = <<>>

MCNext ==
  /\ UNCHANGED part
  /\ \/ part = "records" /\ Next /\ UNCHANGED <<treeVars, batchVars, workspaceVars, grantVars>>
     \/ part = "tree" /\ ClaimNext /\ UNCHANGED <<vars, batchVars, workspaceVars, grantVars>>
     \/ part = "batch" /\ B!Next /\ UNCHANGED <<vars, treeVars, workspaceVars, grantVars>>
     \/ part = "workspace" /\ W!Next /\ UNCHANGED <<vars, treeVars, batchVars, grantVars>>
     \/ part = "grant" /\ G!Next /\ UNCHANGED <<vars, treeVars, batchVars, workspaceVars>>

MCSpec == MCInit /\ [][MCNext]_<<part, vars, treeVars, batchVars, workspaceVars, grantVars>>

-------------------------------------------------------------------------------
\* What a consumer of receipts and manifests accepts was sealed by whom it
\* trusts, for that record at that place, whatever its cache holds.
AcceptedWasSealed ==
  part = "records" => ReceiptProvesRecord /\ ManifestProvesExport /\ BatchesAreWhole

\* The proofs that the tree writes are accepted, and no others: not cut short,
\* not extended, not for another position of an uneven tree.
ProofsExact ==
  /\ part = "tree" => InclusionExact /\ GenuineProofsAccepted
  /\ part = "records" => SealedReceiptsAccepted /\ TreeSound

\* The bindings, the engine and the two backends draw every limit at one place
\* and answer alike, and what is sealed can be opened.
BackendsAlike ==
  part = "batch" =>
    B!SameVerdict /\ B!BackendsAgree /\ B!SignaturesAgree /\ B!SealedCanBeOpened

\* Results leave only when no buffer of the context holds data, no memory goes
\* back to the device with data in it, and no kernel runs on a buffer that is
\* missing or too small, whatever CUDA calls failed in this batch or before; the
\* sizes on record are those of the memory there is.
DeviceMemorySafe ==
  part = "workspace" => W!TypeOK /\ W!OutputsAfterClear /\ W!FreedIsClear /\ W!KernelFits

\* A consumer accepts what the trusted key published, within its window, for its
\* reader; and does accept that.
GrantsExact ==
  part = "grant" => G!TypeOK /\ G!GrantProvesContent /\ G!PublishedIsConsumable
===============================================================================
