----------------------------- MODULE SetupProofs -----------------------------
(***************************************************************************)
(* Proofs about Setup, for any number of runs and chunks: one identity,    *)
(* and a model that is the pinned one unless two downloads overlapped.     *)
(***************************************************************************)
EXTENDS Setup, TLAPS

\* Only one run is ever about to write the key, and the key a run exports is the
\* key of the file.
KeyInv ==
  /\ \A r, s \in Runs : at[r] = "write" => key = Empty /\ (at[s] = "write" => s = r)
  /\ \A r \in Runs : at[r] \in {"truncate", "pub"} => key \in Runs /\ loaded[r] = key
  /\ OneIdentity

\* Two downloads in flight have met.
Met == \A r, s \in Runs : at[r] \in Fetching /\ at[s] \in Fetching /\ r # s => r \in overlapped

\* A run that has not opened .part has made no file of the two.
Fresh ==
  \A r \in Runs : at[r] \in {"idle", "get"} => part # r /\ dest # r /\ fetch[r].received = 0

\* The .part of a download that met no other is its own and holds what it received.
OwnPart ==
  \A r \in Runs : at[r] \in {"receive", "check", "publish"} /\ r \notin overlapped =>
    /\ part = fetch[r].inode
    /\ fetch[r].sound => \A i \in 1..fetch[r].received : content[fetch[r].inode][i] = "good"

Checked == \A r \in Runs : at[r] = "publish" => Verified(r)

\* Who published the model had checked what it received.
PublisherChecked ==
  dest # Absent => publisher \in Runs /\ at[publisher] = "fetched" /\ Verified(publisher)

PinnedUnlessMet == dest # Absent => Pinned(dest) \/ publisher \in overlapped

\* A download that writes into the model file has met the one that published it.
ModelAlone ==
  \A r \in Runs : at[r] = "receive" /\ fetch[r].inode = dest => publisher \in overlapped

PartIsNotModel == part # Absent => part # dest

FetchInv == Met /\ Fresh /\ OwnPart /\ Checked /\ ModelAlone /\ PartIsNotModel /\ PinnedUnlessMet

SetupInv == TypeOK /\ KeyInv /\ FetchInv /\ PublisherChecked

LEMMA InitInv == Init => SetupInv
<1> SUFFICES ASSUME Init PROVE SetupInv
  OBVIOUS
<1> USE SetupAssumption, ChunksAssumption DEF Init
<1>1. TypeOK
  BY DEF TypeOK, Blank
<1>2. KeyInv
  BY DEF KeyInv, OneIdentity
<1>3. FetchInv
  BY DEF FetchInv, Met, Fresh, OwnPart, Checked, Verified, ModelAlone, PartIsNotModel, PinnedUnlessMet,
         Fetching
<1>4. PublisherChecked
  BY DEF PublisherChecked
<1> QED
  BY <1>1, <1>2, <1>3, <1>4 DEF SetupInv

-----------------------------------------------------------------------------
(* keygen                                                                  *)

\* The steps of keygen leave the key what it is, once it is one.
LEMMA KeygenKeepsKeyInv ==
  ASSUME TypeOK, KeyInv, NEW r \in Runs, KeygenStep(r), UNCHANGED modelVars
  PROVE  TypeOK' /\ KeyInv'
<1> USE SetupAssumption DEF TypeOK, KeyInv, OneIdentity, Goes, modelVars, Keygen, Fetching
<1>1. CASE BeginKeygen(r)
  BY <1>1 DEF BeginKeygen, keyVars
<1>2. CASE CreateKey(r)
  BY <1>2 DEF CreateKey
<1>3. CASE WriteKey(r)
  BY <1>3 DEF WriteKey
<1>4. CASE LoadKey(r)
  BY <1>4 DEF LoadKey
<1>5. CASE TruncatePub(r)
  BY <1>5 DEF TruncatePub
<1>6. CASE WritePub(r)
  BY <1>6 DEF WritePub
<1> QED
  BY <1>1, <1>2, <1>3, <1>4, <1>5, <1>6 DEF KeygenStep

\* A step that moves no run into, along or between the places of a download, and
\* leaves its files alone, leaves FetchInv alone.
LEMMA KeygenKeepsFetchInv ==
  ASSUME TypeOK, FetchInv, NEW r \in Runs, KeygenStep(r), UNCHANGED modelVars
  PROVE  FetchInv'
<1>1. \A s \in Runs : at'[s] = at[s] \/ at'[s] \notin Fetching \union {"idle"}
  BY DEF TypeOK, KeygenStep, Goes, BeginKeygen, CreateKey, WriteKey, LoadKey, TruncatePub,
         WritePub, Fetching
<1> QED
  BY <1>1 DEF FetchInv, Met, Fresh, OwnPart, Checked, Verified, ModelAlone, PartIsNotModel,
              PinnedUnlessMet, Pinned, modelVars, Fetching

-----------------------------------------------------------------------------
(* fetch-models                                                            *)

LEMMA FetchKeepsTypes ==
  ASSUME TypeOK, NEW r \in Runs, FetchStep(r), UNCHANGED keyVars
  PROVE  TypeOK'
<1> USE SetupAssumption, ChunksAssumption DEF TypeOK, Goes, keyVars, Keygen, Fetching
<1>1. CASE BeginFetch(r)
  BY <1>1 DEF BeginFetch, Meets, InFlight, modelVars
<1>2. CASE NotOffered(r) \/ BodyEnds(r)
  BY <1>2 DEF NotOffered, BodyEnds, modelVars
<1>3. CASE RequestFails(r)
  BY <1>3 DEF RequestFails
<1>4. CASE OpenPart(r)
  <2> DEFINE inode == IF part = Absent THEN r ELSE part
  <2>1. inode \in Runs
    OBVIOUS
  <2>2. content' = [content EXCEPT ![inode] = Blank] /\ fetch' = [fetch EXCEPT ![r].inode = inode]
        /\ part' = inode /\ UNCHANGED <<dest, publisher, overlapped>>
        /\ at' = [at EXCEPT ![r] = "receive"]
    BY <1>4 DEF OpenPart
  <2>3. Blank \in [1..Chunks -> {"none", "good", "bad"}]
    BY DEF Blank
  <2> HIDE DEF inode
  <2>4. content' \in [Runs -> [1..Chunks -> {"none", "good", "bad"}]]
    BY <2>1, <2>2, <2>3
  <2>5. fetch' \in [Runs -> [inode : Runs, received : 0..Chunks, sound : BOOLEAN]]
    BY <2>1, <2>2
  <2> QED
    BY <2>1, <2>2, <2>4, <2>5
<1>5. ASSUME NEW good \in BOOLEAN, ReceiveChunk(r, good) PROVE TypeOK'
  <2> DEFINE next == fetch[r].received + 1
  <2> DEFINE inode == fetch[r].inode
  <2> DEFINE sound == fetch[r].sound /\ good
  <2>1. next \in 1..Chunks /\ inode \in Runs
    BY <1>5 DEF ReceiveChunk
  <2>2. /\ content' = [content EXCEPT ![inode][next] = IF good THEN "good" ELSE "bad"]
        /\ fetch' = [fetch EXCEPT ![r].received = next, ![r].sound = sound]
        /\ UNCHANGED <<at, part, dest, publisher, overlapped>>
    BY <1>5 DEF ReceiveChunk
  <2>3. sound \in BOOLEAN
    OBVIOUS
  <2> HIDE DEF next, inode, sound
  <2>4. content' \in [Runs -> [1..Chunks -> {"none", "good", "bad"}]]
    BY <2>1, <2>2
  <2>5. fetch' \in [Runs -> [inode : Runs, received : 0..Chunks, sound : BOOLEAN]]
    <3> DEFINE new == [fetch[r] EXCEPT !.received = next, !.sound = sound]
    <3>1. new \in [inode : Runs, received : 0..Chunks, sound : BOOLEAN]
      <4>1. fetch[r] \in [inode : Runs, received : 0..Chunks, sound : BOOLEAN] /\ next \in 0..Chunks
        BY <2>1
      <4> QED
        BY <4>1, <2>3, Zenon
    <3>2. fetch' = [fetch EXCEPT ![r] = new]
      BY <2>2
    <3> HIDE DEF new
    <3> QED
      BY <3>1, <3>2
  <2> QED
    BY <2>2, <2>4, <2>5
<1>6. CASE CheckDigest(r)
  BY <1>6 DEF CheckDigest, modelVars
<1>7. CASE Publish(r)
  BY <1>7 DEF Publish, modelVars
<1> QED
  BY <1>1, <1>2, <1>3, <1>4, <1>5, <1>6, <1>7 DEF FetchStep

LEMMA FetchKeepsKeyInv ==
  ASSUME TypeOK, KeyInv, NEW r \in Runs, FetchStep(r), UNCHANGED keyVars
  PROVE  KeyInv'
<1>1. \A s \in Runs : at'[s] = at[s] \/ at'[s] \notin {"write", "truncate", "pub"}
  BY DEF TypeOK, FetchStep, Goes, BeginFetch, NotOffered, RequestFails, OpenPart, ReceiveChunk,
         BodyEnds, CheckDigest, Publish
<1> QED
  BY <1>1 DEF KeyInv, OneIdentity, keyVars

LEMMA FetchKeepsFetchInv ==
  ASSUME TypeOK, FetchInv, NEW r \in Runs, FetchStep(r), UNCHANGED keyVars
  PROVE  FetchInv'
<1> USE SetupAssumption, ChunksAssumption DEF TypeOK, FetchInv, Goes, Fetching
<1>1. CASE BeginFetch(r)
  <2>1. Met'
    BY <1>1 DEF Met, BeginFetch, Meets, InFlight, modelVars
  <2>2. Fresh'
    BY <1>1 DEF Fresh, BeginFetch, Meets, InFlight, modelVars
  <2>3. OwnPart'
    BY <1>1 DEF OwnPart, BeginFetch, Meets, InFlight, modelVars
  <2>4. Checked'
    BY <1>1 DEF Checked, Verified, BeginFetch, Meets, InFlight, modelVars
  <2>5. ModelAlone'
    BY <1>1 DEF ModelAlone, BeginFetch, Meets, InFlight, modelVars
  <2>6. PartIsNotModel'
    BY <1>1 DEF PartIsNotModel, BeginFetch, Meets, InFlight, modelVars
  <2>7. PinnedUnlessMet'
    BY <1>1 DEF PinnedUnlessMet, BeginFetch, Meets, InFlight, modelVars, Pinned
  <2> QED
    BY <2>1, <2>2, <2>3, <2>4, <2>5, <2>6, <2>7
<1>2. CASE NotOffered(r) \/ BodyEnds(r)
  <2>1. Met'
    BY <1>2 DEF Met, NotOffered, BodyEnds, modelVars
  <2>2. Fresh'
    BY <1>2 DEF Fresh, NotOffered, BodyEnds, modelVars
  <2>3. OwnPart'
    BY <1>2 DEF OwnPart, NotOffered, BodyEnds, modelVars
  <2>4. Checked'
    BY <1>2 DEF Checked, Verified, NotOffered, BodyEnds, modelVars
  <2>5. ModelAlone'
    BY <1>2 DEF ModelAlone, NotOffered, BodyEnds, modelVars
  <2>6. PartIsNotModel'
    BY <1>2 DEF PartIsNotModel, NotOffered, BodyEnds, modelVars
  <2>7. PinnedUnlessMet'
    BY <1>2 DEF PinnedUnlessMet, NotOffered, BodyEnds, modelVars, Pinned
  <2> QED
    BY <2>1, <2>2, <2>3, <2>4, <2>5, <2>6, <2>7
<1>3. CASE RequestFails(r)
  <2>1. Met'
    BY <1>3 DEF Met, RequestFails
  <2>2. Fresh'
    BY <1>3 DEF Fresh, RequestFails
  <2>3. OwnPart'
    <3>1. ASSUME NEW s \in Runs, at'[s] \in {"receive", "check", "publish"}, s \notin overlapped'
          PROVE  FALSE
      <4>1. /\ at[r] \in {"get", "receive"} /\ at' = [at EXCEPT ![r] = "failed"]
            /\ overlapped' = overlapped
        BY <1>3 DEF RequestFails
      <4>2. s # r /\ at[s] = at'[s]
        BY <3>1, <4>1
      <4> QED
        BY <3>1, <4>1, <4>2 DEF Met
    <3> QED
      BY <3>1 DEF OwnPart
  <2>4. Checked'
    BY <1>3 DEF Checked, Verified, RequestFails
  <2>5. ModelAlone'
    BY <1>3 DEF ModelAlone, RequestFails
  <2>6. PartIsNotModel'
    BY <1>3 DEF PartIsNotModel, RequestFails
  <2>7. PinnedUnlessMet'
    BY <1>3 DEF PinnedUnlessMet, RequestFails, Pinned
  <2> QED
    BY <2>1, <2>2, <2>3, <2>4, <2>5, <2>6, <2>7
<1>4. CASE OpenPart(r)
  <2>1. Met'
    BY <1>4 DEF Met, OpenPart
  <2>2. Fresh'
    BY <1>4 DEF Fresh, OpenPart
  <2>3. OwnPart'
    BY <1>4 DEF OwnPart, OpenPart, Met, Fresh
  <2>4. Checked'
    BY <1>4 DEF Checked, Verified, OpenPart
  <2>5. ModelAlone'
    BY <1>4 DEF ModelAlone, OpenPart, Fresh, PartIsNotModel
  <2>6. PartIsNotModel'
    BY <1>4 DEF PartIsNotModel, OpenPart, Fresh
  <2>7. PinnedUnlessMet'
    BY <1>4 DEF PinnedUnlessMet, OpenPart, Fresh, PartIsNotModel, Pinned
  <2> QED
    BY <2>1, <2>2, <2>3, <2>4, <2>5, <2>6, <2>7
<1>5. ASSUME NEW good \in BOOLEAN, ReceiveChunk(r, good) PROVE FetchInv'
  <2>1. Met'
    BY <1>5 DEF Met, ReceiveChunk
  <2>2. Fresh'
    BY <1>5 DEF Fresh, ReceiveChunk
  <2>3. OwnPart'
    BY <1>5 DEF OwnPart, ReceiveChunk, Met
  <2>4. Checked'
    BY <1>5 DEF Checked, Verified, ReceiveChunk
  <2>5. ModelAlone'
    BY <1>5 DEF ModelAlone, ReceiveChunk
  <2>6. PartIsNotModel'
    BY <1>5 DEF PartIsNotModel, ReceiveChunk
  <2>7. PinnedUnlessMet'
    BY <1>5 DEF PinnedUnlessMet, ReceiveChunk, ModelAlone, Pinned
  <2> QED
    BY <2>1, <2>2, <2>3, <2>4, <2>5, <2>6, <2>7
<1>6. CASE CheckDigest(r)
  <2>1. Met'
    BY <1>6 DEF Met, CheckDigest, modelVars
  <2>2. Fresh'
    BY <1>6 DEF Fresh, CheckDigest, modelVars
  <2>3. OwnPart'
    BY <1>6 DEF OwnPart, CheckDigest, Verified, modelVars, Met
  <2>4. Checked'
    BY <1>6 DEF Checked, Verified, CheckDigest, modelVars
  <2>5. ModelAlone'
    BY <1>6 DEF ModelAlone, CheckDigest, modelVars
  <2>6. PartIsNotModel'
    BY <1>6 DEF PartIsNotModel, CheckDigest, modelVars
  <2>7. PinnedUnlessMet'
    BY <1>6 DEF PinnedUnlessMet, CheckDigest, modelVars, Pinned
  <2> QED
    BY <2>1, <2>2, <2>3, <2>4, <2>5, <2>6, <2>7
<1>7. CASE Publish(r)
  <2>1. Met'
    BY <1>7 DEF Met, Publish, modelVars
  <2>2. Fresh'
    BY <1>7 DEF Fresh, Publish, modelVars
  <2>3. OwnPart'
    BY <1>7 DEF OwnPart, Publish, modelVars, Met
  <2>4. Checked'
    BY <1>7 DEF Checked, Verified, Publish, modelVars
  <2>5. ModelAlone'
    BY <1>7 DEF ModelAlone, Publish, modelVars, Met
  <2>6. PartIsNotModel'
    BY <1>7 DEF PartIsNotModel, Publish, modelVars
  <2>7. PinnedUnlessMet'
    BY <1>7 DEF PinnedUnlessMet, Publish, modelVars, OwnPart, Checked, Verified, Pinned
  <2> QED
    BY <2>1, <2>2, <2>3, <2>4, <2>5, <2>6, <2>7
<1> QED
  BY <1>1, <1>2, <1>3, <1>4, <1>5, <1>6, <1>7 DEF FetchStep

\* A run is done once, and what it received no longer changes.
LEMMA PublisherStaysChecked ==
  ASSUME TypeOK, Checked, PublisherChecked, NEW r \in Runs,
         (KeygenStep(r) /\ UNCHANGED modelVars) \/ FetchStep(r) \/ BreaksOff(r)
  PROVE  PublisherChecked'
<1> USE DEF TypeOK, PublisherChecked, Verified, Goes
<1>1. CASE (KeygenStep(r) /\ UNCHANGED modelVars) \/ BreaksOff(r)
  BY <1>1 DEF KeygenStep, BeginKeygen, CreateKey, WriteKey, LoadKey, TruncatePub, WritePub, BreaksOff,
              Keygen, Fetching, modelVars
<1>2. CASE BeginFetch(r) \/ NotOffered(r) \/ RequestFails(r) \/ BodyEnds(r) \/ CheckDigest(r)
  BY <1>2 DEF BeginFetch, NotOffered, RequestFails, BodyEnds, CheckDigest, Meets, modelVars
<1>3. CASE OpenPart(r)
  BY <1>3 DEF OpenPart
<1>4. ASSUME NEW good \in BOOLEAN, ReceiveChunk(r, good) PROVE PublisherChecked'
  BY <1>4 DEF ReceiveChunk
<1>5. CASE Publish(r)
  BY <1>5 DEF Publish, Checked, modelVars
<1> QED
  BY <1>1, <1>2, <1>3, <1>4, <1>5 DEF FetchStep

-----------------------------------------------------------------------------
LEMMA NextInv == SetupInv /\ [Next]_vars => SetupInv'
<1> SUFFICES ASSUME SetupInv, [Next]_vars PROVE SetupInv'
  OBVIOUS
<1> USE DEF SetupInv
<1>1. ASSUME NEW r \in Runs, KeygenStep(r), UNCHANGED modelVars PROVE SetupInv'
  BY <1>1, KeygenKeepsKeyInv, KeygenKeepsFetchInv, PublisherStaysChecked DEF FetchInv
<1>2. ASSUME NEW r \in Runs, FetchStep(r), UNCHANGED keyVars PROVE SetupInv'
  <2>1. TypeOK' /\ KeyInv' /\ FetchInv'
    BY <1>2, FetchKeepsTypes, FetchKeepsKeyInv, FetchKeepsFetchInv
  <2>2. PublisherChecked'
    BY <1>2, PublisherStaysChecked DEF FetchInv
  <2> QED
    BY <2>1, <2>2
<1>3. ASSUME NEW r \in Runs, BreaksOff(r) PROVE SetupInv'
  <2>1. TypeOK' /\ KeyInv'
    BY <1>3 DEF BreaksOff, TypeOK, KeyInv, OneIdentity, keyVars, modelVars, Fetching
  <2>2. FetchInv'
    BY <1>3 DEF BreaksOff, TypeOK, FetchInv, Met, Fresh, OwnPart, Checked, Verified, ModelAlone,
                PartIsNotModel, PinnedUnlessMet, Pinned, modelVars, Fetching
  <2>3. PublisherChecked'
    BY <1>3, PublisherStaysChecked DEF FetchInv
  <2> QED
    BY <2>1, <2>2, <2>3
<1>4. CASE UseKey
  <2>1. TypeOK' /\ KeyInv'
    BY <1>4, SetupAssumption DEF UseKey, TypeOK, KeyInv, OneIdentity, modelVars
  <2>2. FetchInv' /\ PublisherChecked'
    BY <1>4 DEF UseKey, FetchInv, Met, Fresh, OwnPart, Checked, Verified, ModelAlone, PartIsNotModel,
                PinnedUnlessMet, PublisherChecked, Pinned, modelVars
  <2> QED
    BY <2>1, <2>2
<1>5. CASE UNCHANGED vars
  <2>1. TypeOK' /\ KeyInv'
    BY <1>5 DEF vars, TypeOK, KeyInv, OneIdentity, keyVars, modelVars
  <2>2. FetchInv' /\ PublisherChecked'
    BY <1>5 DEF vars, FetchInv, Met, Fresh, OwnPart, Checked, Verified, ModelAlone, PartIsNotModel,
                PinnedUnlessMet, PublisherChecked, Pinned, modelVars
  <2> QED
    BY <2>1, <2>2
<1> QED
  BY <1>1, <1>2, <1>3, <1>4, <1>5 DEF Next

LEMMA Invariance == Spec => []SetupInv
  BY InitInv, NextInv, PTL DEF Spec

\* Every reachable state of the files and runs of Setup is well typed.
THEOREM SetupTypes == Spec => []TypeOK
  BY Invariance, PTL DEF SetupInv

\* However many keygens overlap or break off, one key is ever used.
THEOREM Identity == Spec => []OneIdentity
  BY Invariance, PTL DEF SetupInv, KeyInv

\* The run that published the model file had received the pinned model, however many
\* downloads overlap or break off, and the file holds it unless that run met another.
THEOREM Download == Spec => []FetchedIsPinned
<1>1. SetupInv => FetchedIsPinned
  BY DEF SetupInv, FetchInv, PublisherChecked, PinnedUnlessMet, FetchedIsPinned
<1> QED
  BY Invariance, <1>1, PTL

\* Exit code 0 means that the .pub is the key's, or that the model file is the pinned
\* model; a fetch that overlapped another has only received or found the pinned model.
THEOREM Done == Spec => ExitZeroMeansDone
<1> DEFINE Exits ==
      \A r \in Runs :
        /\ at[r] = "pub" /\ at'[r] = "keyed" => key' \in Runs /\ pub' = key'
        /\ at[r] # "fetched" /\ at'[r] = "fetched"
               => Pinned(dest)' \/ (r \in overlapped' /\ Verified(r)')
<1>1. ASSUME SetupInv, Next PROVE Exits
  <2> USE <1>1 DEF SetupInv
  <2>1. ASSUME NEW r \in Runs, KeygenStep(r) PROVE Exits
    BY <2>1 DEF KeygenStep, BeginKeygen, CreateKey, WriteKey, LoadKey, TruncatePub, WritePub, Goes,
                KeyInv, TypeOK
  <2>2. ASSUME NEW r \in Runs, FetchStep(r) PROVE Exits
    <3> USE DEF Goes, TypeOK
    <3>1. CASE BeginFetch(r)
      BY <3>1 DEF BeginFetch, modelVars, Pinned
    <3>2. CASE Publish(r)
      <4>1. part = Absent => at'[r] = "failed"
        BY <3>2 DEF Publish
      <4>2. part # Absent /\ r \notin overlapped => Pinned(part)
        BY <3>2 DEF Publish, FetchInv, OwnPart, Checked, Verified, Pinned
      <4>3. part # Absent => dest' = part /\ content' = content /\ overlapped' = overlapped
        BY <3>2 DEF Publish
      <4>4. part # Absent => Verified(r)'
        BY <3>2 DEF Publish, FetchInv, Checked, Verified
      <4> QED
        BY <3>2, <4>1, <4>2, <4>3, <4>4 DEF Publish, modelVars, Pinned
    <3>3. CASE ~BeginFetch(r) /\ ~Publish(r)
      BY <2>2, <3>3 DEF FetchStep, NotOffered, RequestFails, OpenPart, ReceiveChunk, BodyEnds,
                        CheckDigest
    <3> QED
      BY <3>1, <3>2, <3>3
  <2>3. CASE UseKey \/ \E r \in Runs : BreaksOff(r)
    BY <2>3 DEF UseKey, BreaksOff, TypeOK
  <2> QED
    BY <1>1, <2>1, <2>2, <2>3 DEF Next
<1>2. SetupInv /\ [Next]_vars => [Exits]_vars
  BY <1>1
<1> QED
  BY Invariance, <1>2, PTL DEF Spec, ExitZeroMeansDone
=============================================================================
