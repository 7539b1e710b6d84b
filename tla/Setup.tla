-------------------------------- MODULE Setup --------------------------------
(***************************************************************************)
(* The one-off commands that put on disk what the jobs rely on: keygen of  *)
(* the camera (sign.py), which makes the one signing key and its public    *)
(* sidecar, and fetch-models of the bench (fetch.py), which downloads a    *)
(* pinned model.  Neither takes a lock.  Any number of either may run one  *)
(* after the other or at once, and each can be killed, or stopped by a     *)
(* failed file operation, at any step.                                     *)
(***************************************************************************)
EXTENDS Integers, FiniteSets

CONSTANTS
  Runs,      \* the commands ever run; a key is named by the run that generated it,
             \* an inode of the download by the run that created it
  Absent,    \* no such file
  Empty,     \* a file without a usable key: empty or cut off
  Chunks     \* how many chunks a model has

ASSUME SetupAssumption == Absent \notin Runs /\ Empty \notin Runs /\ Absent # Empty
ASSUME ChunksAssumption == Chunks \in Nat \ {0}

VARIABLES
  at,          \* where each run is
  key, pub,    \* ed25519.key and ed25519.pub
  loaded,      \* the key each run has read
  known,       \* history: the keys printed, signed with or trusted by a sink
  part, dest,  \* the inodes that the .part file and the model file name
  content,     \* the chunks of each inode
  fetch,       \* the locals of each download
  publisher,   \* history: the run that named dest
  overlapped   \* history: the downloads that met another one

keyVars == <<key, pub, loaded, known>>
modelVars == <<part, dest, content, fetch, publisher, overlapped>>
vars == <<at, keyVars, modelVars>>

Keygen == {"create", "write", "export", "truncate", "pub"}
Fetching == {"get", "receive", "check", "publish"}
Blank == [i \in 1..Chunks |-> "none"]

Init ==
  /\ at = [r \in Runs |-> "idle"]
  /\ key = Absent /\ pub = Absent
  /\ loaded = [r \in Runs |-> Absent]
  /\ known = {}
  /\ part = Absent /\ dest = Absent
  /\ content = [r \in Runs |-> Blank]
  /\ fetch = [r \in Runs |-> [inode |-> r, received |-> 0, sound |-> TRUE]]
  /\ publisher = Absent
  /\ overlapped = {}

\* Every state of every file and every run.
TypeOK ==
  /\ at \in [Runs -> {"idle", "keyed", "fetched", "failed", "cut"} \union Keygen \union Fetching]
  /\ key \in Runs \union {Absent, Empty} /\ pub \in Runs \union {Absent, Empty}
  /\ loaded \in [Runs -> Runs \union {Absent}]
  /\ known \subseteq Runs
  /\ part \in Runs \union {Absent} /\ dest \in Runs \union {Absent}
  /\ content \in [Runs -> [1..Chunks -> {"none", "good", "bad"}]]
  /\ fetch \in [Runs -> [inode : Runs, received : 0..Chunks, sound : BOOLEAN]]
  /\ publisher \in Runs \union {Absent}
  /\ overlapped \subseteq Runs

Goes(r, from, to) == at[r] = from /\ at' = [at EXCEPT ![r] = to]

\* Killed, or a file operation raises OSError: exit 1 for keygen, 2 for
\* fetch-models, and everything stays as it is.
BreaksOff(r) ==
  /\ at[r] \in Keygen \union Fetching
  /\ at' = [at EXCEPT ![r] = "cut"]
  /\ UNCHANGED <<keyVars, modelVars>>

-----------------------------------------------------------------------------
(* keygen                                                                  *)

\* key_path.exists(), asked before anything is generated.
BeginKeygen(r) ==
  /\ Goes(r, "idle", IF key = Absent THEN "create" ELSE "export")
  /\ UNCHANGED keyVars

\* Mutant: without O_EXCL the file of a faster run is truncated.
CreatesAnyway(r) ==
  /\ Goes(r, "create", "write")
  /\ key' = Empty
  /\ UNCHANGED <<pub, loaded, known>>

\* O_CREAT | O_EXCL: a run that lost the race exports the winner's key.
CreateKey(r) ==
  /\ Goes(r, "create", IF key = Absent THEN "write" ELSE "export")
  /\ key' = IF key = Absent THEN Empty ELSE key
  /\ UNCHANGED <<pub, loaded, known>>

WriteKey(r) ==
  /\ Goes(r, "write", "export")
  /\ key' = r
  /\ UNCHANGED <<pub, loaded, known>>

\* load_signing_key raises ValueError on a file that holds no key: exit 1.
LoadKey(r) ==
  /\ Goes(r, "export", IF key \in Runs THEN "truncate" ELSE "failed")
  /\ loaded' = [loaded EXCEPT ![r] = IF key \in Runs THEN key ELSE Absent]
  /\ UNCHANGED <<key, pub, known>>

\* write_text of the sidecar, in its two steps, and print.
TruncatePub(r) ==
  /\ Goes(r, "truncate", "pub")
  /\ pub' = Empty
  /\ UNCHANGED <<key, loaded, known>>

WritePub(r) ==
  /\ Goes(r, "pub", "keyed")
  /\ pub' = loaded[r]
  /\ known' = known \union {loaded[r]}
  /\ UNCHANGED <<key, loaded>>

\* capture-once signs with the key, whenever the timer starts it, and a sink
\* trusts the .pub it is started with.
UseKey ==
  /\ known' = known \union ({key, pub} \intersect Runs)
  /\ UNCHANGED <<at, key, pub, loaded, modelVars>>

KeygenStep(r) ==
  \/ BeginKeygen(r) \/ CreateKey(r) \/ WriteKey(r)
  \/ LoadKey(r) \/ TruncatePub(r) \/ WritePub(r)

-----------------------------------------------------------------------------
(* fetch-models                                                            *)

InFlight == {r \in Runs : at[r] \in Fetching}
Pinned(inode) == inode # Absent /\ \A i \in 1..Chunks : content[inode][i] = "good"

\* Who begins to download while others do has met them.
Meets(r) ==
  overlapped' = IF InFlight = {} THEN overlapped ELSE overlapped \union InFlight \union {r}

\* Mutant: a model file that is there is good enough.
AnyModelWillDo(r) ==
  \/ dest # Absent /\ Goes(r, "idle", "fetched") /\ UNCHANGED modelVars
  \/ dest = Absent /\ Goes(r, "idle", "get") /\ Meets(r)
     /\ UNCHANGED <<part, dest, content, fetch, publisher>>

\* A model file with the pinned digest is not downloaded again.
BeginFetch(r) ==
  \/ Pinned(dest) /\ Goes(r, "idle", "fetched") /\ UNCHANGED modelVars
  \/ ~Pinned(dest) /\ Goes(r, "idle", "get") /\ Meets(r)
     /\ UNCHANGED <<part, dest, content, fetch, publisher>>

\* An answer other than 200 leaves the .part file of an earlier run alone.
NotOffered(r) ==
  /\ Goes(r, "get", "failed")
  /\ UNCHANGED modelVars

\* RequestException: the .part file goes, whoever made it.
RequestFails(r) ==
  /\ Goes(r, "get", "failed") \/ Goes(r, "receive", "failed")
  /\ part' = Absent
  /\ UNCHANGED <<dest, content, fetch, publisher, overlapped>>

\* open("wb"): what an earlier run left, or another one is writing, is truncated.
OpenPart(r) ==
  LET inode == IF part = Absent THEN r ELSE part
  IN /\ Goes(r, "get", "receive")
     /\ part' = inode
     /\ content' = [content EXCEPT ![inode] = Blank]
     /\ fetch' = [fetch EXCEPT ![r].inode = inode]
     /\ UNCHANGED <<dest, publisher, overlapped>>

\* A chunk is hashed as it came and written at this run's own offset.
ReceiveChunk(r, good) ==
  LET next == fetch[r].received + 1
  IN /\ at[r] = "receive" /\ next <= Chunks
     /\ content' = [content EXCEPT ![fetch[r].inode][next] = IF good THEN "good" ELSE "bad"]
     /\ fetch' = [fetch EXCEPT ![r].received = next, ![r].sound = @ /\ good]
     /\ UNCHANGED <<at, part, dest, publisher, overlapped>>

\* The body is over, perhaps early.
BodyEnds(r) ==
  /\ Goes(r, "receive", "check")
  /\ UNCHANGED modelVars

\* The digest of what this run received is the pinned one.
Verified(r) == fetch[r].sound /\ fetch[r].received = Chunks

\* Mutant: a digest that differs is not looked at.
CheckNothing(r) ==
  /\ Goes(r, "check", "publish")
  /\ UNCHANGED modelVars

CheckDigest(r) ==
  \/ /\ Verified(r)
     /\ Goes(r, "check", "publish")
     /\ UNCHANGED modelVars
  \/ /\ ~Verified(r)
     /\ Goes(r, "check", "failed")
     /\ part' = Absent
     /\ UNCHANGED <<dest, content, fetch, publisher, overlapped>>

\* Path.replace moves whichever file the name stands for now; with none there
\* it raises FileNotFoundError: exit 2.
Publish(r) ==
  \/ /\ part # Absent
     /\ Goes(r, "publish", "fetched")
     /\ dest' = part /\ part' = Absent
     /\ publisher' = r
     /\ UNCHANGED <<content, fetch, overlapped>>
  \/ /\ part = Absent
     /\ Goes(r, "publish", "failed")
     /\ UNCHANGED modelVars

FetchStep(r) ==
  \/ BeginFetch(r) \/ NotOffered(r) \/ RequestFails(r) \/ OpenPart(r)
  \/ \E good \in BOOLEAN : ReceiveChunk(r, good)
  \/ BodyEnds(r) \/ CheckDigest(r) \/ Publish(r)

Next ==
  \/ \E r \in Runs : KeygenStep(r) /\ UNCHANGED modelVars
  \/ \E r \in Runs : FetchStep(r) /\ UNCHANGED keyVars
  \/ \E r \in Runs : BreaksOff(r)
  \/ UseKey

Spec == Init /\ [][Next]_vars

-----------------------------------------------------------------------------
\* sign.py: refusing to overwrite an existing key.  Whatever runs overlap or break
\* off, every key that was ever printed, signed with or trusted is the one in the
\* key file, and a .pub that says anything says that key.
OneIdentity == known \subseteq {key} /\ pub \in {key, Absent, Empty}

\* fetch.py: downloads are verified.  The run that put the model file there had received
\* the pinned model, whatever others did meanwhile, and what the file holds is the pinned
\* model unless that run overlapped another download: they share the .part file, and each
\* checks what it received, not what the file holds.
FetchedIsPinned ==
  dest # Absent => Verified(publisher) /\ (Pinned(dest) \/ publisher \in overlapped)

\* Exit code 0 means done, whatever earlier runs left half-done: the .pub is the key's
\* after keygen, and after a fetch the model file is the pinned model, found so or put
\* there.  A fetch that overlapped another one promises less: that it received the pinned
\* model itself, or found it.
ExitZeroMeansDone ==
  [][\A r \in Runs :
       /\ at[r] = "pub" /\ at'[r] = "keyed" => key' \in Runs /\ pub' = key'
       /\ at[r] # "fetched" /\ at'[r] = "fetched"
            => Pinned(dest)' \/ (r \in overlapped' /\ Verified(r)')]_vars
=============================================================================
