------------------------------- MODULE Media -------------------------------
(***************************************************************************)
(* Media of a workspace (backend/src/media): volumes over local disks, S3  *)
(* buckets and FTP servers, the bytes a volume's provider stores, the      *)
(* asset records that say on which volume an asset is, and the usage       *)
(* counted for each volume.                                                *)
(*                                                                         *)
(* Each action is the code between two awaits of one request.  A provider  *)
(* stores all of an asset or nothing; Place[v] is where the provider of v  *)
(* puts it: a directory of its own for a local volume, whereas nothing     *)
(* keeps two S3 or FTP volumes from naming one bucket or one directory.    *)
(* Names, types, connection tests and the listing of references are left   *)
(* out; an upload without a volume goes to some volume that is stored.     *)
(***************************************************************************)
EXTENDS Integers, FiniteSets, Sums

CONSTANTS
  Volume, Asset,  \* identities, never used twice
  Place,          \* Place[v]: where the provider of v stores bytes
  Size,           \* Size[a]: bytes of a
  Req,            \* requests in flight at once
  MaxRequests,    \* bound on the requests ever started
  MaxFaults,      \* bound on rejected awaits and process deaths
  None

Places == {Place[v] : v \in Volume}

ASSUME PlaceAssumption == DOMAIN Place = Volume
ASSUME SizeAssumption  == Size \in [Asset -> Nat]
ASSUME BoundAssumption == {MaxRequests, MaxFaults} \subseteq Nat
ASSUME NoneAssumption  == None \notin Volume \cup Asset

VARIABLES
  volumes,  \* volumes whose record is stored
  used,     \* used[v]: storageUsed
  home,     \* home[a]: volumeId of the record of a, None without record
  bytes,    \* <<place, asset>>: what the providers store
  req,      \* local variables of the requests in flight
  started, faults,  \* counters behind the bounds
  (* History variables. *)
  made,     \* volumes and assets whose identity was given out
  clashed,  \* assets that overlapping requests worked on, or that were moved
            \* between two volumes over one place
  doomed,   \* assets whose removal has begun
  cut       \* assets on which a request failed or a provider refused a delete,
            \* volumes whose deletion failed

stores == <<volumes, used, home, bytes>>
ghosts == <<made, clashed, doomed, cut>>
bounds == <<started, faults>>
vars   == <<stores, req, ghosts, bounds>>

Request ==
  [op: {"none", "upload", "move", "remove", "deleteVolume"},
   pc: {"idle", "ensure", "put", "record", "charge", "source", "target",
        "get", "putTo", "dropFrom", "discharge", "rehome", "erase", "forget",
        "list", "wipe", "forgetAll", "dropVolume"},
   asset: Asset \cup {None},
   from: Volume \cup {None},   \* the volume it leaves, or that is deleted
   to: Volume \cup {None},     \* the volume it goes to
   todo: SUBSET Asset]         \* assets whose bytes are still to be deleted

Idle == [op |-> "none", pc |-> "idle", asset |-> None, from |-> None,
         to |-> None, todo |-> {}]

TypeOK ==
  /\ volumes \subseteq Volume
  /\ used \in [Volume -> Int]
  /\ home \in [Asset -> Volume \cup {None}]
  /\ bytes \subseteq Places \X Asset
  /\ req \in [Req -> Request]
  /\ started \in Nat
  /\ faults \in Nat
  /\ made \subseteq Volume \cup Asset
  /\ clashed \subseteq Asset
  /\ doomed \subseteq Asset
  /\ cut \subseteq Asset \cup Volume

Init ==
  /\ volumes = {}
  /\ used = [v \in Volume |-> 0]
  /\ home = [a \in Asset |-> None]
  /\ bytes = {}
  /\ req = [r \in Req |-> Idle]
  /\ started = 0
  /\ faults = 0
  /\ made = {}
  /\ clashed = {}
  /\ doomed = {}
  /\ cut = {}

At(r, pc)   == req[r].pc = pc
Goto(r, pc) == req' = [req EXCEPT ![r].pc = pc]
Finish(r)   == req' = [req EXCEPT ![r] = Idle]

VolumesOf(s) == {s.from, s.to} \ {None}

\* s and q work on one asset, or one deletes a volume the other works on.
Meets(s, q) ==
  \/ s.asset = q.asset /\ s.asset # None
  \/ "deleteVolume" \in {s.op, q.op} /\ VolumesOf(s) \cap VolumesOf(q) # {}

Begin(r, s) ==
  LET met == {q \in Req \ {r} : Meets(s, req[q])}
  IN  /\ At(r, "idle")
      /\ started < MaxRequests
      /\ started' = started + 1
      /\ req' = [req EXCEPT ![r] = s]
      /\ clashed' = IF met = {} THEN clashed
                    ELSE clashed \cup (({s.asset} \cup {req[q].asset : q \in met}) \ {None})

\* Faulty variant: a new record without storageUsed.
AddVolumeUnset(v) ==
  /\ v \in Volume \ made
  /\ made' = made \cup {v}
  /\ volumes' = volumes \cup {v}
  /\ used' = [used EXCEPT ![v] = None]

AddVolume(v) ==
  /\ v \in Volume \ made
  /\ made' = made \cup {v}
  /\ volumes' = volumes \cup {v}
  /\ used' = [used EXCEPT ![v] = 0]

\* bumpUsage: updateOne with $inc, which misses a volume that was deleted.
Bump(v, delta) ==
  used' = IF v \in volumes THEN [used EXCEPT ![v] = @ + delta] ELSE used

-----------------------------------------------------------------------------
(* The provider of a volume. *)

Put(v, a) == bytes' = bytes \cup {<<Place[v], a>>}
Get(v, a) == <<Place[v], a>> \in bytes

\* Callers ignore a delete that fails, and so does the FTP provider.
Delete(v, a) ==
  \/ /\ bytes' = bytes \ {<<Place[v], a>>}
     /\ UNCHANGED <<faults, cut>>
  \/ /\ faults < MaxFaults
     /\ faults' = faults + 1
     /\ cut' = cut \cup {a}
     /\ UNCHANGED bytes

-----------------------------------------------------------------------------
(* Volumes. *)

CreateVolume(v) ==
  /\ AddVolume(v)
  /\ UNCHANGED <<home, bytes, req, bounds, clashed, doomed, cut>>

\* deleteVolume.
StartDeleteVolume(r) ==
  \E v \in volumes :
    /\ Begin(r, [Idle EXCEPT !.op = "deleteVolume", !.pc = "list", !.from = v])
    /\ UNCHANGED <<stores, faults, made, doomed, cut>>

ListAssets(r) ==
  LET here == {a \in Asset : home[a] = req[r].from}
  IN  /\ At(r, "list")
      /\ req' = [req EXCEPT ![r].pc = "wipe", ![r].todo = here]
      /\ doomed' = doomed \cup here
      /\ UNCHANGED <<stores, made, clashed, cut, bounds>>

WipeAsset(r) ==
  \E a \in req[r].todo :
    /\ At(r, "wipe")
    /\ Delete(req[r].from, a)
    /\ req' = [req EXCEPT ![r].todo = @ \ {a}]
    /\ UNCHANGED <<volumes, used, home, started, made, clashed, doomed>>

ForgetAll(r) ==
  /\ At(r, "wipe") /\ req[r].todo = {}
  /\ home' = [a \in Asset |-> IF home[a] = req[r].from THEN None ELSE home[a]]
  /\ Goto(r, "dropVolume")
  /\ UNCHANGED <<volumes, used, bytes, ghosts, bounds>>

DropVolume(r) ==
  /\ At(r, "dropVolume")
  /\ volumes' = volumes \ {req[r].from}
  /\ Finish(r)
  /\ UNCHANGED <<used, home, bytes, ghosts, bounds>>

-----------------------------------------------------------------------------
(* upload, and the default volume it makes when there is none. *)

StartUpload(r) ==
  \E a \in Asset \ made :
    /\ \/ \E v \in volumes :
            Begin(r, [Idle EXCEPT !.op = "upload", !.pc = "put", !.asset = a, !.to = v])
       \/ /\ volumes = {}
          /\ Begin(r, [Idle EXCEPT !.op = "upload", !.pc = "ensure", !.asset = a])
    /\ made' = made \cup {a}
    /\ UNCHANGED <<stores, faults, doomed, cut>>

EnsureDefaultVolume(r) ==
  \E v \in Volume :
    /\ At(r, "ensure")
    /\ AddVolume(v)
    /\ req' = [req EXCEPT ![r].pc = "put", ![r].to = v]
    /\ UNCHANGED <<home, bytes, bounds, clashed, doomed, cut>>

PutUpload(r) ==
  /\ At(r, "put")
  /\ Put(req[r].to, req[r].asset)
  /\ Goto(r, "record")
  /\ UNCHANGED <<volumes, used, home, ghosts, bounds>>

RecordAsset(r) ==
  /\ At(r, "record")
  /\ home' = [home EXCEPT ![req[r].asset] = req[r].to]
  /\ Goto(r, "charge")
  /\ UNCHANGED <<volumes, used, bytes, ghosts, bounds>>

\* bumpUsage of the volume the asset goes to, in an upload and in a move.
Charge(r) ==
  /\ At(r, "charge")
  /\ Bump(req[r].to, Size[req[r].asset])
  /\ IF req[r].op = "move" THEN Goto(r, "rehome") ELSE Finish(r)
  /\ UNCHANGED <<volumes, home, bytes, ghosts, bounds>>

-----------------------------------------------------------------------------
(* move. *)

StartMove(r) ==
  \E a \in Asset, v \in Volume \cap made :
    /\ home[a] # None
    /\ Begin(r, [Idle EXCEPT !.op = "move", !.pc = "source", !.asset = a,
                             !.from = home[a], !.to = v])
    /\ UNCHANGED <<stores, faults, made, doomed, cut>>

FindSource(r) ==
  /\ At(r, "source")
  /\ IF req[r].op = "move"
       THEN IF req[r].from \in volumes THEN Goto(r, "target") ELSE Finish(r)
       ELSE Goto(r, IF req[r].from \in volumes THEN "erase" ELSE "forget")
  /\ UNCHANGED <<stores, ghosts, bounds>>

FindTarget(r) ==
  /\ At(r, "target")
  /\ IF req[r].to \in volumes /\ req[r].to # req[r].from THEN Goto(r, "get") ELSE Finish(r)
  /\ UNCHANGED <<stores, ghosts, bounds>>

GetBytes(r) ==
  /\ At(r, "get")
  /\ IF Get(req[r].from, req[r].asset) THEN Goto(r, "putTo") ELSE Finish(r)
  /\ UNCHANGED <<stores, ghosts, bounds>>

\* The target is written before the source is deleted.
PutTarget(r) ==
  /\ At(r, "putTo")
  /\ Put(req[r].to, req[r].asset)
  /\ Goto(r, "dropFrom")
  /\ UNCHANGED <<volumes, used, home, ghosts, bounds>>

\* Faulty variant: source and target swapped.
DropTarget(r) ==
  /\ At(r, "dropFrom")
  /\ bytes' = bytes \ {<<Place[req[r].to], req[r].asset>>}
  /\ Goto(r, "discharge")
  /\ UNCHANGED <<volumes, used, home, ghosts, bounds>>

DropSource(r) ==
  LET a == req[r].asset
  IN  /\ At(r, "dropFrom")
      /\ Delete(req[r].from, a)
      /\ clashed' = IF Place[req[r].from] = Place[req[r].to]
                      THEN clashed \cup {a} ELSE clashed
      /\ Goto(r, "discharge")
      /\ UNCHANGED <<volumes, used, home, started, made, doomed>>

\* Faulty variant: the volume that is left keeps the charge.
KeepCharge(r) ==
  /\ At(r, "discharge")
  /\ Goto(r, IF req[r].op = "move" THEN "charge" ELSE "forget")
  /\ UNCHANGED <<stores, ghosts, bounds>>

\* bumpUsage of the volume the asset leaves, in a move and in a removal.
Discharge(r) ==
  /\ At(r, "discharge")
  /\ Bump(req[r].from, -Size[req[r].asset])
  /\ Goto(r, IF req[r].op = "move" THEN "charge" ELSE "forget")
  /\ UNCHANGED <<volumes, home, bytes, ghosts, bounds>>

\* save() rejects when the record has been removed.
Rehome(r) ==
  /\ At(r, "rehome")
  /\ home' = IF home[req[r].asset] = None THEN home
             ELSE [home EXCEPT ![req[r].asset] = req[r].to]
  /\ Finish(r)
  /\ UNCHANGED <<volumes, used, bytes, ghosts, bounds>>

-----------------------------------------------------------------------------
(* remove. *)

StartRemove(r) ==
  \E a \in Asset :
    /\ home[a] # None
    /\ Begin(r, [Idle EXCEPT !.op = "remove", !.pc = "source", !.asset = a,
                             !.from = home[a]])
    /\ doomed' = doomed \cup {a}
    /\ UNCHANGED <<stores, faults, made, cut>>

EraseBytes(r) ==
  /\ At(r, "erase")
  /\ Delete(req[r].from, req[r].asset)
  /\ Goto(r, "discharge")
  /\ UNCHANGED <<volumes, used, home, started, made, clashed, doomed>>

ForgetAsset(r) ==
  /\ At(r, "forget")
  /\ home' = [home EXCEPT ![req[r].asset] = None]
  /\ Finish(r)
  /\ UNCHANGED <<volumes, used, bytes, ghosts, bounds>>

-----------------------------------------------------------------------------
\* The assets r works on.
InHand(r) ==
  {a \in Asset : \/ a = req[r].asset
                 \/ req[r].op = "deleteVolume" /\ home[a] = req[r].from}

\* An await of r rejects, or the process dies while r is under way.
Fail(r) ==
  /\ ~At(r, "idle")
  /\ faults < MaxFaults
  /\ faults' = faults + 1
  /\ cut' = cut \cup InHand(r)
                \cup (IF req[r].op = "deleteVolume" THEN {req[r].from} ELSE {})
  /\ Finish(r)
  /\ UNCHANGED <<stores, started, made, clashed, doomed>>

\* The calls of MediaController that change something.
Requested(r) == StartDeleteVolume(r) \/ StartUpload(r) \/ StartMove(r) \/ StartRemove(r)

Next ==
  \/ \E v \in Volume : CreateVolume(v)
  \/ \E r \in Req :
       \/ Requested(r)
       \/ ListAssets(r) \/ WipeAsset(r) \/ ForgetAll(r) \/ DropVolume(r)
       \/ EnsureDefaultVolume(r) \/ PutUpload(r) \/ RecordAsset(r) \/ Charge(r)
       \/ FindSource(r) \/ FindTarget(r) \/ GetBytes(r)
       \/ PutTarget(r) \/ DropSource(r) \/ Discharge(r) \/ Rehome(r)
       \/ EraseBytes(r) \/ ForgetAsset(r)
       \/ Fail(r)

Spec == Init /\ [][Next]_vars

-----------------------------------------------------------------------------
(* Properties. *)

Copies(a) == {p \in Places : <<p, a>> \in bytes}

\* serve: the record, its volume, and the bytes from the provider.
Serve(a) == home[a] \in volumes /\ Get(home[a], a)

\* overview: the bytes of all records.
UsedBytes == SumOf(Size, {a \in Asset : home[a] # None})

\* The volume of an asset stores its bytes and no other place does, once the
\* requests on it are over: what a record says can be served, and nothing is
\* stored that no record tells of.  Requests on other assets may overlap.
Served ==
  \A a \in Asset \ (clashed \cup cut) :
    (\A r \in Req : a \notin InHand(r)) =>
      /\ home[a] # None => Serve(a)
      /\ Copies(a) = IF home[a] = None THEN {} ELSE {Place[home[a]]}

\* A move that fails or dies at any point loses no bytes: as long as there is a
\* record, some place has them.
CopyKept ==
  \A a \in Asset \ (clashed \cup doomed) : home[a] # None => Copies(a) # {}

\* Both: the bytes of every asset are where its record says, at the end of the
\* requests on it, and somewhere, in the middle of them.
BytesSafe == Served /\ CopyKept

\* storageUsed is the sum of the sizes of the assets on the volume, although
\* uploads, moves and removals of different assets overlap on it; and the sum
\* over the volumes is what the overview counts from the records.
UsageExact ==
  (\A r \in Req : At(r, "idle")) /\ clashed \cup cut = {} =>
    /\ \A v \in volumes : used[v] = SumOf(Size, {a \in Asset : home[a] = v})
    /\ SumOf(used, volumes) = UsedBytes
============================================================================
