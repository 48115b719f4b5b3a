------------------------- MODULE TargetReservation --------------------------
(***************************************************************************)
(* Process-wide leases on the places operations read and write             *)
(* (local_fs/target_reservation.rs).  A lone lease has an owner of its     *)
(* own; the leases of a folder walk, a rename or a server copy share one,  *)
(* so that they do not keep each other out.  Dropped leases go by number.  *)
(***************************************************************************)
EXTENDS FiniteSets, Integers, SequencesExt

CONSTANTS
    Ops,       \* operations
    Servers,   \* servers, and the local disk
    Paths,     \* the paths operations name: sequences of components
    Lowercase, \* str::to_lowercase, by component
    MaxLeases  \* bound: leases an operation takes

Accesses == {"read", "write"}
Uses == [server : Servers, path : Paths, access : Accesses]

ASSUME ReservationAssumption == MaxLeases \in Nat /\ Paths \subseteq Seq(STRING)

VARIABLES
    leases,    \* the process-wide list
    using,     \* what each operation reads and writes, by lease number
    sharing,   \* whether an operation's leases share an owner
    taken      \* leases each operation has taken so far

reservationVars == <<leases, using, sharing, taken>>

\* The key of a path: its components, "." dropped, ".." taking one back.
Key(path) ==
    LET upTo[n \in 0 .. Len(path)] ==
            IF n = 0 THEN <<>>
            ELSE LET parts == upTo[n - 1] IN
                 CASE path[n] = "." -> parts
                   [] path[n] = ".." -> IF parts = <<>> THEN parts ELSE Front(parts)
                   [] OTHER -> Append(parts, Lowercase[path[n]])
    IN  upTo[Len(path)]

Overlaps(a, b) == IsPrefix(a, b) \/ IsPrefix(b, a)

\* A lease somebody else has that keeps this one out.
Keeps(lease, owner, use) ==
    /\ lease.owner # owner /\ lease.server = use.server
    /\ use.access = "write" \/ lease.access = "write"
    /\ Overlaps(lease.key, Key(use.path))

Numbers == Ops \X (1 .. MaxLeases)
OwnerOf(o) == IF sharing[o] THEN <<o, 0>> ELSE <<o, taken[o] + 1>>

ReservationTypeOK ==
    /\ \A l \in leases : l.id \in Numbers /\ l.server \in Servers /\ l.access \in Accesses
    /\ using \in [Ops -> SUBSET ((1 .. MaxLeases) \X Uses)]
    /\ sharing \in [Ops -> BOOLEAN] /\ taken \in [Ops -> 0 .. MaxLeases]

ReservationInit ==
    /\ leases = {} /\ using = [o \in Ops |-> {}] /\ taken = [o \in Ops |-> 0]
    /\ sharing \in [Ops -> BOOLEAN]
-----------------------------------------------------------------------------
\* Reservation::lease.  A refusal ends the operation with "busy".
Lease(o, use) ==
    /\ taken[o] < MaxLeases /\ \A l \in leases : ~Keeps(l, OwnerOf(o), use)
    /\ taken' = [taken EXCEPT ![o] = @ + 1]
    /\ leases' = leases \cup {[id |-> <<o, taken'[o]>>, server |-> use.server,
                                key |-> Key(use.path), owner |-> OwnerOf(o),
                                access |-> use.access]}
    /\ using' = [using EXCEPT ![o] = @ \cup {<<taken'[o], use>>}]
    /\ UNCHANGED sharing

(* Mutant: a drop takes every lease its owner has in that place. *)
ReleaseByKey(o, held) ==
    /\ held \in using[o]
    /\ using' = [using EXCEPT ![o] = @ \ {held}]
    /\ leases' = {l \in leases : l.id[1] # o \/ ~IsPrefix(l.key, Key(held[2].path))}
    /\ UNCHANGED <<sharing, taken>>

\* Drop of a Reservation: a walk's file task gives back its own lease only.
Release(o, held) ==
    /\ held \in using[o]
    /\ using' = [using EXCEPT ![o] = @ \ {held}]
    /\ leases' = {l \in leases : l.id # <<o, held[1]>>}
    /\ UNCHANGED <<sharing, taken>>

ReservationNext == \E o \in Ops :
    \/ \E use \in Uses : Lease(o, use)
    \/ \E held \in using[o] : Release(o, held)

ReservationSpec == ReservationInit /\ [][ReservationNext]_reservationVars
-----------------------------------------------------------------------------
\* What a path names, defined apart from Key: a component stands unless a
\* later ".." has taken it back.
Stands(path, i) ==
    /\ path[i] \notin {".", ".."}
    /\ \A j \in i + 1 .. Len(path) :
        Cardinality({k \in i + 1 .. j : path[k] = ".."})
            <= Cardinality({k \in i + 1 .. j : path[k] \notin {".", ".."}})
Place(path) ==
    LET standing == {i \in DOMAIN path : Stands(path, i)}
        order == CHOOSE q \in [1 .. Cardinality(standing) -> standing] :
                    \A m, n \in DOMAIN q : m < n => q[m] < q[n]
    IN  [n \in DOMAIN order |-> Lowercase[path[order[n]]]]

(* The key that a lease compares is the place that the path names (key).   *)
KeysArePlaces(paths) == \A path \in paths : Key(path) = Place(path)

(* Two operations are never at work in one place when one of them writes:  *)
(* not at one file, nor at a folder and something inside it, however their *)
(* paths spell it, and for as long as either still holds a lease on it     *)
(* (lease's check, and Drop's removal by number).                          *)
WritersAreApart ==
    \A o1, o2 \in Ops : \A h1 \in using[o1], h2 \in using[o2] :
        /\ o1 # o2 /\ h1[2].server = h2[2].server
        /\ "write" \in {h1[2].access, h2[2].access}
        => ~IsPrefix(Place(h1[2].path), Place(h2[2].path))
=============================================================================
