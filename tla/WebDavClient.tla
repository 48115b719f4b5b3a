----------------------------- MODULE WebDavClient -----------------------------
(***************************************************************************)
(* A WebDAV connection: the first PROPFIND with its upgrade to HTTPS and   *)
(* its sign-in, then one operation made of several requests, while another *)
(* client works on the same server.  A request may be served and its reply *)
(* lost; the operation then knows nothing.                                 *)
(***************************************************************************)
EXTENDS Naturals, FiniteSets, Sequences, SequencesExt

CONSTANTS
    DavPaths,      \* the paths of the server, sequences of names
    OtherActs      \* how often the other client acts during the operation

ASSUME DavAssumption ==
    /\ DavPaths # {} /\ DavPaths \subseteq Seq(UNION {ToSet(p) : p \in DavPaths})
    /\ \A p \in DavPaths : Len(p) = 1 \/ (Len(p) > 1 /\ Front(p) \in DavPaths)
    /\ OtherActs \in Nat

VARIABLES
    davTree,    \* what stands at each path: nothing, a collection, a file
    address,    \* webdav_url, then base_url: [secure, home]
    probing,    \* open(): its settings, send_credentials and upgraded
    carried,    \* history: the addresses that saw the password
    dav,        \* the operation: what it is, where it stands, its answer
    acts,       \* what the other client may still do
    davHeld,    \* history: the operation's effect was there at some moment
    stood,      \* history: something stood at its destination at some moment
    trampled    \* history: a request of ours replaced another's file

davVars == <<davTree, address, probing, carried, dav, acts, davHeld, stood, trampled>>
-----------------------------------------------------------------------------
(* The server *)

DavFiles == {"mine", "theirs", "empty"}
DavPlaces == DavFiles \cup {"none", "dir"}

\* Whether a new resource at p has its parent.
HasParent(t, p) == IF Len(p) = 1 THEN TRUE ELSE t[Front(p)] = "dir"
Under(p) == {q \in DavPaths : IsPrefix(p, q)}
Cleared(t, gone) == [q \in DavPaths |-> IF q \in gone THEN "none" ELSE t[q]]

Out(t, reply) == [tree |-> t, reply |-> reply]

Mkcol(p) ==
    {Out(davTree, "notAllowed")} \cup
    IF davTree[p] # "none" THEN {}
    ELSE IF ~HasParent(davTree, p) THEN {Out(davTree, "conflict")}
    ELSE {Out([davTree EXCEPT ![p] = "dir"], "done")}

\* A PUT of what; under If-None-Match: * only where nothing stands.
Put(p, what, ifNoneMatch) ==
    IF ifNoneMatch /\ davTree[p] # "none" THEN {Out(davTree, "taken")}
    ELSE IF davTree[p] = "dir" \/ ~HasParent(davTree, p) THEN {Out(davTree, "conflict")}
    ELSE {Out([davTree EXCEPT ![p] = what], "done")}

\* A collection may lose some members only, and say so in a 207.
Delete(p) ==
    IF davTree[p] = "none" THEN {Out(davTree, "notFound")}
    ELSE {Out(Cleared(davTree, Under(p)), r) : r \in {"done", "multiFine"}}
         \cup {Out(Cleared(davTree, Under(q)), "multiBad") : q \in Under(p) \ {p}}
         \cup {Out(davTree, "multiBad")}

\* A MOVE of a file; a server may refuse to replace.
Move(old, new, overwrite) ==
    IF davTree[old] = "none" THEN {Out(davTree, "notFound")}
    ELSE IF davTree[new] # "none" /\ ~overwrite THEN {Out(davTree, "taken")}
    ELSE IF ~HasParent(davTree, new) THEN {Out(davTree, "conflict")}
    ELSE (IF davTree[new] # "none" THEN {Out(davTree, "forbidden")} ELSE {}) \cup
         {Out([Cleared(davTree, Under(new)) EXCEPT ![new] = davTree[old], ![old] = "none"],
              "done")}

\* The reply is lost with the request or without it, or the server answers
\* with some other error.
Sent(outs) ==
    outs \cup {Out(o.tree, "failed") : o \in outs} \cup {Out(davTree, "failed")}

\* One response of a multi-status reply.  A server that keeps the size to
\* itself puts it into a propstat of its own, with an error status.
SizeOf(what) == IF what = "mine" THEN 2 ELSE IF what = "theirs" THEN 1 ELSE 0
Unsaid == 99
Response(q, tellsSize) ==
    [at |-> q,
     props |-> {[good |-> TRUE, dir |-> davTree[q] = "dir",
                 size |-> IF tellsSize THEN SizeOf(davTree[q]) ELSE Unsaid],
                [good |-> FALSE, dir |-> FALSE, size |-> 0]}]

\* Depth 0 speaks of p, depth 1 of its members too, or of all below it where a
\* server does not keep to the depth.
Described(p, depth, deep, tellsSize) ==
    {Response(q, tellsSize) : q \in {r \in Under(p) :
        /\ davTree[r] # "none"
        /\ Len(r) - Len(p) <= depth \/ deep}}
-----------------------------------------------------------------------------
(* Replies *)

\* parse_propfind: only what a good propstat says counts; a response with an
\* error of its own fails the whole reply.
DavEntry(r) ==
    LET good == {p \in r.props : p.good}
    IN  [at |-> r.at,
         dir |-> \E p \in good : p.dir,
         size |-> IF \E p \in good : p.size # Unsaid
                  THEN (CHOOSE p \in good : p.size # Unsaid).size ELSE Unsaid]

ParsedPropfind(rs) == {DavEntry(r) : r \in rs}

\* resource_at: a collection, a file or nothing; the request may fail.
ResourceAt(p) ==
    {IF davTree[p] = "none" THEN "nothing"
     ELSE IF \E e \in ParsedPropfind(Described(p, 0, FALSE, TRUE)) : e.dir THEN "collection"
     ELSE "file"} \cup {"failed"}

\* known_size: unknown after any trouble.
KnownSize(p) ==
    {e.size : e \in ParsedPropfind(Described(p, 0, FALSE, TRUE))} \cup {Unsaid}

\* list(): the direct members only, not the folder itself.
Members(p) == {q \in Under(p) : Len(q) = Len(p) + 1}
Listing(p, deep) ==
    {e.at : e \in ParsedPropfind(Described(p, 1, deep, FALSE))} \cap Members(p)

\* Mutant: a 207 counts by its status.
MutationByStatus(reply) == reply \in {"done", "multiFine", "multiBad"}

\* mutation_result: a 207 counts when each of its responses does.
MutationResult(reply) == reply \in {"done", "multiFine"}
-----------------------------------------------------------------------------
(* The connection *)

DavAddresses == [secure : BOOLEAN, home : BOOLEAN]

IsCleartext(a) == ~a.secure

\* Mutant: a redirect within the host is followed whatever its scheme.
FollowsWithinHost(from, to) == from.home = to.home

\* same_origin_redirects
Follows(from, to) == from = to

\* https_upgrade: the same host and path, from HTTP to HTTPS.
HttpsUpgrade(from, to) == IsCleartext(from) /\ to.secure /\ to.home = from.home

Carry(to) == carried' = IF probing.send /\ probing.has THEN carried \cup {to} ELSE carried

DavAnswered(a) == dav' = [dav EXCEPT !.at = "over", !.answer = a]

\* One PROPFIND of the probe loop and what it makes of the reply.
Probe ==
    /\ dav.at = "probe"
    /\ Carry(address)
    /\ \/ /\ dav' = [dav EXCEPT !.at = "ready"]          \* metadata
          /\ UNCHANGED <<address, probing>>
       \/ /\ DavAnswered("failed")                          \* an error, or no metadata
          /\ UNCHANGED <<address, probing>>
       \/ /\ DavAnswered(IF probing.send THEN "authFailed" ELSE "cleartextSignIn")
          /\ UNCHANGED <<address, probing>>
       \/ \E to \in DavAddresses :                          \* a redirect not followed
            /\ ~Follows(address, to)
            /\ IF HttpsUpgrade(address, to) /\ ~probing.upgraded
               THEN /\ address' = to
                    /\ probing' = [probing EXCEPT !.upgraded = TRUE, !.send = TRUE]
                    /\ UNCHANGED dav
               ELSE DavAnswered("failed") /\ UNCHANGED <<address, probing>>
    /\ UNCHANGED <<davTree, acts, davHeld, stood, trampled>>

\* The server redirects a request and the client follows: its credentials go
\* along.  The request is then served as any other.
Redirected ==
    /\ dav.at # "over"
    /\ \E to \in DavAddresses : Follows(address, to) /\ Carry(to)
    /\ UNCHANGED <<davTree, address, probing, dav, acts, davHeld, stood, trampled>>
-----------------------------------------------------------------------------
(* What the operation promises of the tree *)

Effect(d, t) ==
    CASE d.op = "mkdir" -> t[d.new] = "dir"
      [] d.op = "create" -> t[d.new] = "empty"
      [] d.op = "remove" -> \A q \in Under(d.new) : t[q] = "none"
      [] d.op \in {"rename", "renameNoReplace"} -> t[d.new] = "mine" /\ t[d.old] = "none"
      [] d.op \in {"upload", "stream"} -> t[d.new] = "mine"
      [] OTHER -> FALSE

\* The tree becomes t, by our request or by the other client.
Became(t) ==
    /\ davTree' = t
    /\ davHeld' = (davHeld \/ Effect(dav, t))
    /\ stood' = (stood \/ t[dav.new] # "none")

\* A request of ours made it t.
Acted(t) ==
    /\ Became(t)
    /\ trampled' = (trampled \/ (davTree[dav.new] # "none" /\ t[dav.new] # davTree[dav.new]))

Goes(at) == dav' = [dav EXCEPT !.at = at]
Quiet == UNCHANGED <<address, probing, carried, acts>>
Still == Quiet /\ UNCHANGED <<davTree, davHeld, stood, trampled>>
-----------------------------------------------------------------------------
(* The operations.  Each starts with its first request. *)

DavBegin(op, old, new, at) ==
    /\ dav.at = "ready"
    /\ dav' = [dav EXCEPT !.op = op, !.old = old, !.new = new, !.at = at]
    /\ davHeld' = Effect(dav', davTree)
    /\ stood' = (davTree[new] # "none")
    /\ trampled' = FALSE
    /\ Quiet /\ UNCHANGED davTree

Begins ==
    \E p \in DavPaths :
        \/ \E o \in {<<"mkdir", "make">>, <<"create", "look">>, <<"remove", "delete">>,
                     <<"upload", "put">>, <<"stream", "put">>, <<"list", "list">>} :
              DavBegin(o[1], p, p, o[2])
        \/ \E old \in DavPaths :
              /\ davTree[old] = "mine" /\ old # p /\ old \notin Under(p)
              /\ \E op \in {"rename", "renameNoReplace"} : DavBegin(op, old, p, "move")

\* mkdir: the folder at once; refused, its ancestors one by one.
Making == IF dav.step = 0 THEN dav.new ELSE SubSeq(dav.new, 1, dav.step)

Made ==
    IF dav.step \in {0, Len(dav.new)} THEN DavAnswered("ok")
    ELSE dav' = [dav EXCEPT !.step = @ + 1, !.at = "make"]

NotMade ==
    IF dav.step = 0 THEN dav' = [dav EXCEPT !.step = 1, !.at = "make"]
    ELSE DavAnswered("failed")

\* Mutant: a 405 is taken for a collection that is there.
TrustNotAllowed ==
    /\ dav.at = "make"
    /\ \E o \in Sent(Mkcol(Making)) :
          /\ Acted(o.tree)
          /\ IF o.reply \in {"done", "notAllowed"} THEN Made ELSE NotMade
    /\ Quiet

MakeCollection ==
    /\ dav.at = "make"
    /\ \E o \in Sent(Mkcol(Making)) :
          /\ Acted(o.tree)
          /\ \/ o.reply = "done" /\ Made
             \/ o.reply = "notAllowed" /\ Goes("lookMade")
             \/ o.reply \notin {"done", "notAllowed"} /\ NotMade
    /\ Quiet

\* 405: only a collection that is there satisfies mkdir.
LookMade ==
    /\ dav.at = "lookMade"
    /\ \E r \in ResourceAt(Making) : IF r = "collection" THEN Made ELSE NotMade
    /\ Still

\* create_file
LookBeforeCreate ==
    /\ dav.at = "look"
    /\ \E r \in ResourceAt(dav.new) :
          \/ r = "nothing" /\ Goes("create")
          \/ r \in {"file", "collection"} /\ DavAnswered("exists")
          \/ r = "failed" /\ DavAnswered("failed")
    /\ Still

CreateFile ==
    /\ dav.at = "create"
    /\ \E o \in Sent(Put(dav.new, "empty", TRUE)) :
          /\ Acted(o.tree)
          /\ DavAnswered(CASE o.reply = "done" -> "ok"
                        [] o.reply = "taken" -> "exists"
                        [] OTHER -> "failed")
    /\ Quiet

SendDelete ==
    /\ dav.at = "delete"
    /\ \E o \in Sent(Delete(dav.new)) :
          /\ Acted(o.tree)
          /\ DavAnswered(IF o.reply = "notFound" \/ MutationResult(o.reply)
                      THEN "ok" ELSE "failed")
    /\ Quiet

\* rename and rename_no_replace: the MOVE and its reply.
SendMove ==
    /\ dav.at = "move"
    /\ \E o \in Sent(Move(dav.old, dav.new, dav.op = "rename")) :
          /\ Acted(o.tree)
          /\ \/ MutationResult(o.reply) /\ DavAnswered("ok")
             \/ /\ o.reply \in {"taken", "forbidden", "notAllowed", "conflict"}
                /\ IF dav.op = "rename" THEN Goes("lookNew")
                   ELSE DavAnswered(IF o.reply = "taken" THEN "exists" ELSE "failed")
             \/ o.reply \in {"notFound", "failed"} /\ DavAnswered("failed")
    /\ Quiet

\* Refused: a file in the way is set aside while both still stand.
LookNew ==
    /\ dav.at = "lookNew"
    /\ \E r \in ResourceAt(dav.new) :
          IF r = "file" THEN Goes("lookOld") ELSE DavAnswered("failed")
    /\ Still

LookOld ==
    /\ dav.at = "lookOld"
    /\ \E r \in ResourceAt(dav.old) :
          IF r \in {"file", "collection"} THEN Goes("setAside") ELSE DavAnswered("failed")
    /\ Still

\* replace_by_setting_aside as module SetAside shows it: the new version
\* stands at its destination, or the call fails and one of them does.
SetsAside ==
    /\ dav.at = "setAside"
    /\ \/ /\ davTree[dav.old] = "mine" /\ HasParent(davTree, dav.new)
          /\ davTree[dav.new] # "dir"
          /\ Acted([davTree EXCEPT ![dav.new] = "mine", ![dav.old] = "none"])
          /\ DavAnswered("ok")
       \/ Acted(davTree) /\ DavAnswered("failed")
    /\ Quiet

\* upload and upload_from_reader.  Producer and request run together and the
\* first to fail ends both; the local file may have changed meanwhile.
SendUpload ==
    /\ dav.at = "put"
    /\ \E o \in Sent(Put(dav.new, "mine", FALSE)), changed \in BOOLEAN :
          /\ Acted(o.tree)
          /\ IF o.reply # "done" \/ (changed /\ dav.op = "upload") THEN DavAnswered("failed")
             ELSE IF dav.op = "upload" THEN Goes("size")
             ELSE DavAnswered("ok")
    /\ Quiet

\* The size the server gives afterwards, if it gives one.
CheckSize ==
    /\ dav.at = "size"
    /\ \E size \in KnownSize(dav.new) :
          DavAnswered(IF size \in {Unsaid, SizeOf("mine")} THEN "ok" ELSE "failed")
    /\ Still

List ==
    /\ dav.at = "list"
    /\ \/ DavAnswered("failed") /\ UNCHANGED davHeld
       \/ /\ DavAnswered("ok")
          /\ \E deep \in BOOLEAN :
                davHeld' = (Listing(dav.new, deep)
                            = {q \in Members(dav.new) : davTree[q] # "none"})
    /\ Quiet /\ UNCHANGED <<davTree, stood, trampled>>

\* The other client makes, replaces or removes something; the file we move it
\* may take away, not exchange.
OtherClient ==
    /\ dav.at \notin {"probe", "ready", "over"}
    /\ acts > 0 /\ acts' = acts - 1
    /\ \E p \in DavPaths :
          \/ /\ davTree[p] # "dir" /\ HasParent(davTree, p)
             /\ p = dav.old => p = dav.new
             /\ Became([davTree EXCEPT ![p] = "theirs"])
          \/ /\ davTree[p] = "none" /\ HasParent(davTree, p)
             /\ p = dav.old => p = dav.new
             /\ Became([davTree EXCEPT ![p] = "dir"])
          \/ davTree[p] # "none" /\ Became(Cleared(davTree, Under(p)))
    /\ UNCHANGED <<address, probing, carried, dav, trampled>>
-----------------------------------------------------------------------------
\* A tree has no member without its collections, and a file of ours to move.
Grown(t) ==
    \A p \in DavPaths : \A q \in Under(p) \ {p} : t[q] # "none" => t[p] = "dir"

DavInit ==
    /\ davTree \in {t \in [DavPaths -> {"none", "dir", "mine", "theirs"}] :
                    Grown(t) /\ Cardinality({p \in DavPaths : t[p] = "mine"}) <= 1}
    /\ address \in {a \in DavAddresses : a.home}
    /\ probing \in {[has |-> h, allowed |-> a, upgraded |-> FALSE,
                     send |-> address.secure \/ a \/ ~h] : h \in BOOLEAN, a \in BOOLEAN}
    /\ carried = {}
    /\ dav \in {[op |-> "none", old |-> p, new |-> p, at |-> "probe", step |-> 0,
                 answer |-> "none"] : p \in {CHOOSE q \in DavPaths : TRUE}}
    /\ acts = OtherActs
    /\ davHeld = FALSE /\ stood = FALSE /\ trampled = FALSE

DavNext ==
    \/ Probe \/ Redirected \/ Begins
    \/ MakeCollection \/ LookMade
    \/ LookBeforeCreate \/ CreateFile
    \/ SendDelete
    \/ SendMove \/ LookNew \/ LookOld \/ SetsAside
    \/ SendUpload \/ CheckSize \/ List
    \/ OtherClient

DavSpec == DavInit /\ [][DavNext]_davVars
-----------------------------------------------------------------------------
DavTypeOK ==
    /\ davTree \in [DavPaths -> DavPlaces]
    /\ address \in DavAddresses
    /\ probing \in [has : BOOLEAN, allowed : BOOLEAN, upgraded : BOOLEAN, send : BOOLEAN]
    /\ carried \subseteq DavAddresses
    /\ dav.step \in 0..Len(dav.new)
    /\ acts \in 0..OtherActs

\* What an operation answers is true: "ok" when its effect was there at some
\* moment of it, whatever the other client did in between, "exists" when
\* something stood in the way.  Creating a file and a rename without
\* replacing never put anything in the place of what another client made.
DavAnswersAreTrue ==
    /\ dav.answer = "ok" => davHeld
    /\ dav.answer = "exists" => stood
    /\ dav.op \in {"create", "renameNoReplace"} => ~trampled

\* The password goes to the host the user chose only, and over an unencrypted
\* connection only when the user allowed that: no redirect and no order of
\* upgrade and sign-in sends it anywhere else.
PasswordStaysWithItsHost ==
    \A a \in carried : a.home /\ (a.secure \/ probing.allowed)
=============================================================================
