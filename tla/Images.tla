------------------------------- MODULE Images -------------------------------
(***************************************************************************)
(* Builds and the images they made (internal/pkg/pkg.go, the image half of *)
(* internal/proc/proc.go, internal/daemon/builds.go and images.go,         *)
(* internal/store/builds.go).                                              *)
(*                                                                         *)
(* Each member has an image store of their own.  A build of a commit under *)
(* /org is recorded, and whoever builds that commit next takes a copy from *)
(* the member on record instead, so that one commit is one digest.  The    *)
(* daemon copies one image at a time to a member, and a few in all.        *)
(***************************************************************************)
EXTENDS Naturals, FiniteSets

CONSTANTS Members,
          Sessions, UserOf,    \* the sessions, and the member each is of
          Org,                 \* the Packages under /org; any other is in the home of its only builder
          Images,              \* what a build may make: a path, a commit, a digest
          MaxFetchesPerMember, MaxBuildsPerBuilder, MaxBuildsPerPath,
          MaxClock, MaxGone    \* bounds: records, and images that are removed

VARIABLES holds,     \* the image store of each member
          records,   \* the rows of builds: an image, its builder, when
          calls,     \* the pkg_build or proc_run each session is in
          held, per, \* the claims of fetchLock, and how many each member has
          members,   \* the accounts there are
          gone, clock

vars == <<holds, records, calls, held, per, members, gone, clock>>

None  == "none"
Quiet == [pc |-> "idle", path |-> None, commit |-> None, image |-> None, from |-> None]

Rows(p, c)   == {r \in records : r.image.path = p /\ r.image.commit = c}
RowsOf(p, m) == {r \in records : r.image.path = p /\ r.builder = m}

Init ==
    /\ holds = [m \in Members |-> {}]
    /\ records = {} /\ held = {}
    /\ calls = [s \in Sessions |-> Quiet]
    /\ per = [m \in Members |-> 0]
    /\ members = Members
    /\ gone = 0 /\ clock = 0
------------------------------------------------------------------------------
To(s, pc) == calls' = [calls EXCEPT ![s].pc = pc]
Ends(s)   == calls' = [calls EXCEPT ![s] = Quiet]

\* winner: the one recorded first.
Winner(rows) == {r \in rows : \A s \in rows : r.at <= s.at}

\* build and copied: the winner of the commit is the answer when it is here, is asked for when it is
\* another member's, and otherwise the image is made.
Build(s, d) ==
    /\ calls[s] = Quiet /\ UserOf[s] \in members
    /\ LET best == Winner(Rows(d.path, d.commit))
           goes(pc, i, b) == calls' = [calls EXCEPT ![s] =
                [pc |-> pc, path |-> d.path, commit |-> d.commit, image |-> i, from |-> b]]
       IN  \/ d.path \notin Org /\ goes("make", None, None)
           \/ d.path \in Org /\ best = {} /\ goes("make", None, None)
           \/ /\ d.path \in Org
              /\ \E r \in best : /\ r.image \notin holds[UserOf[s]]
                                 /\ IF r.builder = UserOf[s] THEN goes("make", None, None)
                                    ELSE goes("ask", r.image, r.builder)
    /\ UNCHANGED <<holds, records, held, per, members, gone, clock>>

\* fetch of proc.go: a run of a digest that is not here asks whoever has recorded it last.
Run(s, d) ==
    /\ calls[s] = Quiet /\ UserOf[s] \in members /\ d \notin holds[UserOf[s]]
    /\ \E r \in records : /\ r.image = d /\ r.builder # UserOf[s]
                          /\ calls' = [calls EXCEPT ![s] = [Quiet EXCEPT
                                !.pc = "ask", !.image = d, !.from = r.builder]]
    /\ UNCHANGED <<holds, records, held, per, members, gone, clock>>

\* The runtime builds; two builds of one commit may make two images.  Only /org is recorded.
Make(s) ==
    /\ calls[s].pc = "make"
    /\ \/ \E d \in Images :
            /\ d.path = calls[s].path /\ d.commit = calls[s].commit
            /\ holds' = [holds EXCEPT ![UserOf[s]] = @ \union {d}]
            /\ calls' = IF d.path \in Org
                        THEN [calls EXCEPT ![s].pc = "record", ![s].image = d]
                        ELSE [calls EXCEPT ![s] = Quiet]
       \/ Ends(s) /\ UNCHANGED holds
    /\ UNCHANGED <<records, held, per, members, gone, clock>>

\* podman rmi, by the member.
RemoveImage(m, d) ==
    /\ d \in holds[m] /\ gone < MaxGone /\ gone' = gone + 1
    /\ holds' = [holds EXCEPT ![m] = @ \ {d}]
    /\ UNCHANGED <<records, calls, held, per, members, clock>>
------------------------------------------------------------------------------
\* The newest n of a set of rows.
Newest(rows, n) == {r \in rows : Cardinality({s \in rows : s.at > r.at}) < n}

\* The rows of a path pruned to the bound of one builder, whoever they are of.
PrunedOfAll(rows, p, m) ==
    LET of == {r \in rows : r.image.path = p}
    IN  (rows \ of) \union Newest(of, MaxBuildsPerBuilder)

\* RecordBuild: the builder's own oldest beyond the bound of a builder, then the path's.
Pruned(rows, p, m) ==
    LET own  == {r \in rows : r.image.path = p /\ r.builder = m}
        mine == (rows \ own) \union Newest(own, MaxBuildsPerBuilder)
        path == {r \in mine : r.image.path = p}
    IN  (mine \ path) \union Newest(path, MaxBuildsPerPath)

\* The row of whoever records it last.
UpsertAny(d, m) ==
    {r \in records : r.image # d} \union {[image |-> d, builder |-> m, at |-> clock + 1]}

\* The insert: its own builder's row is written again with the time of now, and another's is left.
Upsert(d, m) ==
    LET row == {r \in records : r.image = d}
    IN  IF \E r \in row : r.builder # m THEN records
        ELSE (records \ row) \union {[image |-> d, builder |-> m, at |-> clock + 1]}

\* recordBuild: what the caller's own store holds, under its own labels, of a caller who is a member.
\* A refusal is told in the span of the build and nowhere else.
Record(s) ==
    /\ calls[s].pc = "record" /\ Ends(s)
    /\ LET d == calls[s].image
           m == UserOf[s]
       IN  \/ /\ m \in members /\ d \in holds[m] /\ clock < MaxClock
              /\ clock' = clock + 1
              /\ records' = Pruned(Upsert(d, m), d.path, m)
           \/ UNCHANGED <<clock, records>>
    /\ UNCHANGED <<holds, held, per, members, gone>>
------------------------------------------------------------------------------
\* A claim that looks at the image alone.
TakesAnyCount(m, d) == <<m, d>> \notin held

\* fetchLock.take.
Takes(m, d) == <<m, d>> \notin held /\ per[m] < MaxFetchesPerMember

\* A build that got no copy makes its own; a run says there is none.
Instead(s) == IF calls[s].path = None THEN Ends(s) ELSE To(s, "make")

\* fetchImage, up to the claim.
Fetch(s) ==
    /\ calls[s].pc = "ask"
    /\ LET m == UserOf[s]
           d == calls[s].image
       IN  \/ /\ m \in members /\ Takes(m, d)
              /\ \E r \in records : r.image = d /\ r.builder = calls[s].from
              /\ held' = held \union {<<m, d>>}
              /\ per' = [per EXCEPT ![m] = @ + 1]
              /\ To(s, "look")
           \/ Instead(s) /\ UNCHANGED <<held, per>>
    /\ UNCHANGED <<holds, records, members, gone, clock>>

\* A release that leaves the counter to the next copy of the same image.
ReleasedHeld(s) == held' = held \ {<<UserOf[s], calls[s].image>>} /\ UNCHANGED per

\* What take answers to release the claim, on every way out.
Released(s) ==
    /\ held' = held \ {<<UserOf[s], calls[s].image>>}
    /\ per' = [per EXCEPT ![UserOf[s]] = @ - 1]

\* The builder or the caller is no member any more, the builder no longer has the image, the runtime
\* did not answer, or the copy is not in the caller's store.
Refuse(s) ==
    /\ calls[s].pc \in {"look", "copy", "arrived"}
    /\ Instead(s) /\ Released(s)
    /\ UNCHANGED <<holds, records, members, gone, clock>>

Look(s) ==
    /\ calls[s].pc = "look" /\ calls[s].image \in holds[calls[s].from]
    /\ {calls[s].from, UserOf[s]} \subseteq members
    /\ To(s, "copy")
    /\ UNCHANGED <<holds, records, held, per, members, gone, clock>>

\* CopyImage: a save as one member into a load as the other.
Copy(s) ==
    /\ calls[s].pc = "copy" /\ calls[s].image \in holds[calls[s].from] /\ UserOf[s] \in members
    /\ holds' = [holds EXCEPT ![UserOf[s]] = @ \union {calls[s].image}]
    /\ To(s, "arrived")
    /\ UNCHANGED <<records, held, per, members, gone, clock>>

\* The copy is believed when the caller's own store answers for it; a build answers its digest.
Arrive(s) ==
    /\ calls[s].pc = "arrived" /\ calls[s].image \in holds[UserOf[s]]
    /\ Ends(s) /\ Released(s)
    /\ UNCHANGED <<holds, records, members, gone, clock>>

\* The account goes with its store, and its records with it.
Leave(m) ==
    /\ m \in members
    /\ members' = members \ {m}
    /\ holds' = [holds EXCEPT ![m] = {}]
    /\ records' = {r \in records : r.builder # m}
    /\ UNCHANGED <<calls, held, per, gone, clock>>

Next ==
    \/ \E s \in Sessions :
         \/ \E d \in Images : Build(s, d) \/ Run(s, d)
         \/ Make(s) \/ Record(s) \/ Fetch(s) \/ Look(s) \/ Copy(s) \/ Arrive(s) \/ Refuse(s)
    \/ \E m \in Members : Leave(m) \/ \E d \in Images : RemoveImage(m, d)

Spec == Init /\ [][Next]_vars
------------------------------------------------------------------------------
\* The slots of a member are the copies that member has under way, on every way out of a fetch: none
\* is lost and none is given back twice, and one image is copied once at a time (images.go fetchLock).
SlotsAreTheCopies ==
    LET copying == {s \in Sessions : calls[s].pc \in {"look", "copy", "arrived"}}
    IN  /\ held = {<<UserOf[s], calls[s].image>> : s \in copying}
        /\ Cardinality(held) = Cardinality(copying)
        /\ \A m \in Members : /\ per[m] = Cardinality({s \in copying : UserOf[s] = m})
                              /\ per[m] <= MaxFetchesPerMember

\* The record of a build is its builder's: no other member takes it over, and none pushes it out of
\* the table, however much of a path they record, while the bound of a path is what the bounds of its
\* builders come to (store/builds.go RecordBuild).
RecordsAreTheBuilders ==
    [][\A r \in records :
          \/ \E s \in records' : s.image = r.image /\ s.builder = r.builder
          \/ r.builder \in members \ members'
          \/ \E s \in Sessions : UserOf[s] = r.builder /\ Record(s)]_vars

\* One commit is one digest for everybody: the image the builds of a commit converge on changes only
\* with its builder's account or at its builder's bound (the doc of winner, pkg.go).  It fails when
\* the first record is written again, by a second build of the same member, after another's.
WinnerStays ==
    [][\A d \in Images :
          LET rows == Rows(d.path, d.commit)
          IN  \A r \in Winner(rows) :
                \/ \E s \in Winner(rows)' : s.image = r.image
                \/ r.builder \in members \ members'
                \/ Cardinality(RowsOf(d.path, r.builder)) = MaxBuildsPerBuilder]_vars
==============================================================================
