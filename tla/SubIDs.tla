------------------------------- MODULE SubIDs -------------------------------
(***************************************************************************)
(* The subordinate id block of a member (internal/sysusers/subids.go, and  *)
(* Create and Remove of host.go): an allocation reads /etc/subuid, appends *)
(* the next free block, reads the file back and asks again when the block  *)
(* is not its own alone.  Every change is a read of the whole file and a   *)
(* rename of a new one over it.  The allocations, and those of the console *)
(* script, exclude each other by a lock; a removal drops the block of its  *)
(* member without it.                                                      *)
(*                                                                         *)
(* The two files, /etc/subuid and /etc/subgid, are treated alike one after *)
(* the other: one is modelled.  A block is the number of its place above   *)
(* SubIDBase.  The file is a bag of lines: no reader asks for their order. *)
(***************************************************************************)
EXTENDS Naturals

CONSTANTS Names, Requests,
          Attempts,    \* SubIDAttempts
          MaxCreates   \* bound

VARIABLES account,  \* name -> "none", "half" made, "member"
          subuid,   \* the lines of the file, and how often each is there
          lock,     \* the request that holds subids.lock
          req,      \* request -> where it is
          creates,
          lost      \* a removal has written over a change it had not read

vars == <<account, subuid, lock, req, creates, lost>>

NoOne == "none"
NoLines == [x \in {} |-> 0]
Idle  == [at |-> "idle", name |-> NoOne, tries |-> 0, start |-> 0, lines |-> NoLines]
Begun(at, n) == [at |-> at, name |-> n, tries |-> 0, start |-> 0, lines |-> NoLines]

Init ==
    /\ account = [n \in Names |-> "none"]
    /\ subuid = NoLines /\ lock = NoOne
    /\ req = [r \in Requests |-> Idle]
    /\ creates = 0 /\ lost = FALSE
------------------------------------------------------------------------------
At(r, at) == req[r].at = at
Goes(r, at) == req' = [req EXCEPT ![r].at = at]
Busy(n) == \E r \in Requests : req[r] # Idle /\ req[r].name = n

\* hasSubID, nextSubID, blockIsOurs and removeSubID, on the lines a request read.
Has(lines, n) == \E x \in DOMAIN lines : x.name = n
NextFree(lines) ==
    CHOOSE top \in {0} \cup {x.start + 1 : x \in DOMAIN lines} : \A x \in DOMAIN lines : x.start < top
Drop(lines, n) == [x \in {x \in DOMAIN lines : x.name # n} |-> lines[x]]
With(lines, y) == [x \in DOMAIN lines \cup {y} |->
                      (IF x \in DOMAIN lines THEN lines[x] ELSE 0) + (IF x = y THEN 1 ELSE 0)]

Once(lines, some) == \E x \in some : some = {x} /\ lines[x] = 1
Ours(lines, n, s) ==
    /\ Once(lines, {x \in DOMAIN lines : x.name = n})
    /\ Once(lines, {x \in DOMAIN lines : x.start = s})
------------------------------------------------------------------------------
\* Create: the account first, then its block under the lock.
Create(r, n) ==
    /\ req[r] = Idle /\ account[n] = "none" /\ ~Busy(n) /\ creates < MaxCreates
    /\ creates' = creates + 1
    /\ account' = [account EXCEPT ![n] = "half"]
    /\ req' = [req EXCEPT ![r] = Begun("lock", n)]
    /\ UNCHANGED <<subuid, lock, lost>>

LockNothing(r) ==
    /\ At(r, "lock")
    /\ lock' = r /\ Goes(r, "has")
    /\ UNCHANGED <<account, subuid, creates, lost>>

\* lockSubIDs, and the mutex around it.
Lock(r) ==
    /\ At(r, "lock") /\ lock = NoOne
    /\ lock' = r /\ Goes(r, "has")
    /\ UNCHANGED <<account, subuid, creates, lost>>

\* A create that fails answers its error, and leaves the account as far as it got.
Fails(r) ==
    /\ lock' = NoOne /\ req' = [req EXCEPT ![r] = Idle]
    /\ UNCHANGED <<account, subuid, creates, lost>>

\* allocate: a name that has a block keeps it.
Look(r) ==
    /\ At(r, "has")
    /\ IF Has(subuid, req[r].name) THEN Goes(r, "last") /\ UNCHANGED <<account, subuid, lock, creates, lost>>
       ELSE IF req[r].tries < Attempts
       THEN /\ req' = [req EXCEPT ![r].at = "next", ![r].tries = @ + 1]
            /\ UNCHANGED <<account, subuid, lock, creates, lost>>
       ELSE Fails(r)

Choose(r) ==
    /\ At(r, "next")
    /\ req' = [req EXCEPT ![r].at = "append", ![r].start = NextFree(subuid)]
    /\ UNCHANGED <<account, subuid, lock, creates, lost>>

\* appendSubID and removeSubID read the file, and writeLines replaces it.
Read(r, at, to) ==
    /\ At(r, at)
    /\ req' = [req EXCEPT ![r].at = to, ![r].lines = subuid]
    /\ UNCHANGED <<account, subuid, lock, creates, lost>>

ReadForAppend(r) == Read(r, "append", "write")
ReadForDrop(r)   == Read(r, "drop", "dropwrite")
ReadForRemove(r) == Read(r, "remove", "removewrite")

AppendBlock(r) ==
    /\ At(r, "write")
    /\ subuid' = With(req[r].lines, [name |-> req[r].name, start |-> req[r].start])
    /\ Goes(r, "check")
    /\ UNCHANGED <<account, lock, creates, lost>>

Check(r) ==
    /\ At(r, "check")
    /\ Goes(r, IF Ours(subuid, req[r].name, req[r].start) THEN "last" ELSE "drop")
    /\ UNCHANGED <<account, subuid, lock, creates, lost>>

\* A file that does not name the member is not written.
Rewrite(r) == subuid' = IF Has(req[r].lines, req[r].name) THEN Drop(req[r].lines, req[r].name) ELSE subuid

DropWrite(r) ==
    /\ At(r, "dropwrite") /\ Rewrite(r) /\ Goes(r, "has")
    /\ UNCHANGED <<account, lock, creates, lost>>

\* ensureSubIDs: the last word before the lock is dropped; then the key and the runtime directory.
LastWord(r) ==
    /\ At(r, "last")
    /\ IF Has(subuid, req[r].name)
       THEN /\ lock' = NoOne /\ Goes(r, "rest")
            /\ UNCHANGED <<account, subuid, creates, lost>>
       ELSE Fails(r)

Created(r) ==
    /\ At(r, "rest")
    /\ account' = [account EXCEPT ![req[r].name] = "member"]
    /\ req' = [req EXCEPT ![r] = Idle]
    /\ UNCHANGED <<subuid, lock, creates, lost>>

CreateFails(r) ==
    /\ At(r, "rest")
    /\ req' = [req EXCEPT ![r] = Idle]
    /\ UNCHANGED <<account, subuid, lock, creates, lost>>
------------------------------------------------------------------------------
\* Remove: the containers and the sessions end first, and userdel takes the account.
Userdel(r, n) ==
    /\ req[r] = Idle /\ account[n] # "none" /\ ~Busy(n)
    /\ account' = [account EXCEPT ![n] = "none"]
    /\ req' = [req EXCEPT ![r] = Begun("archive", n)]
    /\ UNCHANGED <<subuid, lock, creates, lost>>

\* archiveHome: an error ends the removal, and the block stays for whoever has the name next.
ArchiveHome(r) ==
    /\ At(r, "archive")
    /\ \/ Goes(r, "remove")
       \/ req' = [req EXCEPT ![r] = Idle]
    /\ UNCHANGED <<account, subuid, lock, creates, lost>>

RemoveWrite(r) ==
    /\ At(r, "removewrite") /\ Rewrite(r)
    /\ req' = [req EXCEPT ![r] = Idle]
    /\ lost' = (lost \/ subuid # req[r].lines)
    /\ UNCHANGED <<account, lock, creates>>

Next == \E r \in Requests :
    \/ \E n \in Names : Create(r, n) \/ Userdel(r, n)
    \/ Lock(r) \/ Look(r) \/ Choose(r) \/ ReadForAppend(r) \/ AppendBlock(r) \/ Check(r)
    \/ ReadForDrop(r) \/ DropWrite(r) \/ LastWord(r) \/ Created(r) \/ CreateFails(r)
    \/ ArchiveHome(r) \/ ReadForRemove(r) \/ RemoveWrite(r)

Spec == Init /\ [][Next]_vars
------------------------------------------------------------------------------
Settled(n) == account[n] = "member" /\ ~Busy(n)

\* A member that was created has a block for as long as it is a member (subids.go lockSubIDs: "the two
\* writers of these files are kitbashd and kitbash-adduser, and both take it").
MembersKeepABlock == \A n \in Names : Settled(n) => Has(subuid, n)

\* As long as no removal has written over what it had not read, every member has a block and no two
\* hold the same one, whatever creates overlap and whichever of them failed half way (subids.go:
\* "Every member gets one block of 65536 ids, the first at SubIDBase, and blocks never overlap").
BlocksAreApart ==
    ~lost => /\ MembersKeepABlock
             /\ \A x, y \in DOMAIN subuid : subuid[x] = 1 /\ (x.start = y.start => x = y)
==============================================================================
