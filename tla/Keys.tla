-------------------------------- MODULE Keys --------------------------------
(***************************************************************************)
(* The authorized_keys of a member (internal/sysusers/host.go AddKey, keys *)
(* and writeKey): the daemon is root and every name below a home is the    *)
(* member's, who may change what it names between any two steps.  So the   *)
(* file is opened once and what is checked, read and written is the file   *)
(* that was opened.  users_add_key takes no lock: two calls interleave,    *)
(* and a removal of the member may run beside them.                        *)
(*                                                                         *)
(* A file is one of "own" (the member's, with one link), "linked" (the     *)
(* member's, with two) and "foreign" (somebody else's, to which the member *)
(* made a hard link); a file made where one was unlinked is not told apart *)
(* from it.  A key is one line that ValidateKey accepts.                   *)
(***************************************************************************)
EXTENDS Naturals

CONSTANTS Requests, Keys,
          Theirs,     \* what is in the file of somebody else
          MaxMoves    \* bound: how often the member moves a name

VARIABLES account,  \* the member has an account
          home,     \* "here", or moved to the archive
          ssh,      \* what .ssh is: "none", "dir", "link"
          name,     \* the file .ssh/authorized_keys names, or "none"
          content,  \* file -> the keys in it
          req,      \* request -> where it is
          moves

vars == <<account, home, ssh, name, content, req, moves>>

Inodes == {"own", "linked", "foreign"}
Idle   == [at |-> "idle"]
\* ValidateKey: what is not a key line is refused before anything is looked at.
ValidKeys == Keys \ Theirs

Init ==
    /\ account = TRUE /\ home = "here" /\ ssh = "none" /\ name = "none"
    /\ content = [f \in Inodes |-> IF f = "foreign" THEN Theirs ELSE {}]
    /\ req = [r \in Requests |-> Idle]
    /\ moves = 0
------------------------------------------------------------------------------
At(r, at) == req[r].at = at
Goes(r, at) == req' = [req EXCEPT ![r].at = at]
Ends(r) == req' = [req EXCEPT ![r] = Idle]
Unmoved == UNCHANGED <<account, home, ssh, name, content, moves>>

\* ownedFile, on what the name says by now.
OwnedName(r) == name = "own"

\* ownedFile, on the file that was opened.
OwnedFile(r) == req[r].file = "own"

\* AddKey: the target has to be a member.
AddKey(r, k) ==
    /\ req[r] = Idle /\ account
    /\ req' = [req EXCEPT ![r] = [at |-> "home", key |-> k, file |-> "none", lines |-> {}]]
    /\ Unmoved

\* checkHome: a home that is not there is made.
CheckHome(r) ==
    /\ At(r, "home")
    /\ home' = "here" /\ Goes(r, "ssh")
    /\ UNCHANGED <<account, ssh, name, content, moves>>

\* sshDir: a symbolic link is refused, a directory that is not there is made.
SshDir(r) ==
    /\ At(r, "ssh")
    /\ IF ssh = "link" THEN Ends(r) /\ Unmoved
       ELSE /\ ssh' = "dir" /\ Goes(r, "open")
            /\ UNCHANGED <<account, home, name, content, moves>>

\* keys: created by the daemon when there is none, and opened as it is otherwise.
OpenKeys(r) ==
    /\ At(r, "open")
    /\ IF name = "none"
       THEN /\ name' = "own"
            /\ content' = [content EXCEPT !["own"] = {}]
            /\ req' = [req EXCEPT ![r].at = "read", ![r].file = "own"]
            /\ UNCHANGED <<account, home, ssh, moves>>
       ELSE /\ req' = [req EXCEPT ![r].at = "check", ![r].file = name]
            /\ Unmoved

CheckOwned(r) ==
    /\ At(r, "check")
    /\ IF OwnedFile(r) THEN Goes(r, "read") ELSE Ends(r)
    /\ Unmoved

\* writeKey: a key that is there is not written twice; otherwise the file is emptied and written whole.
ReadKeys(r) ==
    /\ At(r, "read")
    /\ LET lines == content[req[r].file]
       IN  IF req[r].key \in lines THEN Ends(r)
           ELSE req' = [req EXCEPT ![r].at = "truncate", ![r].lines = lines]
    /\ Unmoved

Truncate(r) ==
    /\ At(r, "truncate")
    /\ content' = [content EXCEPT ![req[r].file] = {}] /\ Goes(r, "write")
    /\ UNCHANGED <<account, home, ssh, name, moves>>

WriteKeys(r) ==
    /\ At(r, "write")
    /\ content' = [content EXCEPT ![req[r].file] = req[r].lines \union {req[r].key}] /\ Ends(r)
    /\ UNCHANGED <<account, home, ssh, name, moves>>
------------------------------------------------------------------------------
\* The member renames, links and unlinks what is below the home.
MemberMoves ==
    /\ home = "here" /\ moves < MaxMoves /\ moves' = moves + 1
    /\ \/ \E s \in {"none", "dir", "link"} : ssh' = s /\ name' = "none"
       \/ \E f \in Inodes \union {"none"} : ssh' = "dir" /\ name' = f
    /\ UNCHANGED <<account, home, content, req>>

\* Remove: the account goes, then the home is archived with what is in it.
RemoveAccount ==
    /\ account /\ account' = FALSE
    /\ UNCHANGED <<home, ssh, name, content, req, moves>>

RemoveHome ==
    /\ ~account /\ home = "here"
    /\ home' = "archived" /\ ssh' = "none" /\ name' = "none"
    /\ UNCHANGED <<account, content, req, moves>>

Next ==
    \/ \E r \in Requests :
         \/ \E k \in ValidKeys : AddKey(r, k)
         \/ CheckHome(r) \/ SshDir(r) \/ OpenKeys(r) \/ CheckOwned(r)
         \/ ReadKeys(r) \/ Truncate(r) \/ WriteKeys(r)
    \/ MemberMoves \/ RemoveAccount \/ RemoveHome

Spec == Init /\ [][Next]_vars
------------------------------------------------------------------------------
\* The daemon never writes a file that is not the member's, whatever the member makes of the names
\* while a call is between its check and its write (host.go keys: "every check is made on the
\* descriptor rather than on the path").
OthersKeepTheirFiles == content["foreign"] = Theirs
==============================================================================
