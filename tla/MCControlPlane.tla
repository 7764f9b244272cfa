--------------------------- MODULE MCControlPlane ---------------------------
(* Instances of ControlPlane for TLC.                                      *)
EXTENDS ControlPlane, TLC

CONSTANTS p1, p2, t1, t2, t3, s1, s2, n1, n2, a1, a2, x1, x2, c1, c2

ToolSymmetry == Permutations({p1, p2})

OwnName == s1 :> n1 @@ s2 :> n2

Says(t, s, a, x, c, status) ==
    [tenant |-> t, slug |-> s, account |-> a, session |-> x, chat |-> c,
     status |-> status]

User1     == Says(t1, s1, a1, x1, c1, "active")
User1Off  == Says(t1, s1, a1, x1, c1, "disabled")
User2     == Says(t2, s2, a2, x2, c2, "active")

\* A third tenant that wants what the others have: slug, account and chat.
Rival        == Says(t3, s1, a2, x2, c2, "active")
MixedEntries == {User1, User1Off, User2, Rival}
MixedFiles   == {{User1Off, User2}, {User1, User2}, {User2}}

\* Without users.json: two tenants for one account, and the session of the first
\* for the second under another phone number.
SameAccount == Says(t2, s2, a1, x1, c2, "active")
Alias       == Says(t2, s2, a2, x1, c1, "active")
CliEntries  == {User1, [SameAccount EXCEPT !.chat = c1], Alias}

\* A tenant that takes over the account of another, by users.json.
TakeOverEntries == {User1, SameAccount}
TakeOverFiles   == {{User1}, {SameAccount}}

\* Two tenants that are given the same slug.
SameSlug        == Says(t2, s1, a2, x2, c2, "active")
SameSlugEntries == {User1, SameSlug}

\* A tenant whose slug changes.
Renamed       == Says(t1, s2, a1, x1, c1, "active")
RenameEntries == {User1, Renamed}
=============================================================================
