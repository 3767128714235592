----------------------------- MODULE MCWorkdir ------------------------------
(* Three audits: two workers that save at the same time, and one more audit  *)
(* that is created after both, or after the crash.  Two requests for a token, *)
(* which are alike, a password change and an addition that makes the user a  *)
(* viewer; a token can expire within the run.  Instead of the change, another  *)
(* process can be there that was started on the same empty directory.        *)
EXTENDS Workdir, TLC

CONSTANTS login1, login2

MCNumAudits == 3
MCMaxSaves  == 2

MCLogins  == {login1, login2}
MCRivals  == {"rival"}
MCChanges == {"new1"}
MCRoleOf  == [new2 |-> "viewer"]
MCTtl     == 1
MCMaxTime == 1

LoginSymmetry == Permutations(MCLogins)

MCArrivals == {MCLogins \union {"new1", "new2", "admin-audit-2026"},
               MCLogins \union {"rival", "new2", "admin-audit-2026"}}
=============================================================================
