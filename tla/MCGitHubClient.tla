--------------------------- MODULE MCGitHubClient ---------------------------
(* Small clients for TLC.  The unit of time stands for thirty seconds or   *)
(* more, the longest a call may take.                                      *)
EXTENDS GitHubClient, TLC

CONSTANTS repo1, repo2, owner1, owner2

OneRepo   == {repo1}
TwoRepos  == {repo1, repo2}
OneOwner  == {owner1}
TwoOwners == {owner1, owner2}

ByOneOwner  == [r \in Repos |-> owner1]
ByTwoOwners == repo1 :> owner1 @@ repo2 :> owner2

=============================================================================
