--------------------------- MODULE MCAccountsDb ---------------------------
(* The accounts database with two addresses and three slots.               *)
EXTENDS AccountsDb

CONSTANTS clock, acct, replay1, banking1, sim1, rpc1

MCPubkeys == {clock, acct}
MCMigrated == {acct}
MCReplay == {replay1}
MCBanking == {banking1}
MCSim == {sim1}
MCRpc == {rpc1}
MCNone == {}

=============================================================================
