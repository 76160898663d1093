-------------------------- MODULE MCEntryLifecycle --------------------------
(* Instances of EntryLifecycle for TLC.                                    *)
EXTENDS EntryLifecycle, TLC

CONSTANTS old, new, cloud, other, reconfigure

TwoCredentials == {old, new}
TwoServers == {cloud, other}
ShortAndLong == {300, 900}
OneReconfigure == {reconfigure}

(* Neither pair of credentials, nor either server, is special.             *)
Renamings == Permutations(TwoCredentials) \cup Permutations(TwoServers)
=============================================================================
