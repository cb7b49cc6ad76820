--------------------------- MODULE MCNodeProfile ---------------------------
(***************************************************************************)
(* Instances of NodeProfile for TLC: one timer slot and one change slot (as*)
(* many as kopf runs for one object), two readings per setting.            *)
(***************************************************************************)
EXTENDS NodeProfile

MCValues == {"want", "other"}

\* Provisioning: one-time boot and restart; tuning: BIOS profile.
MCDesired == {{"boot", "reboot"}, {"bios-profile"}}

\* Tuning with a restart: a staged profile that the reset makes current.
MCTuning == {{"bios-profile", "reboot"}}

\* All four blocks of the desired state at once.
MCAllBlocks == {Kinds, {"bios-profile", "ntp"}}

=============================================================================
