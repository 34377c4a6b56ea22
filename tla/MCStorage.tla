------------------------------ MODULE MCStorage ------------------------------
(* Instances of Storage for TLC.                                           *)
EXTENDS Storage

MCImage == <<[lba |-> 6, sectors |-> 3], [lba |-> 9, sectors |-> 1]>>

\* Another disk in the port before that of the boot disk, which the loader
\* passes over and the kernel takes; or no USB disk, but other devices.
MCPlugged == {<<"other", "ours">>, <<"mouse", "camera">>}
MCPluggable == {"mouse"}

\* The boot image on the second drive of a channel, or damaged.
MCDrives == {<<"none", "ours">>, <<"damaged">>}

NoDisk == {<<"mouse", "none">>}
OneDrive == {<<"ours">>}

Ask(from, op, d, lba, blocks) ==
    [from |-> from, op |-> op, device |-> d, lba |-> lba, blocks |-> blocks]

MCRequest == {Ask("kernel", "read", 0, 0, 2), Ask("kernel", "read", 2, 1, 2),
              Ask("kernel", "read", 0, 0, 3), Ask("allowed", "read", 2, 0, 1),
              Ask("allowed", "info", 1, 0, 1), Ask("denied", "devices", 0, 0, 1)}
NoRequest == {}

=============================================================================
