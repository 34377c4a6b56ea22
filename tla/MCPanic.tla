------------------------------ MODULE MCPanic ------------------------------
(* An instance of Panic for TLC.                                           *)
EXTENDS Panic, TLC

\* The largest power of two whose doubles TLC can hold.
MCWord == 512 * MiB

\* A laptop as the driver expects it, showing a firmware picture on its panel.
Laptop == [gpu |-> TRUE, decode |-> TRUE, gtt |-> "ok", lvds |-> 1, adpa |-> Off,
           running |-> {1}, width |-> 1024, height |-> 768, aperture |-> 128 * MiB,
           plane |-> (0 :> "off" @@ 1 :> "stolen"), ring |-> "on", vga |-> TRUE]

\* And one thing at a time that is different.
MCFirmware ==
    {Laptop,
     [Laptop EXCEPT !.gpu = FALSE],
     [Laptop EXCEPT !.decode = FALSE],
     [Laptop EXCEPT !.gtt = "off"],
     [Laptop EXCEPT !.gtt = "conflict"],
     [Laptop EXCEPT !.lvds = Off],
     [Laptop EXCEPT !.lvds = Off, !.adpa = 0, !.running = {0}, !.ring = "off"],
     [Laptop EXCEPT !.adpa = 0, !.running = {0, 1}],
     [Laptop EXCEPT !.adpa = 1, !.vga = FALSE, !.ring = "left", !.aperture = 256 * MiB],
     [Laptop EXCEPT !.running = {0}],
     [Laptop EXCEPT !.width = 2560],
     [Laptop EXCEPT !.plane = (0 :> "window" @@ 1 :> "stolen")]}

\* Nothing, the colours of the report, or its foreground only.
MCReload == {{}, {4, 63}, {63}}

\* Motions far over an edge and back, and a batch of two.
MCMotion == {<<<<-4000, 300>>>>, <<<<4000, -1>>, <<-100, -4000>>>>}

\* A frame over the end of a page into one that is not mapped; the last word.
MCFrame == {4088, 8188, 8196, 8200, MCWord - 4}
MCMapped == {0, 2, (MCWord \div 4096) - 1}

=============================================================================
