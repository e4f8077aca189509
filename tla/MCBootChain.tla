----------------------------- MODULE MCBootChain -----------------------------
(* Both boots in a memory of sixteen cells: the big page of the 32-bit code,  *)
(* an image of three cells in two pages, three cells of BSS and the arena.    *)
EXTENDS BootChain

ASSUME BootAssumption
ASSUME LayoutAssumption
ASSUME ClockAssumption

MCArena == {12, 13}
MCOwned == {{}, {0}, {6}, {7}, {8}, {5, 12}, {a \in 0 .. 15 : a % 2 = 1}}
MCFiles ==
  {{"/hello.rb", "/init.rb", "/autodemo.rb"}, {"/init.rb", "/autodemo.rb"},
   {"/hello.rb"}}
=============================================================================
