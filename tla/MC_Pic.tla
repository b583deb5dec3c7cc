-------------------------------- MODULE MC_Pic --------------------------------
(* Small instances of Pic: tasks as the BIOS and other programs set them. *)
EXTENDS Pic, TLC

W(chip, a, d) == [chip |-> chip, a |-> a, d |-> d]

\* ICW1 to ICW4 of both controllers and their masks: vectors 8 and 112.
Initialise(icw4, mask, slave_mask) ==
    <<W("master", 0, 17), W("slave", 0, 17), W("master", 1, 8), W("slave", 1, 112),
      W("master", 1, 4), W("slave", 1, 2), W("master", 1, icw4), W("slave", 1, icw4),
      W("master", 1, mask), W("slave", 1, slave_mask)>>

\* Handlers that nest, at both controllers.
Nesting == [setup |-> Initialise(1, 0, 0), masks |-> {}, steady |-> {1, 12, 14},
            rises |-> (1 :> 1 @@ 12 :> 2 @@ 14 :> 1), eoi |-> "unspecific", nested |-> TRUE]
\* Requests withdrawn and masked while the processor is taking them.
Withdrawn == [setup |-> Initialise(1, 0, 0), masks |-> {W("master", 1, 2), W("master", 1, 0)},
              steady |-> {7}, rises |-> (1 :> 2 @@ 7 :> 2), eoi |-> "specific", nested |-> FALSE]
SlaveWithdrawn == [setup |-> Initialise(1, 0, 0), masks |-> {W("slave", 1, 16), W("slave", 1, 0)},
                   steady |-> {15}, rises |-> (12 :> 2 @@ 15 :> 2),
                   eoi |-> "unspecific", nested |-> FALSE]
\* Equal devices that take turns, at both controllers.
Rotating == [setup |-> Initialise(1, 0, 0), masks |-> {}, steady |-> {4, 9, 12},
             rises |-> (4 :> 2 @@ 9 :> 1 @@ 12 :> 2), eoi |-> "rotating", nested |-> FALSE]
\* Controllers that end interrupts themselves.
Automatic == [setup |-> Initialise(3, 0, 0), masks |-> {}, steady |-> {0},
              rises |-> (0 :> 2 @@ 10 :> 1), eoi |-> "automatic", nested |-> TRUE]

AllTasks == {Nesting, Withdrawn, SlaveWithdrawn, Rotating, Automatic}
=============================================================================
