----------------------------- MODULE MCSpiClock -----------------------------
EXTENDS SpiClock

(* SPI_CLOCK_DIV_1, SPI_CLOCK_DIV_2 and SPI_CLOCK_DIV_8 as field values. *)
MCDivs == {0, 1, 3}

=============================================================================
