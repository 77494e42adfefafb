-------------------------- MODULE MCMockBootloader --------------------------
(* Small instance of MockBootloader: a flash of three cells, and writes    *)
(* that fill it, wrap around its end, or look like commands themselves.    *)
EXTENDS MockBootloader

MCCrc(data, n) == 0

MCRequests ==
  { Command(GET_WRITE_PTR, << >>), Command(GET_DEVICE, << BOARD_ID >>),
    Command(PROG_MULTI, << CHIP_ERASE, EOC >>), Command(PROG_MULTI, << 1, 1, 1, 35 >>),
    Command(REBOOT, << >>) }
==============================================================================
