------------------------------ MODULE MCWindowFrames ------------------------------
EXTENDS WindowFrames

MCIds == 1..7
MCEvents == {"resize", "empty", "minimize", "restore", "hide", "show", "input"}
===================================================================================
