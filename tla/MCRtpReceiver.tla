--------------------------- MODULE MCRtpReceiver ---------------------------
EXTENDS RtpReceiver, TLC
ViewersSymmetry == Permutations(Viewers)
=============================================================================
