CONSTANT Apps = {"VOPD", "MWD", "MPEG4", "synthetic", "communication", "prod_cons", "mpeg", "audio_video", "dtw", "aes", "quicksort", "matrix", "fixe"}
SPECIFICATION FairSpec
INVARIANT LengthsAgree
PROPERTY AllTasksExit
CHECK_DEADLOCK FALSE
