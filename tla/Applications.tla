----------------------------- MODULE Applications -----------------------------
(***************************************************************************)
(* The distributed applications of the repository: one definition per      *)
(* task, the calls of Send and Receive of its main() in the order the code *)
(* makes them. What a task computes between two calls is left out; of a    *)
(* message only its length is kept, in words.                              *)
(*                                                                         *)
(* Left out: sorting_single_task, which calls neither; dijkstra, whose     *)
(* tasks send to a print_dij that no file of the application defines.      *)
(***************************************************************************)
EXTENDS Naturals, Sequences, SequencesExt

MSG_SIZE == 1024

(* A Send has the length of its message. A Receive has the words the task
   needs: the fewest it reads from the message, and the most there is room for
   where it copies them to. A task that sets msg.length before Receive expects
   that length. *)

Send(peer, words) == [op |-> "send", peer |-> peer, least |-> words, most |-> words]
ReceiveInto(peer, least, most) ==
    [op |-> "receive", peer |-> peer, least |-> least, most |-> most]
Receive(peer, words) == ReceiveInto(peer, words, words)
ReceiveAny(peer, least) == ReceiveInto(peer, least, MSG_SIZE)

\* A program is a sequence of loops.
Times(n, calls) == IF n = 0 \/ calls = <<>> THEN <<>> ELSE <<[times |-> n, calls |-> calls]>>
Once(calls) == Times(1, calls)

\* The shape of the synthetic benchmarks: n messages of 128 words, then a shorter one.
Sends(peer, n, last) == Times(n, <<Send(peer, 128)>>) \o Once(<<Send(peer, last)>>)
Receives(peer, n, last) == Times(n, <<Receive(peer, 128)>>) \o Once(<<Receive(peer, last)>>)
FullSends(peer, n) == Times(n, <<Send(peer, 128)>>)
FullReceives(peer, n) == Times(n, <<Receive(peer, 128)>>)

-----------------------------------------------------------------------------
(* VOPD: video object plane decoder *)

VOPD_VLD == Once(<<Send("RUN", 128), Send("RUN", 87)>>)
VOPD_RUN == Once(<<Receive("VLD", 128), Receive("VLD", 87)>>) \o Sends("ISCAN", 8, 88)
VOPD_ISCAN == Receives("RUN", 8, 88) \o Sends("ACDC", 8, 88)

\* Mutant of VOPD_ACDC: the last message to IQUANT is not shortened.
ACDCForgetsLength ==
    Receives("ISCAN", 8, 88) \o Once(<<Send("STRIPEM", 128), Send("STRIPEM", 22)>>)
    \o FullSends("IQUANT", 9)

VOPD_ACDC ==
    Receives("ISCAN", 8, 88) \o Once(<<Send("STRIPEM", 128), Send("STRIPEM", 22)>>)
    \o Sends("IQUANT", 8, 88)
VOPD_STRIPEM ==
    Once(<<Receive("ACDC", 128), Receive("ACDC", 22), Send("IQUANT", 128)>>)
VOPD_IQUANT ==
    Receives("ACDC", 8, 88) \o Once(<<Receive("STRIPEM", 128)>>) \o Sends("IDCT2", 8, 72)
VOPD_ARM == Once(<<Send("IDCT2", 128)>>)
VOPD_IDCT2 ==
    Once(<<Receive("ARM", 128)>>) \o Receives("IQUANT", 8, 72) \o Sends("UPSAMP", 8, 61)
VOPD_UPSAMP == Receives("IDCT2", 8, 61) \o Sends("VOPREC", 7, 26)
VOPD_VOPREC == Receives("UPSAMP", 7, 26) \o Sends("PAD", 7, 66) \o Receives("VOPME", 11, 92)

VOPD_PAD == Receives("VOPREC", 7, 66) \o Sends("VOPME", 7, 66) \o Receives("VOPME", 2, 33)
VOPD_VOPME == Receives("PAD", 7, 66) \o Sends("PAD", 2, 33) \o Sends("VOPREC", 11, 92)

VOPD == [VLD |-> VOPD_VLD, RUN |-> VOPD_RUN, ISCAN |-> VOPD_ISCAN, ACDC |-> VOPD_ACDC,
         STRIPEM |-> VOPD_STRIPEM, IQUANT |-> VOPD_IQUANT, ARM |-> VOPD_ARM,
         IDCT2 |-> VOPD_IDCT2, UPSAMP |-> VOPD_UPSAMP, VOPREC |-> VOPD_VOPREC,
         PAD |-> VOPD_PAD, VOPME |-> VOPD_VOPME]

-----------------------------------------------------------------------------
(* MWD: multi-window display *)

\* Mutant of MWD_IN: one window less for the noise reduction.
INStopsEarly == FullSends("HS", 10) \o FullSends("NR", 4)

MWD_IN == FullSends("HS", 10) \o FullSends("NR", 5)
MWD_HS == FullReceives("IN", 10) \o Sends("VS", 7, 64)
MWD_VS == Receives("HS", 7, 64) \o Sends("JUG1", 7, 64)
MWD_JUG1 == Receives("VS", 7, 64) \o Sends("MEM3", 7, 64)
MWD_NR == FullReceives("IN", 5) \o FullSends("MEM1", 5) \o FullReceives("MEM1", 5)
          \o Sends("MEM2", 7, 64)
MWD_MEM1 == FullReceives("NR", 5) \o FullSends("NR", 5)
MWD_MEM2 == Receives("NR", 7, 64) \o Sends("HVS", 7, 64)
MWD_HVS == Receives("MEM2", 7, 64) \o Sends("JUG2", 7, 64)
MWD_JUG2 == Receives("HVS", 7, 64) \o Sends("MEM3", 7, 64)
MWD_MEM3 == Receives("JUG1", 7, 64) \o Receives("JUG2", 7, 64) \o FullSends("SE", 5)
MWD_SE == FullReceives("MEM3", 5) \o FullSends("BLEND", 5)
MWD_BLEND == FullReceives("SE", 5)

MWD == [IN |-> MWD_IN, HS |-> MWD_HS, VS |-> MWD_VS, JUG1 |-> MWD_JUG1, NR |-> MWD_NR,
        MEM1 |-> MWD_MEM1, MEM2 |-> MWD_MEM2, HVS |-> MWD_HVS, JUG2 |-> MWD_JUG2,
        MEM3 |-> MWD_MEM3, SE |-> MWD_SE, BLEND |-> MWD_BLEND]

-----------------------------------------------------------------------------
(* MPEG4: twelve tasks around two shared memories *)

MPEG4_SDRAM ==
    FullSends("BAB", 10) \o FullReceives("BAB", 10)
    \o Sends("UPSAMP", 117, 24) \o Receives("UPSAMP", 117, 24)
    \o FullSends("ADSP", 10) \o FullSends("MCPU", 10) \o FullReceives("ADSP", 10)
    \o Sends("RAST", 79, 18) \o Receives("RAST", 79, 18)
    \o FullSends("AU", 10) \o Sends("VU", 25, 10)
MPEG4_SRAM2 ==
    Sends("RISC", 65, 120) \o Receives("RISC", 65, 120) \o Sends("BAB", 22, 114)
    \o Sends("IDCT", 32, 124) \o Receives("IDCT", 32, 124) \o Sends("UPSAMP", 88, 46)
MPEG4_RISC == Receives("SRAM2", 65, 120) \o Sends("SRAM2", 65, 120)
MPEG4_BAB == Receives("SRAM2", 22, 114) \o FullReceives("SDRAM", 10) \o FullSends("SDRAM", 10)
MPEG4_IDCT == Receives("SRAM2", 32, 124) \o Sends("SRAM2", 32, 124)
MPEG4_UPSAMP ==
    Receives("SRAM2", 88, 46) \o Receives("SDRAM", 117, 24) \o Sends("SDRAM", 117, 24)
MPEG4_ADSP == FullReceives("SDRAM", 10) \o FullSends("SDRAM", 10)
MPEG4_MCPU == FullReceives("SDRAM", 10) \o FullSends("SRAM1", 10)
MPEG4_SRAM1 == FullReceives("MCPU", 10) \o FullSends("RAST", 10)
MPEG4_RAST == FullReceives("SRAM1", 10) \o Receives("SDRAM", 79, 18) \o Sends("SDRAM", 79, 18)
MPEG4_AU == FullReceives("SDRAM", 10)
MPEG4_VU == Receives("SDRAM", 25, 10)

MPEG4 == [SDRAM |-> MPEG4_SDRAM, SRAM2 |-> MPEG4_SRAM2, RISC |-> MPEG4_RISC,
          BAB |-> MPEG4_BAB, IDCT |-> MPEG4_IDCT, UPSAMP |-> MPEG4_UPSAMP,
          ADSP |-> MPEG4_ADSP, MCPU |-> MPEG4_MCPU, SRAM1 |-> MPEG4_SRAM1,
          RAST |-> MPEG4_RAST, AU |-> MPEG4_AU, VU |-> MPEG4_VU]

-----------------------------------------------------------------------------
(* synthetic, communication, prod_cons *)

synthetic_taskA == Times(100, <<Send("taskB", 1), Send("taskC", 1)>>)
synthetic_taskB == Times(100, <<ReceiveAny("taskA", 1), Send("taskD", 1)>>)
synthetic_taskC == Times(100, <<ReceiveAny("taskA", 1), Send("taskD", 1)>>)
synthetic_taskD == Times(100, <<ReceiveAny("taskB", 1), ReceiveAny("taskC", 1)>>)

synthetic == [taskA |-> synthetic_taskA, taskB |-> synthetic_taskB,
              taskC |-> synthetic_taskC, taskD |-> synthetic_taskD]

communication_taskA == Times(500, <<Send("taskB", 128), Send("taskC", 128)>>)
communication_taskB == Times(500, <<ReceiveAny("taskA", 0), Send("taskD", 128)>>)
communication_taskC == Times(500, <<ReceiveAny("taskA", 0), Send("taskD", 128)>>)
communication_taskD == Times(500, <<ReceiveAny("taskB", 0), ReceiveAny("taskC", 0)>>)

communication == [taskA |-> communication_taskA, taskB |-> communication_taskB,
                  taskC |-> communication_taskC, taskD |-> communication_taskD]

prod_cons_prod == Times(5000, <<Send("cons", 1024)>>)
prod_cons_cons == Times(5000, <<ReceiveAny("prod", 0)>>)

prod_cons == [prod |-> prod_cons_prod, cons |-> prod_cons_cons]

-----------------------------------------------------------------------------
(* mpeg: a pipeline of five tasks, 200 frames; audio_video: an audio and a video
   pipeline that meet in join, 20 frames *)

mpeg_start == Times(200, <<Send("ivlc", MSG_SIZE)>>)
mpeg_ivlc == Times(200, <<ReceiveInto("start", 128, 1024), Send("iquant", 512)>>)
mpeg_iquant == Times(200, <<ReceiveInto("ivlc", 64, 512), Send("idct", 512)>>)
mpeg_idct == Times(200, <<ReceiveInto("iquant", 64, 512), Send("print", 512)>>)
mpeg_print == Times(200, <<ReceiveAny("idct", 0)>>)

mpeg == [start |-> mpeg_start, ivlc |-> mpeg_ivlc, iquant |-> mpeg_iquant,
         idct |-> mpeg_idct, print |-> mpeg_print]

COMPRESSED_SAMPLES == 16

audio_video_split ==
    Times(20, <<Send("adpcm_dec", COMPRESSED_SAMPLES), Send("ivlc", 128)>>)
audio_video_adpcm_dec ==
    Times(20, <<ReceiveAny("split", COMPRESSED_SAMPLES), Send("FIR", COMPRESSED_SAMPLES)>>)
\* The decoder doubles the samples: the filter runs over twice what it receives.
audio_video_FIR ==
    Times(20, <<ReceiveAny("adpcm_dec", 2 * COMPRESSED_SAMPLES), Send("join", COMPRESSED_SAMPLES)>>)
audio_video_ivlc == Times(20, <<ReceiveInto("split", 128, 128), Send("iquant", 64)>>)
audio_video_iquant == Times(20, <<ReceiveInto("ivlc", 64, 64), Send("idct", 64)>>)
audio_video_idct == Times(20, <<ReceiveInto("iquant", 64, 64), Send("join", 64)>>)
audio_video_join == Times(20, <<ReceiveAny("FIR", 0), ReceiveAny("idct", 0)>>)

audio_video == [split |-> audio_video_split, adpcm_dec |-> audio_video_adpcm_dec,
                FIR |-> audio_video_FIR, ivlc |-> audio_video_ivlc,
                iquant |-> audio_video_iquant, idct |-> audio_video_idct,
                join |-> audio_video_join]

-----------------------------------------------------------------------------
(* dtw: one test pattern against the 80 of a bank, four tasks *)

dtw_P == <<"p1", "p2", "p3", "p4">>
TOTAL_TASKS == 4
PATTERN_PER_TASK == 80 \div TOTAL_TASKS
dtw_SIZE == 11 * 11

dtw_bank == Times(PATTERN_PER_TASK, [i \in 1..TOTAL_TASKS |-> Send(dtw_P[i], dtw_SIZE)])
dtw_recognizer ==
    Once([i \in 1..TOTAL_TASKS |-> Send(dtw_P[i], dtw_SIZE)])
    \o Times(PATTERN_PER_TASK, [i \in 1..TOTAL_TASKS |-> ReceiveAny(dtw_P[i], 0)])

DtwMatcher ==
    Once(<<ReceiveAny("recognizer", dtw_SIZE)>>)
    \o Times(PATTERN_PER_TASK, <<ReceiveAny("bank", dtw_SIZE), Send("recognizer", 1)>>)
dtw_p1 == DtwMatcher
dtw_p2 == DtwMatcher
dtw_p3 == DtwMatcher
dtw_p4 == DtwMatcher

dtw == [bank |-> dtw_bank, recognizer |-> dtw_recognizer,
        p1 |-> dtw_p1, p2 |-> dtw_p2, p3 |-> dtw_p3, p4 |-> dtw_p4]

-----------------------------------------------------------------------------
(* aes: 16 blocks ciphered, then deciphered, by eight slaves *)

NUMBER_OF_SLAVES == 8
aes_blocks == 16
Slave == <<"slave1", "slave2", "slave3", "slave4", "slave5", "slave6", "slave7", "slave8">>

\* qtd_messages: the blocks of each slave. Of the remainder the cipher gives one
\* to the slaves below it, the decipher also to the next.
aes_share(x, rest) == (aes_blocks \div NUMBER_OF_SLAVES) + (IF rest THEN 1 ELSE 0)
CipherShare == [x \in 1..NUMBER_OF_SLAVES |->
                    aes_share(x, x - 1 < aes_blocks % NUMBER_OF_SLAVES)]
DecipherShare == [x \in 1..NUMBER_OF_SLAVES |->
                    aes_share(x, x - 1 <= aes_blocks % NUMBER_OF_SLAVES)]

\* One pass of the loop over the blocks: to every slave with blocks left, then from it.
aes_round(share, r) ==
    LET with_blocks == SelectSeq([x \in 1..NUMBER_OF_SLAVES |-> x], LAMBDA x : share[x] > r)
    IN  Once([i \in DOMAIN with_blocks |-> Send(Slave[with_blocks[i]], 64)]
             \o [i \in DOMAIN with_blocks |-> ReceiveAny(Slave[with_blocks[i]], 16)])
aes_deal(share) ==
    FlattenSeq([r \in 1..(aes_blocks \div NUMBER_OF_SLAVES + 1) |-> aes_round(share, r - 1)])

\* The configuration of every slave: mode, blocks and id.
aes_configure == Once([x \in 1..NUMBER_OF_SLAVES |-> Send(Slave[x], 12)])

aes_master ==
    aes_configure \o aes_deal(CipherShare) \o aes_configure \o aes_deal(DecipherShare)
    \o aes_configure

\* A slave does the blocks its configuration says, until one says END_TASK.
aes_slave(x) ==
    LET configured == Once(<<ReceiveAny("master", 3)>>)
        block == <<ReceiveAny("master", 16), Send("master", 64)>>
    IN  configured \o Times(CipherShare[x], block)
        \o configured \o Times(DecipherShare[x], block) \o configured
aes_slave1 == aes_slave(1)
aes_slave2 == aes_slave(2)
aes_slave3 == aes_slave(3)
aes_slave4 == aes_slave(4)
aes_slave5 == aes_slave(5)
aes_slave6 == aes_slave(6)
aes_slave7 == aes_slave(7)
aes_slave8 == aes_slave(8)

aes == [master |-> aes_master, slave1 |-> aes_slave1, slave2 |-> aes_slave2,
        slave3 |-> aes_slave3, slave4 |-> aes_slave4, slave5 |-> aes_slave5,
        slave6 |-> aes_slave6, slave7 |-> aes_slave7, slave8 |-> aes_slave8]

-----------------------------------------------------------------------------
(* quicksort: a tree of tasks that halve a vector of 80 words; the leaves sort *)

VECTOR_SIZE == 80

\* What a task receives it splits in two for its children, and merges for its parent.
SortingNode(parent, left, right, size) ==
    Once(<<Receive(parent, size), Send(left, size \div 2), Send(right, size \div 2),
           Receive(left, size \div 2), Receive(right, size \div 2), Send(parent, size)>>)
SortingLeaf(parent) == Once(<<Receive(parent, VECTOR_SIZE \div 8), Send(parent, VECTOR_SIZE \div 8)>>)

sorting_master ==
    Once(<<Send("sorting_1", VECTOR_SIZE \div 2), Send("sorting_2", VECTOR_SIZE \div 2),
           Receive("sorting_1", VECTOR_SIZE \div 2), Receive("sorting_2", VECTOR_SIZE \div 2)>>)
sorting_1 == SortingNode("sorting_master", "sorting_3", "sorting_4", VECTOR_SIZE \div 2)
sorting_2 == SortingNode("sorting_master", "sorting_5", "sorting_6", VECTOR_SIZE \div 2)
sorting_3 == SortingNode("sorting_1", "sorting_7", "sorting_8", VECTOR_SIZE \div 4)
sorting_4 == SortingNode("sorting_1", "sorting_9", "sorting_10", VECTOR_SIZE \div 4)
sorting_5 == SortingNode("sorting_2", "sorting_11", "sorting_12", VECTOR_SIZE \div 4)
sorting_6 == SortingNode("sorting_2", "sorting_13", "sorting_14", VECTOR_SIZE \div 4)
sorting_7 == SortingLeaf("sorting_3")
sorting_8 == SortingLeaf("sorting_3")
sorting_9 == SortingLeaf("sorting_4")
sorting_10 == SortingLeaf("sorting_4")
sorting_11 == SortingLeaf("sorting_5")
sorting_12 == SortingLeaf("sorting_5")
sorting_13 == SortingLeaf("sorting_6")
sorting_14 == SortingLeaf("sorting_6")

quicksort == [sorting_master |-> sorting_master, sorting_1 |-> sorting_1,
              sorting_2 |-> sorting_2, sorting_3 |-> sorting_3, sorting_4 |-> sorting_4,
              sorting_5 |-> sorting_5, sorting_6 |-> sorting_6, sorting_7 |-> sorting_7,
              sorting_8 |-> sorting_8, sorting_9 |-> sorting_9, sorting_10 |-> sorting_10,
              sorting_11 |-> sorting_11, sorting_12 |-> sorting_12,
              sorting_13 |-> sorting_13, sorting_14 |-> sorting_14]

-----------------------------------------------------------------------------
(* matrix_multi_master_slave: N * N words, five slaves *)

N == 10
numTasks == 5
task == <<"slave1", "slave2", "slave3", "slave4", "slave5">>

\* The messages for so many words; the last one is shorter. (The test is on 128,
\* the quotient on MSG_SIZE.)
getNumMSG(words) == IF words % 128 = 0 THEN words \div MSG_SIZE ELSE words \div MSG_SIZE + 1
getSizeMSG(numMSG, words) ==
    IF words % numMSG = 0 THEN words \div numMSG ELSE words \div numMSG + 1
getSizeLastMSG(numMSG, sizeMSG, words) == sizeMSG - (sizeMSG * numMSG - words)

\* The words of the j-th message.
SizeOfMSG(j, words) ==
    LET numMSG == getNumMSG(words)
        sizeMSG == getSizeMSG(numMSG, words)
    IN  IF j = numMSG THEN getSizeLastMSG(numMSG, sizeMSG, words) ELSE sizeMSG

\* adjust: the elements of A for slave i; the rows that remain go to the first ones.
qtdElemA == [i \in 1..numTasks |->
                (N \div numTasks + (IF i <= N % numTasks THEN 1 ELSE 0)) * N]

sendB == [k \in 1..(getNumMSG(N * N + 1) * numTasks) |->
            Send(task[((k - 1) % numTasks) + 1], SizeOfMSG((k - 1) \div numTasks + 1, N * N + 1))]
sendA == FlattenSeq([i \in 1..numTasks |->
            [j \in 1..getNumMSG(qtdElemA[i] + 4) |->
                Send(task[i], SizeOfMSG(j, qtdElemA[i] + 4))]])
receiveR == FlattenSeq([i \in 1..numTasks |->
            [j \in 1..getNumMSG(qtdElemA[i]) |->
                ReceiveAny(task[i], SizeOfMSG(j, qtdElemA[i]))]])

matrix_master == Once(sendB) \o Once(sendA) \o Once(receiveR)

\* The words of B and, after four others, of A have room for N * N and for its rows.
receiveB == [j \in 1..getNumMSG(N * N + 1) |-> ReceiveInto("master", 1, N * N + 1)]
receiveA(i) == [j \in 1..getNumMSG(qtdElemA[i] + 4) |->
                    ReceiveInto("master", 4, qtdElemA[i] + 4)]
sendR(i) == [j \in 1..getNumMSG(qtdElemA[i]) |->
                Send("master", SizeOfMSG(j, qtdElemA[i]))]

matrix_slave(i) == Once(receiveB) \o Once(receiveA(i)) \o Once(sendR(i))
matrix_slave1 == matrix_slave(1)
matrix_slave2 == matrix_slave(2)
matrix_slave3 == matrix_slave(3)
matrix_slave4 == matrix_slave(4)
matrix_slave5 == matrix_slave(5)

matrix == [master |-> matrix_master, slave1 |-> matrix_slave1, slave2 |-> matrix_slave2,
           slave3 |-> matrix_slave3, slave4 |-> matrix_slave4, slave5 |-> matrix_slave5]

-----------------------------------------------------------------------------
(* fixe_base_test_16: the distances between two spectra, in fixed point *)

fixe_size == 16

fixe_P1 == Once(<<Send("RMS", fixe_size), Send("WRMS", fixe_size), Send("GFC", fixe_size),
                  Send("XYZ1", fixe_size)>>)
fixe_P2 == Once(<<Send("RMS", fixe_size), Send("WRMS", fixe_size), Send("GFC", fixe_size),
                  Send("XYZ2", fixe_size)>>)

FromBoth(p, q, words) == Once(<<ReceiveAny(p, words), ReceiveAny(q, words)>>)
fixe_RMS == FromBoth("P1", "P2", fixe_size)
fixe_WRMS == FromBoth("P1", "P2", fixe_size)
fixe_GFC == FromBoth("P1", "P2", fixe_size)
fixe_XYZ1 == Once(<<ReceiveAny("P1", fixe_size), Send("LAB1", 3), Send("DXYZ", 3), Send("RGB1", 3)>>)
fixe_XYZ2 == Once(<<ReceiveAny("P2", fixe_size), Send("LAB2", 3), Send("DXYZ", 3), Send("RGB2", 3)>>)
fixe_LAB1 == Once(<<ReceiveAny("XYZ1", 3), Send("DLAB", 3)>>)
fixe_LAB2 == Once(<<ReceiveAny("XYZ2", 3), Send("DLAB", 3)>>)
fixe_RGB1 == Once(<<ReceiveAny("XYZ1", 3), Send("DRGB", 3)>>)
fixe_RGB2 == Once(<<ReceiveAny("XYZ2", 3), Send("DRGB", 3)>>)
fixe_DLAB == FromBoth("LAB1", "LAB2", 3)
fixe_DXYZ == FromBoth("XYZ1", "XYZ2", 3)
fixe_DRGB == FromBoth("RGB1", "RGB2", 3)

fixe == [P1 |-> fixe_P1, P2 |-> fixe_P2, RMS |-> fixe_RMS, WRMS |-> fixe_WRMS,
         GFC |-> fixe_GFC, XYZ1 |-> fixe_XYZ1, XYZ2 |-> fixe_XYZ2, LAB1 |-> fixe_LAB1,
         LAB2 |-> fixe_LAB2, RGB1 |-> fixe_RGB1, RGB2 |-> fixe_RGB2, DLAB |-> fixe_DLAB,
         DXYZ |-> fixe_DXYZ, DRGB |-> fixe_DRGB]

-----------------------------------------------------------------------------

Application == [VOPD |-> VOPD, MWD |-> MWD, MPEG4 |-> MPEG4, synthetic |-> synthetic,
                communication |-> communication, prod_cons |-> prod_cons, mpeg |-> mpeg,
                audio_video |-> audio_video, dtw |-> dtw, aes |-> aes,
                quicksort |-> quicksort, matrix |-> matrix, fixe |-> fixe]

=============================================================================
