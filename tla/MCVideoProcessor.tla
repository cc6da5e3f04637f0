--------------------------- MODULE MCVideoProcessor ---------------------------
(* Up to five analysed frames of five kinds, at rates of 5 and 4 a second, measured in *)
(* floats of six bits.                                                                 *)
EXTENDS VideoProcessor

\* The patterns are an exponent and five more bits; the first 32 floats are subnormal.
MCFloat == [pattern \in 0..LastPattern |->
                LET exponent == pattern \div 32
                    bits == pattern % 32
                IN IF exponent = 0 THEN bits ELSE (32 + bits) * 2 ^ (exponent - 1)]

\* 68, 50, 3, 20 and 20 %.
MCPolicy == [hands |-> 68 * One, idle |-> 50 * One, translation |-> 3 * One, rotation |-> 6,
             repetition |-> 54, blurry |-> 20 * One, exposure |-> 20 * One]

MCCamera == [blackMean |-> 8, entropy |-> 1, blurLaplacian |-> 80, clippedPixels |-> 36,
             blackWindow |-> 2, blackFraction |-> 90]

MCIdle == [minRun |-> 12, handActivity |-> 1, workspaceActivity |-> 1]

\* The job of the run controller: the API's rules and one on the hand speed.
MCJobRules == ApiRules \cup {Rule("hand-speed", "speed", "<=", 45, TRUE)}

\* Hands at rest in sight of the detector.
Rest == [luminance |-> 100, entropy |-> 6, laplacian |-> 200, clipped |-> 0, textured |-> TRUE,
         place |-> 0, angle |-> 0, pose |-> 0, bench |-> 0, large |-> {<<5, 5>>}, small |-> {}]

\* A hand that has moved, blurred, and is found in two of the crops only.
Reach == [Rest EXCEPT !.place = 1, !.pose = 20, !.laplacian = 40, !.large = {},
                      !.small = {<<9, 2>>}]

Turned == [Rest EXCEPT !.angle = 2]

Shoved == [Rest EXCEPT !.place = 3, !.laplacian = 20, !.clipped = 40]

Dark == [Rest EXCEPT !.luminance = 4, !.entropy = 0, !.laplacian = 0, !.clipped = 60,
                     !.textured = FALSE, !.bench = 9, !.large = {}]

MCPictures == {Rest, Reach, Turned, Shoved, Dark}
==============================================================================
