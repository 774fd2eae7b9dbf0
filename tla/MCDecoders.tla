----------------------------- MODULE MCDecoders -----------------------------
\* Messages with every combination of optional parts, a directory of one entry,
\* a handle of one word and a name of two; then an empty directory and a count
\* above two megabytes.
EXTENDS Decoders

Sent == [fh : {4}, name : {5}, set : BOOLEAN, attr : BOOLEAN, pre : BOOLEAN,
         entries : {1}, count : {3}]
        \cup [fh : {6}, name : {0}, set : {TRUE}, attr : {TRUE}, pre : {TRUE},
              entries : {0, 2}, count : {9}]
=============================================================================
