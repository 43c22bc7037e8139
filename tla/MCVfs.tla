-------------------------------- MODULE MCVfs --------------------------------
\* A directory, a file in it, a file below a file, repeated and trailing slashes, a
\* path without a name, and a name that may read as another.
EXTENDS Vfs

MCName == {"", "initrd", "welcome", "welcomes", "long"}
MCReads == [n \in MCName |-> IF n = "welcome" THEN {"welcome", "welcomes"} ELSE {n}]
MCInitrd == <<"/", "initrd">>
MCWanted == {<<"/", "initrd", "/", "welcome">>, <<"/", "initrd", "/", "welcome", "/", "welcome">>}
MCHeaders == {<<"/", "initrd", "/">>,
              <<"/", "initrd", "/", "welcome">>,
              <<"/", "/", "initrd", "/", "/", "welcome", "/">>,
              <<"/", "initrd", "/", "welcome", "/", "welcomes">>,
              <<"/", "welcomes">>,
              <<"/", "long">>,
              <<"/">>}
=============================================================================
