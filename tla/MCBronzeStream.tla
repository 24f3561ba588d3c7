---------------------------- MODULE MCBronzeStream ----------------------------
(* Instances of BronzeStream: the locations a job is started with.         *)
EXTENDS BronzeStream

\* The locations the job knows of: the default and the two it refuses.
PlainLocations == {"quality-v2", "quality-v1", "legacy"}

\* The same directory may be written with a trailing slash.
SlashLocations == {"quality-v2", "legacy", "legacy/"}
=============================================================================
