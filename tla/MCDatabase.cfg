\* One upgrade: files of the program's own release, of an older one, and of none.
CONSTANT Releases <- MCReleases
SPECIFICATION FairSpec
INVARIANT RowsMeanWhatTheyDid
INVARIANT InstallationIsAccepted
INVARIANT RunningMatchesRelease
PROPERTY InstalledOnce
PROPERTY StartEnds
