SPECIFICATION SessionSpec
CONSTANTS
    a = a  b = b  c = c  x = x  y = y  g = g  p = p
    core = core  extra = extra  pb = pb  aur = aur
    NoRepo = NoRepo
    Name <- MCName
    RepoName <- MCRepoName
    Worlds <- RivalWorlds
    Queries <- MCQueries
INVARIANTS
    UnneededUpToDate
